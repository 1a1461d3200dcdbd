------------------------------ MODULE FifoLine ------------------------------
(***************************************************************************)
(* What HttpSession::RequestGate promises its callers: they stand in line, *)
(* the one at the head has the connection to itself, and nobody is         *)
(* overtaken.  A caller further back may give up and step out of the line. *)
(***************************************************************************)
EXTENDS Naturals, SequencesExt

CONSTANT Callers

VARIABLE line

LineInit == line = <<>>

InLine(p) == \E i \in 1..Len(line) : line[i] = p

Join(p) == ~InLine(p) /\ line' = Append(line, p)

GiveUp(i) == i \in 2..Len(line) /\ line' = RemoveAt(line, i)

HeadDone == line # <<>> /\ line' = Tail(line)

LineNext == HeadDone \/ (\E p \in Callers : Join(p)) \/ (\E i \in 2..Len(line) : GiveUp(i))

LineSpec == LineInit /\ [][LineNext]_line
=============================================================================
