-------------------------- MODULE TranscriptLedger --------------------------
(***************************************************************************)
(* transcripts.py: the rows of one realtime stream's transcript.  A row is *)
(* one utterance; only the last row may be transcribed and only the last   *)
(* two may be revised.  Whether a method raises stale_transcript is an     *)
(* operator of its own (Accepts, Revises).                                 *)
(***************************************************************************)
EXTENDS Naturals, Sequences

Row(u, t, f) ==
  [utt |-> u, text |-> t, final |-> f, locked |-> FALSE, revisable |-> FALSE]

Newest(rows) == rows[Len(rows)]

Current(rows, u) ==
  rows # <<>> /\ Newest(rows).utt = u /\ ~Newest(rows).locked

IsNew(rows, u) == \A i \in DOMAIN rows : rows[i].utt # u

(* accept_partial and accept_final refuse the same updates ... *)
Accepts(rows, u) ==
  \/ rows = <<>> \/ Current(rows, u)
  \/ rows # <<>> /\ Newest(rows).final /\ IsNew(rows, u)

OpenNext(rows, row) ==
  LET n == Len(rows)
  IN  Append([rows EXCEPT ![n].revisable = @ \/ ~rows[n].locked], row)

(* ... and differ in what they do to the final flag. *)
Accept(rows, u, t, f) ==
  IF rows = <<>> THEN <<Row(u, t, f)>>
  ELSE IF Current(rows, u)
  THEN [rows EXCEPT ![Len(rows)].text = t, ![Len(rows)].final = @ \/ f]
  ELSE OpenNext(rows, Row(u, t, f))

(* Mutant: the newest row is revised, whatever was asked. *)
RevisesNewest(rows, u) ==
  /\ rows # <<>> /\ ~Newest(rows).locked /\ Newest(rows).final
  /\ Len(rows) > 1 =>
       ~rows[Len(rows) - 1].locked /\ rows[Len(rows) - 1].revisable

Revises(rows, u) ==
  /\ Current(rows, u) /\ Newest(rows).final
  /\ Len(rows) > 1 =>
       ~rows[Len(rows) - 1].locked /\ rows[Len(rows) - 1].revisable

(* apply_revision: the previous row takes its last text and is locked. *)
Revise(rows, previous, current) ==
  LET n == Len(rows)
  IN  [i \in DOMAIN rows |->
         IF i = n THEN [rows[i] EXCEPT !.text = current]
         ELSE IF i = n - 1
         THEN [rows[i] EXCEPT !.text = previous, !.locked = TRUE,
                              !.revisable = FALSE]
         ELSE rows[i]]

Finalize(rows) ==
  [i \in DOMAIN rows |->
     [rows[i] EXCEPT !.locked = TRUE, !.revisable = FALSE]]
=============================================================================
