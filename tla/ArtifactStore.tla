--------------------------- MODULE ArtifactStore ---------------------------
(***************************************************************************)
(* Pipeline.store_audio: synthesized speech is written beside its final    *)
(* name, renamed, and the directory pruned to the newest files.  Turns of  *)
(* different sessions and the synthesis route call it from the threads of  *)
(* the shared pool (concurrency.py), and nothing locks the directory:      *)
(* every file operation is a step.                                         *)
(*                                                                         *)
(* A file is named by its place in the order (st_mtime_ns, name).  The     *)
(* name of a file is fixed by its last write, before the rename.           *)
(***************************************************************************)
EXTENDS Integers, FiniteSets

CONSTANTS
  Worker,        \* threads of the pool
  MaxArtifacts,  \* Pipeline.max_artifacts
  MaxStores,     \* bound: files written
  MaxRestarts    \* bound: restarts of the gateway

ASSUME StoreAssumption ==
  MaxArtifacts \in Nat \ {0} /\ MaxStores \in Nat /\ MaxRestarts \in Nat

File == 1..MaxStores

VARIABLES
  written,     \* files written so far
  temporary,   \* hidden files not renamed yet (a restart leaves them behind)
  files,       \* tts-*.wav in the directory
  pc, mine,    \* the worker's statement and the file it stores
  listing,     \* what its glob returned
  todo,        \* the files its current loop still has to visit
  stored,      \* auxiliary: every file ever renamed into place
  restarts

thread == <<pc, mine, listing, todo>>
storeVars == <<written, temporary, files, thread, stored, restarts>>

Newer(S, f) == {g \in S : g > f}

(* Mutant: the slice is taken from the wrong end. *)
ExpiredNewest(S) ==
  {f \in S : Cardinality({g \in S : g < f}) >= MaxArtifacts}

(* artifacts[: -max_artifacts], artifacts being sorted oldest first *)
Expired(S) == {f \in S : Cardinality(Newer(S, f)) >= MaxArtifacts}

Goto(w, label) == pc' = [pc EXCEPT ![w] = label]

LeaveStore(w) ==
  /\ Goto(w, "off")
  /\ mine' = [mine EXCEPT ![w] = 0]
  /\ listing' = [listing EXCEPT ![w] = {}]
  /\ todo' = [todo EXCEPT ![w] = {}]

StoreInit ==
  /\ written = 0 /\ temporary = {} /\ files = {} /\ stored = {}
  /\ pc = [w \in Worker |-> "off"] /\ mine = [w \in Worker |-> 0]
  /\ listing = [w \in Worker |-> {}] /\ todo = [w \in Worker |-> {}]
  /\ restarts = 0

-----------------------------------------------------------------------------

Write(w) ==
  /\ pc[w] = "off" /\ written < MaxStores
  /\ written' = written + 1
  /\ temporary' = temporary \cup {written'}
  /\ mine' = [mine EXCEPT ![w] = written']
  /\ Goto(w, "rename")
  /\ UNCHANGED <<files, listing, todo, stored, restarts>>

Rename(w) ==
  /\ pc[w] = "rename"
  /\ temporary' = temporary \ {mine[w]}
  /\ files' = files \cup {mine[w]}
  /\ stored' = stored \cup {mine[w]}
  /\ Goto(w, "chmod")
  /\ UNCHANGED <<written, mine, listing, todo, restarts>>

(* Writing or renaming fails: the temporary file is removed. *)
WriteFails(w) ==
  /\ pc[w] = "rename"
  /\ temporary' = temporary \ {mine[w]}
  /\ LeaveStore(w)
  /\ UNCHANGED <<written, files, stored, restarts>>

(* chmod finds its own file pruned by another worker, and raises. *)
Chmod(w) ==
  /\ pc[w] = "chmod"
  /\ IF mine[w] \in files
     THEN Goto(w, "glob") /\ UNCHANGED <<mine, listing, todo>>
     ELSE LeaveStore(w)
  /\ UNCHANGED <<written, temporary, files, stored, restarts>>

Glob(w) ==
  /\ pc[w] = "glob"
  /\ listing' = [listing EXCEPT ![w] = files]
  /\ todo' = [todo EXCEPT ![w] = files]
  /\ Goto(w, "stat")
  /\ UNCHANGED <<written, temporary, files, mine, stored, restarts>>

(* The sort key: a file that was pruned after the glob makes stat raise.    *)
Stat(w) ==
  /\ pc[w] = "stat"
  /\ \E f \in todo[w] :
       IF f \in files
       THEN /\ todo' = [todo EXCEPT ![w] = @ \ {f}]
            /\ UNCHANGED <<pc, mine, listing>>
       ELSE LeaveStore(w)
  /\ UNCHANGED <<written, temporary, files, stored, restarts>>

Sorted(w) ==
  /\ pc[w] = "stat" /\ todo[w] = {}
  /\ todo' = [todo EXCEPT ![w] = Expired(listing[w])]
  /\ Goto(w, "unlink")
  /\ UNCHANGED <<written, temporary, files, mine, listing, stored, restarts>>

(* missing_ok: another worker may have unlinked it. *)
Unlink(w) ==
  /\ pc[w] = "unlink"
  /\ \E f \in todo[w] :
       /\ \A g \in todo[w] : f <= g
       /\ files' = files \ {f}
       /\ todo' = [todo EXCEPT ![w] = @ \ {f}]
  /\ UNCHANGED <<written, temporary, pc, mine, listing, stored, restarts>>

(* The URL of the file is answered. *)
Answer(w) ==
  /\ pc[w] = "unlink" /\ todo[w] = {}
  /\ LeaveStore(w)
  /\ UNCHANGED <<written, temporary, files, stored, restarts>>

(* The process dies; the directory stays, and glob does not match what is   *)
(* left in temporary.                                                       *)
Restart ==
  /\ restarts < MaxRestarts /\ restarts' = restarts + 1
  /\ pc' = [w \in Worker |-> "off"] /\ mine' = [w \in Worker |-> 0]
  /\ listing' = [w \in Worker |-> {}] /\ todo' = [w \in Worker |-> {}]
  /\ UNCHANGED <<written, temporary, files, stored>>

Store(w) ==
  \/ Write(w) \/ Rename(w) \/ WriteFails(w) \/ Chmod(w) \/ Glob(w)
  \/ Stat(w) \/ Sorted(w) \/ Unlink(w) \/ Answer(w)

StoreNext == (\E w \in Worker : Store(w)) \/ Restart

StoreSpec == StoreInit /\ [][StoreNext]_storeVars

-----------------------------------------------------------------------------
(* Properties *)

(* Every variable holds a value of the shape the code gives it. *)
StoreTypeOK ==
  /\ written \in 0..MaxStores
  /\ temporary \subseteq 1..written /\ files \subseteq 1..written
  /\ pc \in [Worker -> {"off", "rename", "chmod", "glob", "stat", "unlink"}]
  /\ mine \in [Worker -> 0..written]
  /\ listing \in [Worker -> SUBSET (1..written)]
  /\ todo \in [Worker -> SUBSET (1..written)]
  /\ stored \subseteq 1..written
  /\ restarts \in 0..MaxRestarts

(* An artifact whose URL may be in a client's hands disappears only after   *)
(* MaxArtifacts newer ones have been stored, however the prunings of the    *)
(* workers overlap.                                                         *)
NewestKept ==
  \A f \in stored \ files : Cardinality(Newer(stored, f)) >= MaxArtifacts

(* Used by GatewayProofs: nothing is in the directory or in a worker's     *)
(* hands that was not stored, and what a worker is about to unlink has     *)
(* enough newer files in its listing.                                      *)
PruneInv ==
  /\ files \subseteq stored
  /\ \A w \in Worker :
       /\ pc[w] = "rename" => mine[w] \in 1..written
       /\ listing[w] \subseteq stored /\ todo[w] \subseteq listing[w]
       /\ pc[w] = "unlink" => todo[w] \subseteq Expired(listing[w])
=============================================================================
