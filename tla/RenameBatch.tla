----------------------------- MODULE RenameBatch -----------------------------
(***************************************************************************)
(* The conditional batch rename: a batch that was approved on a snapshot of *)
(* the files is carried out at most once under its operation id, all of it *)
(* or nothing, and only on the files as they were approved.  The receipt   *)
(* is written in the transaction of the rename; a client that did not get  *)
(* an answer sends the operation again or asks for its status.             *)
(*                                                                         *)
(* The files are those of one directory and one actor.  A version stands   *)
(* for updated_at, which a trigger moves on at every update of a row.      *)
(***************************************************************************)
EXTENDS Integers, FiniteSets

CONSTANTS
  BatchFile,   \* ordinary files of one directory
  BatchName,   \* visible names
  Op,          \* operation ids
  Sending,     \* bound: requests sent in a behaviour, retries included
  MaxTouches   \* bound: updates of the files by other requests

ASSUME BatchTouches == MaxTouches \in Nat
ASSUME BatchBounds == IsFiniteSet(Op) /\ IsFiniteSet(Sending)
ASSUME BatchNames == Cardinality(BatchFile) <= Cardinality(BatchName)

Version == 0 .. MaxTouches + Cardinality(Op)

\* A batch: the new name of each file in it, and the files as approved.
Snapshot == [name : BatchName, version : Version]
Item  == [to : BatchName, expected : Snapshot]
Batch == UNION {[S -> Item] : S \in (SUBSET BatchFile) \ {{}}}
NoBatch == <<>>

\* The result of a batch: what each file became.
Result == UNION {[S -> Snapshot] : S \in (SUBSET BatchFile) \ {{}}}

VARIABLES
  file,      \* the committed name and version of each file
  approved,  \* the batch the client made for each operation id
  receipt,   \* node_mutation_receipts: the batch (its hash) and the result
  sent,      \* the state of each request
  touches,   \* updates by others so far
  applied,   \* history: how often the batch of an operation was carried out
  answers    \* history: the successful answers, but those of dry runs

batchVars == <<file, approved, receipt, sent, touches, applied, answers>>

NoReceipt == [batch |-> NoBatch]
IsReceipt(o) == receipt[o] # NoReceipt

Rest == [step : {"new", "over"}]
SentRequest == [step : {"sent", "locked", "held"}, op : Op, batch : Batch]

SentAt(q, s) == sent[q].step = s
SentGoes(q, s) == sent' = [sent EXCEPT ![q].step = s]
SentEnds(q) == sent' = [sent EXCEPT ![q] = [step |-> "over"]]
Answer(o, b, res) == answers' = answers \cup {[op |-> o, batch |-> b, result |-> res]}

\* uq_nodes_live_sibling_visible_name
Distinct(f) == \A m, n \in BatchFile : m # n => f[m].name # f[n].name

-----------------------------------------------------------------------------
(* The client. *)

\* A batch is prepared from what the files are now.
Approve(o, S, to) ==
  /\ approved[o] = NoBatch
  /\ S # {}
  /\ approved' = [approved EXCEPT ![o] = [n \in S |-> [to |-> to[n], expected |-> file[n]]]]
  /\ UNCHANGED <<file, receipt, sent, touches, applied, answers>>

\* A batch is sent, for the first time or again, with its operation id or, by
\* mistake, that of another batch.
Send(q, o, b) ==
  /\ SentAt(q, "new")
  /\ b \in {approved[p] : p \in Op} \ {NoBatch}
  /\ sent' = [sent EXCEPT ![q] = [step |-> "sent", op |-> o, batch |-> b]]
  /\ UNCHANGED <<file, approved, receipt, touches, applied, answers>>

-----------------------------------------------------------------------------
(* The server. *)

\* A Touch that does not wait for a batch.
Touch_NoRowLock(n, nm) ==
  /\ touches < MaxTouches
  /\ LET f == [file EXCEPT ![n] = [name |-> nm, version |-> @.version + 1]] IN
     Distinct(f) /\ file' = f
  /\ touches' = touches + 1
  /\ UNCHANGED <<approved, receipt, sent, applied, answers>>

\* Another request that updates a file (Rename, or any change of its row).  It
\* waits for the row locks of a batch.
Touch(n, nm) ==
  /\ touches < MaxTouches
  /\ \A q \in Sending : SentAt(q, "held") => n \notin DOMAIN sent[q].batch
  /\ LET f == [file EXCEPT ![n] = [name |-> nm, version |-> @.version + 1]] IN
     Distinct(f) /\ file' = f
  /\ touches' = touches + 1
  /\ UNCHANGED <<approved, receipt, sent, applied, answers>>

\* The transaction holds the lock of its operation: no other is past it.
Serialized(q) ==
  \A s \in Sending \ {q} : sent[s].step \in {"locked", "held"} => sent[s].op # sent[q].op

\* A Replay that does not compare the request hash.
Replay_AnyBatch(q) ==
  LET o == sent[q].op IN
  /\ SentAt(q, "sent")
  /\ Serialized(q)
  /\ IsReceipt(o)
  /\ SentEnds(q)
  /\ Answer(o, sent[q].batch, receipt[o].result)
  /\ UNCHANGED <<file, approved, receipt, touches, applied>>

\* LockMutationOperation, and a receipt that is there: the same request gets
\* the result again, if it is no dry run and its transaction ends well; another
\* is refused.
Replay(q) ==
  LET o == sent[q].op IN
  /\ SentAt(q, "sent")
  /\ Serialized(q)
  /\ IsReceipt(o)
  /\ SentEnds(q)
  /\ \/ /\ receipt[o].batch = sent[q].batch
        /\ Answer(o, sent[q].batch, receipt[o].result)
     \/ UNCHANGED answers
  /\ UNCHANGED <<file, approved, receipt, touches, applied>>

\* ... and no receipt.
LockOperation(q) ==
  /\ SentAt(q, "sent")
  /\ Serialized(q)
  /\ ~IsReceipt(sent[q].op)
  /\ SentGoes(q, "locked")
  /\ UNCHANGED <<file, approved, receipt, touches, applied, answers>>

\* executeRenameBatch locks the rows, compares them with the snapshot and
\* checks the new names, among each other and against the directory.
AsApproved(b, f) == \A n \in DOMAIN b : f[n] = b[n].expected
NamesFree(b, f) ==
  \A n \in DOMAIN b :
    /\ \A m \in DOMAIN b \ {n} : b[m].to # b[n].to
    /\ \A m \in BatchFile \ {n} : f[m].name # b[n].to

LockFiles(q) ==
  LET b == sent[q].batch IN
  /\ SentAt(q, "locked")
  /\ \A s \in Sending \ {q} : SentAt(s, "held") => DOMAIN sent[s].batch \cap DOMAIN b = {}
  /\ AsApproved(b, file)
  /\ NamesFree(b, file)
  /\ SentGoes(q, "held")
  /\ UNCHANGED <<file, approved, receipt, touches, applied, answers>>

Renamed(b) ==
  [n \in BatchFile |-> IF n \in DOMAIN b
                    THEN [name |-> b[n].to, version |-> file[n].version + 1]
                    ELSE file[n]]

\* The names and the receipt are written and the transaction commits; the
\* answer may be lost.
Commit(q) ==
  LET o == sent[q].op
      b == sent[q].batch
      f == Renamed(b)
      res == [n \in DOMAIN b |-> f[n]]
  IN
  /\ SentAt(q, "held")
  /\ Distinct(f)
  /\ file' = f
  /\ receipt' = [receipt EXCEPT ![o] = [batch |-> b, result |-> res]]
  /\ applied' = [applied EXCEPT ![o] = @ + 1]
  /\ Answer(o, b, res) \/ UNCHANGED answers
  /\ SentEnds(q)
  /\ UNCHANGED <<approved, touches>>

\* Any refusal, error or time-out, and a dry run in the end: the transaction is
\* rolled back.
Rollback(q) ==
  /\ sent[q].step \in {"sent", "locked", "held"}
  /\ SentEnds(q)
  /\ UNCHANGED <<file, approved, receipt, touches, applied, answers>>

\* RenameBatchStatus: the result is in the receipt; none means not yet, or not.
Status(o) ==
  /\ IsReceipt(o)
  /\ Answer(o, receipt[o].batch, receipt[o].result)
  /\ UNCHANGED <<file, approved, receipt, sent, touches, applied>>

-----------------------------------------------------------------------------
BatchStart ==
  /\ file \in [BatchFile -> [name : BatchName, version : {0}]]
  /\ Distinct(file)
  /\ approved = [o \in Op |-> NoBatch]
  /\ receipt = [o \in Op |-> NoReceipt]
  /\ sent = [q \in Sending |-> [step |-> "new"]]
  /\ touches = 0
  /\ applied = [o \in Op |-> 0]
  /\ answers = {}

BatchNext ==
  \/ \E o \in Op, S \in SUBSET BatchFile : \E to \in [S -> BatchName] : Approve(o, S, to)
  \/ \E q \in Sending, o, p \in Op : Send(q, o, approved[p])
  \/ \E n \in BatchFile, nm \in BatchName : Touch(n, nm)
  \/ \E q \in Sending :
       \/ Replay(q)
       \/ LockOperation(q)
       \/ LockFiles(q)
       \/ Commit(q)
       \/ Rollback(q)
  \/ \E o \in Op : Status(o)

BatchSpec == BatchStart /\ [][BatchNext]_batchVars

-----------------------------------------------------------------------------
(* Properties. *)

BatchTypeOK ==
  /\ file \in [BatchFile -> Snapshot]
  /\ approved \in [Op -> {NoBatch} \cup Batch]
  /\ receipt \in [Op -> {NoReceipt} \cup [batch : Batch, result : Result]]
  /\ sent \in [Sending -> Rest \cup SentRequest]
  /\ touches \in 0 .. MaxTouches
  /\ applied \in [Op -> 0 .. Cardinality(Sending)]
  /\ answers \subseteq [op : Op, batch : Batch, result : Result]

\* However often an operation is sent, concurrently or after its answer was
\* lost, its batch is carried out at most once, a receipt says so exactly if it
\* was, and every answer of success is about that batch and its result.
CarriedOutOnce ==
  /\ \A o \in Op : applied[o] = IF IsReceipt(o) THEN 1 ELSE 0
  /\ \A a \in answers : receipt[a.op] = [batch |-> a.batch, result |-> a.result]

\* A batch changes the files only if each of them is, at that moment, as it
\* was when the batch was approved, whoever else renames files meanwhile.
OnlyAsApproved ==
  [][\A o \in Op : applied'[o] # applied[o] => AsApproved(receipt'[o].batch, file)]_batchVars
=============================================================================
