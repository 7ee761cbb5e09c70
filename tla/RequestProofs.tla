--------------------------- MODULE RequestProofs ----------------------------
(***************************************************************************)
(* What requests at the same time, and clients that repeat them or give up,*)
(* can rely on: for every set of requests, clients and rows.               *)
(***************************************************************************)
EXTENDS RenameBatch, LoginSessions, UserPreferences, Tagging, FileMappings,
        UploadClient, CommandLine, FiniteSetTheorems, TLAPS

-----------------------------------------------------------------------------
(* Conditional batch rename.                                               *)

\* Operations that were carried out.
Receipts == {o \in Op : IsReceipt(o)}

Serving(q) == sent[q].step \in {"locked", "held"}

\* A version counts updates.
VersionsBounded == \A n \in BatchFile : file[n].version <= touches + Cardinality(Receipts)

\* Only one request is past the lock of its operation, and no receipt was there.
OperationsLocked ==
  \A q \in Sending : Serving(q) =>
    /\ ~IsReceipt(sent[q].op)
    /\ \A s \in Sending \ {q} : Serving(s) => sent[s].op # sent[q].op

\* A request that holds the locks of its rows holds them alone, and what it has
\* checked about them still holds.
RowsHeld ==
  \A q \in Sending : SentAt(q, "held") =>
    /\ AsApproved(sent[q].batch, file)
    /\ \A s \in Sending \ {q} : SentAt(s, "held") => DOMAIN sent[s].batch \cap DOMAIN sent[q].batch = {}

BatchInv == BatchTypeOK /\ VersionsBounded /\ CarriedOutOnce /\ OperationsLocked /\ RowsHeld

-----------------------------------------------------------------------------
LEMMA ReceiptsBounded ==
  /\ IsFiniteSet(Receipts) /\ Cardinality(Receipts) \in Nat
  /\ Cardinality(Receipts) <= Cardinality(Op) /\ Cardinality(Op) \in Nat
BY BatchBounds, FS_Subset, FS_CardinalityType DEF Receipts

\* A batch names files, with their new names and what they were.
LEMMA BatchShape ==
  ASSUME NEW b \in Batch
  PROVE  /\ DOMAIN b \subseteq BatchFile /\ b # NoBatch
         /\ \A n \in DOMAIN b : b[n] \in Item
<1>1. PICK S \in (SUBSET BatchFile) \ {{}} : b \in [S -> Item]
  BY DEF Batch
<1>2. DOMAIN NoBatch = {}
  BY DEF NoBatch
<1> QED BY <1>1, <1>2

LEMMA BatchStarts == BatchStart => BatchInv
<1> SUFFICES ASSUME BatchStart PROVE BatchInv
  OBVIOUS
<1>1. /\ file \in [BatchFile -> [name : BatchName, version : {0}]]
      /\ approved = [o \in Op |-> NoBatch] /\ receipt = [o \in Op |-> NoReceipt]
      /\ sent = [q \in Sending |-> [step |-> "new"]] /\ touches = 0
      /\ applied = [o \in Op |-> 0] /\ answers = {}
  BY DEF BatchStart
<1>2. Cardinality(Op) \in Nat /\ Cardinality(Sending) \in Nat /\ MaxTouches \in Nat
  BY BatchBounds, BatchTouches, FS_CardinalityType
<1>3. file \in [BatchFile -> Snapshot] /\ \A n \in BatchFile : file[n].version = 0
  BY <1>1, <1>2 DEF Snapshot, Version
<1>4. sent \in [Sending -> Rest \cup SentRequest] /\ \A q \in Sending : sent[q].step = "new"
  BY <1>1 DEF Rest
<1>5. BatchTypeOK
  BY <1>1, <1>2, <1>3, <1>4 DEF BatchTypeOK
<1>6. VersionsBounded
  BY <1>1, <1>3, ReceiptsBounded DEF VersionsBounded
<1>7. CarriedOutOnce
  BY <1>1 DEF CarriedOutOnce, IsReceipt
<1>8. OperationsLocked /\ RowsHeld
  BY <1>4 DEF OperationsLocked, RowsHeld, Serving, SentAt
<1> QED BY <1>5, <1>6, <1>7, <1>8 DEF BatchInv

LEMMA SentIs ==
  ASSUME BatchTypeOK, NEW q \in Sending, sent[q].step \in {"sent", "locked", "held"}
  PROVE  sent[q] \in SentRequest /\ sent[q].op \in Op /\ sent[q].batch \in Batch
BY DEF BatchTypeOK, Rest, SentRequest

LEMMA SentEndsIs ==
  ASSUME BatchTypeOK, NEW q \in Sending, SentEnds(q)
  PROVE  /\ sent' \in [Sending -> Rest \cup SentRequest]
         /\ sent'[q].step = "over"
         /\ \A s \in Sending \ {q} : sent'[s] = sent[s]
BY DEF BatchTypeOK, SentEnds, Rest

\* A request that ends without a change of files or receipts leaves the rest
\* as it is.
LEMMA EndKeeps ==
  ASSUME BatchInv, NEW q \in Sending, SentEnds(q), UNCHANGED <<file, approved, receipt, touches, applied>>,
         answers' \subseteq answers \cup {a \in [op : Op, batch : Batch, result : Result] :
                                           receipt[a.op] = [batch |-> a.batch, result |-> a.result]}
  PROVE  BatchInv'
<1>1. BatchTypeOK
  BY DEF BatchInv
<1>2. /\ sent' \in [Sending -> Rest \cup SentRequest]
      /\ sent'[q].step = "over"
      /\ \A s \in Sending \ {q} : sent'[s] = sent[s]
  BY <1>1, SentEndsIs
<1>3. BatchTypeOK'
  BY <1>1, <1>2 DEF BatchTypeOK
<1>4. Receipts' = Receipts
  BY DEF Receipts, IsReceipt
<1>5. VersionsBounded'
  BY <1>4 DEF BatchInv, VersionsBounded
<1>6. CarriedOutOnce'
  BY DEF BatchInv, CarriedOutOnce, IsReceipt
<1>7. OperationsLocked' /\ RowsHeld'
  BY <1>2 DEF BatchInv, OperationsLocked, RowsHeld, Serving, SentAt, IsReceipt, AsApproved
<1> QED BY <1>3, <1>5, <1>6, <1>7 DEF BatchInv

LEMMA ApproveKeeps ==
  ASSUME BatchInv, NEW o \in Op, NEW S \in SUBSET BatchFile, NEW to \in [S -> BatchName], Approve(o, S, to)
  PROVE  BatchInv'
<1> DEFINE b == [n \in S |-> [to |-> to[n], expected |-> file[n]]]
<1>1. approved' = [approved EXCEPT ![o] = b] /\ UNCHANGED <<file, receipt, sent, touches, applied, answers>> /\ S # {}
  BY DEF Approve
<1>2. b \in Batch
  BY <1>1 DEF BatchInv, BatchTypeOK, Batch, Item
<1> HIDE DEF b
<1>3. BatchTypeOK'
  BY <1>1, <1>2 DEF BatchInv, BatchTypeOK
<1> QED BY <1>1, <1>3 DEF BatchInv, VersionsBounded, CarriedOutOnce, OperationsLocked, RowsHeld, Serving, SentAt,
          IsReceipt, AsApproved, Receipts

LEMMA SendKeeps ==
  ASSUME BatchInv, NEW q \in Sending, NEW o \in Op, NEW p \in Op, Send(q, o, approved[p])
  PROVE  BatchInv'
<1> DEFINE rec == [step |-> "sent", op |-> o, batch |-> approved[p]]
<1>1. /\ sent' = [sent EXCEPT ![q] = rec] /\ UNCHANGED <<file, approved, receipt, touches, applied, answers>>
      /\ approved[p] # NoBatch /\ SentAt(q, "new")
  BY DEF Send
<1>2. rec \in SentRequest /\ rec.step = "sent"
  BY <1>1 DEF BatchInv, BatchTypeOK, SentRequest
<1> HIDE DEF rec
<1>3. BatchTypeOK'
  BY <1>1, <1>2 DEF BatchInv, BatchTypeOK
<1>4. sent'[q].step = "sent" /\ \A s \in Sending \ {q} : sent'[s] = sent[s]
  BY <1>1, <1>2 DEF BatchInv, BatchTypeOK
<1> QED BY <1>1, <1>3, <1>4 DEF BatchInv, VersionsBounded, CarriedOutOnce, OperationsLocked, RowsHeld, Serving, SentAt,
          IsReceipt, AsApproved, Receipts

LEMMA TouchKeeps ==
  ASSUME BatchInv, NEW n \in BatchFile, NEW nm \in BatchName, Touch(n, nm)
  PROVE  BatchInv'
<1> DEFINE v == [name |-> nm, version |-> file[n].version + 1]
<1>1. /\ file' = [file EXCEPT ![n] = v] /\ touches < MaxTouches /\ touches' = touches + 1
      /\ UNCHANGED <<approved, receipt, sent, applied, answers>>
      /\ \A q \in Sending : SentAt(q, "held") => n \notin DOMAIN sent[q].batch
  BY DEF Touch
<1>2. Receipts' = Receipts /\ touches \in Nat /\ MaxTouches \in Nat /\ file[n].version \in Nat
  BY <1>1, BatchTouches DEF Receipts, IsReceipt, BatchInv, BatchTypeOK, Snapshot, Version
<1>3. v.version <= touches + 1 + Cardinality(Receipts) /\ v \in Snapshot
  BY <1>1, <1>2, ReceiptsBounded DEF BatchInv, VersionsBounded, Version, Snapshot
<1> HIDE DEF v
<1>4. file' \in [BatchFile -> Snapshot] /\ file'[n] = v /\ \A m \in BatchFile \ {n} : file'[m] = file[m]
  BY <1>1, <1>3 DEF BatchInv, BatchTypeOK
<1>5. BatchTypeOK'
  BY <1>1, <1>2, <1>4 DEF BatchInv, BatchTypeOK
<1>6. VersionsBounded'
  <2> SUFFICES ASSUME NEW m \in BatchFile PROVE file'[m].version <= touches + 1 + Cardinality(Receipts)
    BY <1>1, <1>2 DEF VersionsBounded
  <2>1. file[m].version <= touches + Cardinality(Receipts) /\ file[m].version \in Nat
    BY DEF BatchInv, VersionsBounded, BatchTypeOK, Snapshot, Version
  <2> QED BY <1>2, <1>3, <1>4, <2>1, ReceiptsBounded
<1>7. RowsHeld'
  <2> SUFFICES ASSUME NEW q \in Sending, SentAt(q, "held")
               PROVE  AsApproved(sent[q].batch, file')
    BY <1>1 DEF BatchInv, RowsHeld, SentAt, AsApproved
  <2>1. n \notin DOMAIN sent[q].batch /\ DOMAIN sent[q].batch \subseteq BatchFile
    BY <1>1, SentIs, BatchShape DEF SentAt, BatchInv
  <2> QED BY <1>4, <2>1 DEF BatchInv, RowsHeld, AsApproved
<1> QED BY <1>1, <1>5, <1>6, <1>7 DEF BatchInv, CarriedOutOnce, OperationsLocked, Serving, IsReceipt

LEMMA ReplayKeeps ==
  ASSUME BatchInv, NEW q \in Sending, Replay(q)
  PROVE  BatchInv'
<1>1. SentEnds(q) /\ UNCHANGED <<file, approved, receipt, touches, applied>> /\ IsReceipt(sent[q].op) /\ SentAt(q, "sent")
  BY DEF Replay
<1>2. sent[q].op \in Op /\ receipt[sent[q].op] \in [batch : Batch, result : Result]
  BY <1>1, SentIs DEF BatchInv, BatchTypeOK, SentAt, IsReceipt
<1>3. \/ UNCHANGED answers
      \/ /\ receipt[sent[q].op].batch = sent[q].batch
         /\ answers' = answers \cup {[op |-> sent[q].op, batch |-> sent[q].batch, result |-> receipt[sent[q].op].result]}
  BY DEF Replay, Answer
<1> QED BY <1>1, <1>2, <1>3, EndKeeps

LEMMA RollbackKeeps ==
  ASSUME BatchInv, NEW q \in Sending, Rollback(q)
  PROVE  BatchInv'
BY EndKeeps DEF Rollback

LEMMA StatusKeeps ==
  ASSUME BatchInv, NEW o \in Op, Status(o)
  PROVE  BatchInv'
<1> DEFINE a == [op |-> o, batch |-> receipt[o].batch, result |-> receipt[o].result]
<1>1. receipt[o] \in [batch : Batch, result : Result]
  BY DEF Status, BatchInv, BatchTypeOK, IsReceipt
<1>2. answers' = answers \cup {a} /\ UNCHANGED <<file, approved, receipt, sent, touches, applied>>
  BY DEF Status, Answer
<1>3. a \in [op : Op, batch : Batch, result : Result] /\ receipt[a.op] = [batch |-> a.batch, result |-> a.result]
  BY <1>1
<1> HIDE DEF a
<1>4. BatchTypeOK'
  BY <1>2, <1>3 DEF BatchInv, BatchTypeOK
<1>5. CarriedOutOnce'
  BY <1>2, <1>3 DEF BatchInv, CarriedOutOnce, IsReceipt
<1> QED BY <1>2, <1>4, <1>5 DEF BatchInv, VersionsBounded, OperationsLocked, RowsHeld, Serving, SentAt,
          IsReceipt, AsApproved, Receipts

\* What SentGoes makes of a request.
LEMMA SentGoesIs ==
  ASSUME BatchTypeOK, NEW q \in Sending, sent[q].step \in {"sent", "locked", "held"},
         NEW s \in {"locked", "held"}, SentGoes(q, s)
  PROVE  /\ sent' \in [Sending -> Rest \cup SentRequest]
         /\ sent'[q].step = s /\ sent'[q].op = sent[q].op /\ sent'[q].batch = sent[q].batch
         /\ \A p \in Sending \ {q} : sent'[p] = sent[p]
BY SentIs DEF BatchTypeOK, SentGoes, SentRequest

LEMMA LockOperationKeeps ==
  ASSUME BatchInv, NEW q \in Sending, LockOperation(q)
  PROVE  BatchInv'
<1>1. /\ SentGoes(q, "locked") /\ UNCHANGED <<file, approved, receipt, touches, applied, answers>>
      /\ sent[q].step = "sent" /\ ~IsReceipt(sent[q].op) /\ Serialized(q)
  BY DEF LockOperation, SentAt
<1>2. /\ sent' \in [Sending -> Rest \cup SentRequest]
      /\ sent'[q].step = "locked" /\ sent'[q].op = sent[q].op /\ sent'[q].batch = sent[q].batch
      /\ \A p \in Sending \ {q} : sent'[p] = sent[p]
  BY <1>1, SentGoesIs DEF BatchInv
<1>3. BatchTypeOK'
  BY <1>1, <1>2 DEF BatchInv, BatchTypeOK
<1>4. OperationsLocked'
  BY <1>1, <1>2 DEF BatchInv, OperationsLocked, Serving, Serialized, IsReceipt
<1> QED BY <1>1, <1>2, <1>3, <1>4 DEF BatchInv, VersionsBounded, CarriedOutOnce, RowsHeld, SentAt, IsReceipt, AsApproved, Receipts

LEMMA LockFilesKeeps ==
  ASSUME BatchInv, NEW q \in Sending, LockFiles(q)
  PROVE  BatchInv'
<1>1. /\ SentGoes(q, "held") /\ UNCHANGED <<file, approved, receipt, touches, applied, answers>>
      /\ sent[q].step = "locked" /\ AsApproved(sent[q].batch, file)
      /\ \A s \in Sending \ {q} : SentAt(s, "held") => DOMAIN sent[s].batch \cap DOMAIN sent[q].batch = {}
  BY DEF LockFiles, SentAt
<1>2. /\ sent' \in [Sending -> Rest \cup SentRequest]
      /\ sent'[q].step = "held" /\ sent'[q].op = sent[q].op /\ sent'[q].batch = sent[q].batch
      /\ \A p \in Sending \ {q} : sent'[p] = sent[p]
  BY <1>1, SentGoesIs DEF BatchInv
<1>3. BatchTypeOK'
  BY <1>1, <1>2 DEF BatchInv, BatchTypeOK
<1>4. OperationsLocked'
  BY <1>1, <1>2 DEF BatchInv, OperationsLocked, Serving, IsReceipt
<1>5. RowsHeld'
  BY <1>1, <1>2 DEF BatchInv, RowsHeld, SentAt, AsApproved
<1> QED BY <1>1, <1>3, <1>4, <1>5 DEF BatchInv, VersionsBounded, CarriedOutOnce, IsReceipt, Receipts

LEMMA CommitKeeps ==
  ASSUME BatchInv, NEW q \in Sending, Commit(q)
  PROVE  BatchInv'
<1> DEFINE o == sent[q].op
           b == sent[q].batch
           f == Renamed(b)
           res == [n \in DOMAIN b |-> f[n]]
           rec == [batch |-> b, result |-> res]
           a == [op |-> o, batch |-> b, result |-> res]
<1>1. /\ sent[q].step = "held" /\ file' = f /\ receipt' = [receipt EXCEPT ![o] = rec]
      /\ applied' = [applied EXCEPT ![o] = @ + 1] /\ answers' \in {answers, answers \cup {a}}
      /\ SentEnds(q) /\ UNCHANGED <<approved, touches>>
  BY DEF Commit, SentAt, Answer
<1>2. BatchTypeOK /\ o \in Op /\ b \in Batch /\ DOMAIN b \subseteq BatchFile /\ b # NoBatch /\ DOMAIN b # {}
  BY <1>1, SentIs, BatchShape DEF BatchInv, Batch
<1>3. /\ ~IsReceipt(o) /\ \A s \in Sending \ {q} : Serving(s) => sent[s].op # o
      /\ \A s \in Sending \ {q} : SentAt(s, "held") => DOMAIN sent[s].batch \cap DOMAIN b = {}
  BY <1>1 DEF BatchInv, OperationsLocked, RowsHeld, Serving, SentAt
<1>4. /\ f = [n \in BatchFile |-> IF n \in DOMAIN b THEN [name |-> b[n].to, version |-> file[n].version + 1] ELSE file[n]]
      /\ MaxTouches \in Nat /\ touches \in 0 .. MaxTouches
  BY <1>2, BatchTouches DEF Renamed, BatchTypeOK
<1>5. /\ Cardinality(Receipts \cup {o}) = Cardinality(Receipts) + 1
      /\ Cardinality(Receipts \cup {o}) <= Cardinality(Op)
  <2>1. o \notin Receipts
    BY <1>3 DEF Receipts
  <2>2. Receipts \cup {o} \in SUBSET Op
    BY <1>2 DEF Receipts
  <2> QED BY <2>1, <2>2, ReceiptsBounded, BatchBounds, FS_AddElement, FS_Subset
<1>6. ASSUME NEW n \in BatchFile
      PROVE  f[n] \in Snapshot /\ f[n].version <= touches + Cardinality(Receipts) + 1
  <2>1. /\ file[n] \in Snapshot /\ file[n].version \in Nat
        /\ file[n].version <= touches + Cardinality(Receipts)
    BY <1>2 DEF BatchInv, VersionsBounded, BatchTypeOK, Snapshot, Version
  <2>2. CASE n \in DOMAIN b
    <3>1. b[n].to \in BatchName
      BY <1>2, <2>2, BatchShape DEF Item
    <3>2. f[n] = [name |-> b[n].to, version |-> file[n].version + 1]
      BY <1>4, <2>2
    <3>3. file[n].version + 1 \in Version
      BY <1>4, <1>5, <2>1, ReceiptsBounded DEF Version
    <3>4. f[n].version = file[n].version + 1
      BY <3>2
    <3> QED BY <1>4, <2>1, <3>1, <3>2, <3>3, <3>4, ReceiptsBounded DEF Snapshot
  <2>3. CASE n \notin DOMAIN b
    <3>1. f[n] = file[n]
      BY <1>4, <2>3
    <3> QED BY <1>4, <2>1, <3>1, ReceiptsBounded
  <2> QED BY <2>2, <2>3
<1>7. res \in Result
  <2>1. res \in [DOMAIN b -> Snapshot]
    BY <1>2, <1>6
  <2> QED BY <1>2, <2>1 DEF Result
<1>8. f \in [BatchFile -> Snapshot]
  BY <1>4, <1>6
<1>9. /\ rec \in [batch : Batch, result : Result] /\ rec # NoReceipt
      /\ a \in [op : Op, batch : Batch, result : Result] /\ a.op = o /\ rec = [batch |-> a.batch, result |-> a.result]
  BY <1>2, <1>7 DEF NoReceipt
<1>10. \A n \in BatchFile \ DOMAIN b : f[n] = file[n]
  BY <1>4
<1> HIDE DEF f, res, rec, a
<1>11. /\ receipt' \in [Op -> {NoReceipt} \cup [batch : Batch, result : Result]] /\ receipt'[o] = rec
       /\ \A p \in Op \ {o} : receipt'[p] = receipt[p]
  BY <1>1, <1>2, <1>9 DEF BatchTypeOK
<1>12. Receipts' = Receipts \cup {o}
  BY <1>2, <1>9, <1>11 DEF Receipts, IsReceipt
<1>13. applied[o] = 0 /\ Cardinality(Sending) >= 1
  <2>1. Cardinality(Sending) \in Nat /\ Cardinality(Sending) # 0
    BY BatchBounds, FS_EmptySet, FS_CardinalityType
  <2> QED BY <1>2, <1>3, <2>1 DEF BatchInv, CarriedOutOnce
<1>14. applied' \in [Op -> 0 .. Cardinality(Sending)] /\ applied'[o] = 1 /\ \A p \in Op \ {o} : applied'[p] = applied[p]
  <2>1. Cardinality(Sending) \in Nat
    BY BatchBounds, FS_CardinalityType
  <2> QED BY <1>1, <1>2, <1>13, <2>1 DEF BatchTypeOK
<1>15. /\ sent' \in [Sending -> Rest \cup SentRequest]
       /\ sent'[q].step = "over"
       /\ \A s \in Sending \ {q} : sent'[s] = sent[s]
  BY <1>1, <1>2, SentEndsIs
<1>16. BatchTypeOK'
  BY <1>1, <1>2, <1>8, <1>9, <1>11, <1>14, <1>15 DEF BatchTypeOK
<1>17. VersionsBounded'
  <2>1. Cardinality(Receipts') = Cardinality(Receipts) + 1
    BY <1>5, <1>12
  <2>2. ASSUME NEW n \in BatchFile PROVE file'[n].version <= touches' + Cardinality(Receipts')
    <3>1. file'[n].version = f[n].version /\ f[n].version <= touches + Cardinality(Receipts) + 1 /\ touches' = touches
      BY <1>1, <1>6
    <3>2. touches \in Nat /\ Cardinality(Receipts) \in Nat
      BY <1>4, ReceiptsBounded
    <3> QED BY <2>1, <3>1, <3>2
  <2> QED BY <2>2 DEF VersionsBounded
<1>18. CarriedOutOnce'
  <2>1. \A p \in Op : applied'[p] = IF IsReceipt(p)' THEN 1 ELSE 0
    BY <1>2, <1>9, <1>11, <1>14 DEF BatchInv, CarriedOutOnce, IsReceipt
  <2>2. ASSUME NEW c \in answers PROVE receipt'[c.op] = [batch |-> c.batch, result |-> c.result]
    <3>1. c.op \in Op /\ receipt[c.op] = [batch |-> c.batch, result |-> c.result] /\ c.batch \in Batch
      BY <1>2 DEF BatchInv, CarriedOutOnce, BatchTypeOK
    <3>2. c.op # o
      <4>1. c.batch # NoBatch
        BY <3>1, BatchShape
      <4>2. receipt[c.op] # NoReceipt
        BY <3>1, <4>1 DEF NoReceipt
      <4> QED BY <1>3, <4>2 DEF IsReceipt
    <3> QED BY <1>11, <3>1, <3>2
  <2>3. receipt'[a.op] = [batch |-> a.batch, result |-> a.result]
    BY <1>9, <1>11
  <2> QED BY <1>1, <2>1, <2>2, <2>3 DEF CarriedOutOnce
<1>19. OperationsLocked'
  <2> SUFFICES ASSUME NEW s \in Sending, Serving(s)'
               PROVE  /\ ~IsReceipt(sent[s].op)' /\ \A p \in Sending \ {s} : Serving(p)' => sent'[p].op # sent'[s].op
    BY DEF OperationsLocked
  <2>1. s # q /\ Serving(s) /\ sent'[s] = sent[s] /\ sent[s].op \in Op
    BY <1>2, <1>15, SentIs DEF Serving
  <2> QED BY <1>3, <1>11, <1>15, <2>1 DEF BatchInv, OperationsLocked, Serving, IsReceipt
<1>20. RowsHeld'
  <2> SUFFICES ASSUME NEW s \in Sending, SentAt(s, "held")'
               PROVE  /\ AsApproved(sent[s].batch, file)'
                      /\ \A p \in Sending \ {s} : SentAt(p, "held")' => DOMAIN sent'[p].batch \cap DOMAIN sent'[s].batch = {}
    BY DEF RowsHeld
  <2>1. s # q /\ SentAt(s, "held") /\ sent'[s] = sent[s] /\ DOMAIN sent[s].batch \subseteq BatchFile
    BY <1>2, <1>15, SentIs, BatchShape DEF SentAt
  <2>2. \A n \in DOMAIN sent[s].batch : file'[n] = file[n]
    BY <1>1, <1>3, <1>10, <2>1
  <2> QED BY <1>15, <2>1, <2>2 DEF BatchInv, RowsHeld, SentAt, AsApproved
<1> QED BY <1>16, <1>17, <1>18, <1>19, <1>20 DEF BatchInv

LEMMA BatchKept == BatchInv /\ [BatchNext]_batchVars => BatchInv'
<1> SUFFICES ASSUME BatchInv, [BatchNext]_batchVars PROVE BatchInv'
  OBVIOUS
<1>1. CASE UNCHANGED batchVars
  BY <1>1 DEF batchVars, BatchInv, BatchTypeOK, VersionsBounded, CarriedOutOnce, OperationsLocked, RowsHeld, Serving,
       SentAt, IsReceipt, AsApproved, Receipts
<1> QED BY <1>1, ApproveKeeps, SendKeeps, TouchKeeps, ReplayKeeps, LockOperationKeeps, LockFilesKeeps, CommitKeeps,
       RollbackKeeps, StatusKeeps DEF BatchNext

\* The types of a batch rename, what its receipts and versions bound, and that a
\* request that has locked its operation or its rows finds them unchanged.
THEOREM BatchInvariant == BatchSpec => []BatchInv
BY BatchStarts, BatchKept, PTL DEF BatchSpec

\* An operation is carried out at most once, and its receipt and all answers say
\* what became of it (CarriedOutOnce).
THEOREM BatchCarriedOutOnce == BatchSpec => []CarriedOutOnce
<1>1. BatchInv => CarriedOutOnce
  BY DEF BatchInv
<1> QED BY <1>1, BatchInvariant, PTL

\* A batch changes only files that are as they were approved (OnlyAsApproved).
THEOREM BatchOnlyAsApproved == BatchSpec => OnlyAsApproved
<1>1. BatchInv /\ [BatchNext]_batchVars
        => [\A o \in Op : applied'[o] # applied[o] => AsApproved(receipt'[o].batch, file)]_batchVars
  <2> SUFFICES ASSUME BatchInv, BatchNext, NEW o \in Op, applied'[o] # applied[o]
               PROVE  AsApproved(receipt'[o].batch, file)
    OBVIOUS
  <2>1. PICK q \in Sending : Commit(q)
    BY DEF BatchNext, Approve, Send, Touch, Replay, LockOperation, LockFiles, Rollback, Status
  <2>2. /\ applied' = [applied EXCEPT ![sent[q].op] = @ + 1] /\ SentAt(q, "held")
        /\ \E res : receipt' = [receipt EXCEPT ![sent[q].op] = [batch |-> sent[q].batch, result |-> res]]
    BY <2>1 DEF Commit
  <2>3. sent[q].op = o
    BY <2>2 DEF BatchInv, BatchTypeOK
  <2>4. receipt'[o].batch = sent[q].batch
    BY <2>2, <2>3 DEF BatchInv, BatchTypeOK
  <2> QED BY <2>2, <2>4 DEF BatchInv, RowsHeld
<1> QED BY <1>1, BatchInvariant, PTL DEF BatchSpec, OnlyAsApproved

-----------------------------------------------------------------------------
(* Login sessions.                                                         *)

\* Tokens in use were made.
TokensMade == \A c \in AuthCall : ~AuthAt(c, "idle") => auth[c].token \in 1 .. issued

\* As long as nothing broke: a token that is about to be saved is known to its
\* login only, and one that is being logged out is not there any more.
TokensApart ==
  \/ broken = TRUE
  \/ /\ \A c \in AuthCall : AuthAt(c, "save") =>
          /\ auth[c].token \notin hash \cup loggedOut
          /\ \A d \in AuthCall \ {c} : ~AuthAt(d, "idle") => auth[d].token # auth[c].token
     /\ \A c \in AuthCall : auth[c].step \in {"count", "drop", "extend"} => auth[c].token \notin hash
     /\ loggedOut \cap hash = {}

\* A hash with tokens expires, or a login is about to see to it.
KeyExpires ==
  \/ broken = TRUE
  \/ hash = {}
  \/ expiring = TRUE
  \/ \E c \in AuthCall : AuthAt(c, "expire")

AuthInv == AuthTypeOK /\ TokensMade /\ TokensApart /\ KeyExpires

-----------------------------------------------------------------------------
LEMMA AuthStarts == AuthStart => AuthInv
<1> SUFFICES ASSUME AuthStart PROVE AuthInv
  OBVIOUS
<1>1. \A c \in AuthCall : auth[c].step = "idle" /\ auth[c] \in AuthState
  BY DEF AuthStart, AuthIdle, AuthState
<1>2. auth \in [AuthCall -> AuthState]
  BY <1>1 DEF AuthStart
<1>3. AuthTypeOK
  <2>1. issued \in 0 .. MaxTokens
    BY AuthTokens DEF AuthStart
  <2> QED BY <1>2, <2>1 DEF AuthStart, AuthTypeOK
<1>4. hash = {} /\ loggedOut = {}
  BY DEF AuthStart
<1> QED BY <1>1, <1>3, <1>4 DEF AuthInv, TokensMade, TokensApart, KeyExpires, AuthAt

\* What Holds makes of the time-to-live.
LEMMA HoldsIs ==
  ASSUME NEW S, Holds(S), AuthTypeOK
  PROVE  /\ hash' = S /\ expiring' \in BOOLEAN
         /\ (expiring = TRUE /\ hash # {}) => (expiring' = TRUE \/ S = {})
BY DEF Holds, AuthTypeOK

\* A call that goes on keeps its token; one that ends has none.
LEMMA AuthIs ==
  ASSUME AuthTypeOK, NEW c \in AuthCall
  PROVE  /\ AuthEnds(c) => /\ auth' \in [AuthCall -> AuthState] /\ auth'[c].step = "idle"
                           /\ \A d \in AuthCall \ {c} : auth'[d] = auth[d]
         /\ \A s \in {"expire", "drop", "extend"} : AuthGoes(c, s) /\ ~AuthAt(c, "idle") =>
              /\ auth' \in [AuthCall -> AuthState] /\ auth'[c].step = s /\ auth'[c].token = auth[c].token
              /\ \A d \in AuthCall \ {c} : auth'[d] = auth[d]
         /\ \A s \in {"save", "count"}, t \in Token : auth' = [auth EXCEPT ![c] = [step |-> s, token |-> t]] =>
              /\ auth' \in [AuthCall -> AuthState] /\ auth'[c].step = s /\ auth'[c].token = t
              /\ \A d \in AuthCall \ {c} : auth'[d] = auth[d]
<1>1. AuthIdle \in AuthState /\ AuthIdle.step = "idle"
  BY DEF AuthIdle, AuthState
<1>2. AuthEnds(c) => /\ auth' \in [AuthCall -> AuthState] /\ auth'[c].step = "idle"
                     /\ \A d \in AuthCall \ {c} : auth'[d] = auth[d]
  BY <1>1 DEF AuthEnds, AuthTypeOK
<1>3. ASSUME NEW s \in {"expire", "drop", "extend"}, AuthGoes(c, s), ~AuthAt(c, "idle")
      PROVE  /\ auth' \in [AuthCall -> AuthState] /\ auth'[c].step = s /\ auth'[c].token = auth[c].token
             /\ \A d \in AuthCall \ {c} : auth'[d] = auth[d]
  <2>1. auth[c] \in [step : {"save", "expire", "count", "drop", "extend"}, token : Token]
    BY <1>3 DEF AuthTypeOK, AuthState, AuthAt
  <2> QED BY <1>3, <2>1 DEF AuthGoes, AuthTypeOK, AuthState
<1>4. ASSUME NEW s \in {"save", "count"}, NEW t \in Token, auth' = [auth EXCEPT ![c] = [step |-> s, token |-> t]]
      PROVE  /\ auth' \in [AuthCall -> AuthState] /\ auth'[c].step = s /\ auth'[c].token = t
             /\ \A d \in AuthCall \ {c} : auth'[d] = auth[d]
  BY <1>4 DEF AuthTypeOK, AuthState
<1> QED BY <1>2, <1>3, <1>4

LEMMA AuthKept == AuthInv /\ [AuthNext]_authVars => AuthInv'
<1> SUFFICES ASSUME AuthInv, [AuthNext]_authVars PROVE AuthInv'
  OBVIOUS
<1>t. AuthTypeOK /\ issued \in Nat /\ issued <= MaxTokens /\ MaxTokens \in Nat
  BY AuthTokens DEF AuthInv, AuthTypeOK
<1>1. ASSUME NEW c \in AuthCall, LoginBegin(c) PROVE AuthInv'
  <2>1. /\ auth[c].step = "idle" /\ hash = {} /\ issued < MaxTokens /\ issued' = issued + 1
        /\ auth' = [auth EXCEPT ![c] = [step |-> "save", token |-> issued']] /\ UNCHANGED <<hash, expiring, loggedOut, broken>>
    BY <1>1 DEF LoginBegin, AuthAt
  <2>2. issued + 1 \in Token /\ issued + 1 \in 1 .. issued' /\ \A t \in 1 .. issued : t \in 1 .. issued' /\ t # issued + 1
    BY <1>t, <2>1 DEF Token
  <2>3. /\ auth' \in [AuthCall -> AuthState] /\ auth'[c].step = "save" /\ auth'[c].token = issued + 1
        /\ \A d \in AuthCall \ {c} : auth'[d] = auth[d]
    BY <1>t, <2>1, <2>2, AuthIs
  <2>4. AuthTypeOK'
    <3>1. hash' \subseteq 1 .. issued' /\ loggedOut' \subseteq 1 .. issued'
      BY <1>t, <2>1, <2>2 DEF AuthTypeOK
    <3>2. issued' \in 0 .. MaxTokens
      BY <1>t, <2>1
    <3> QED BY <1>t, <2>1, <2>3, <3>1, <3>2 DEF AuthTypeOK
  <2>5. TokensMade'
    BY <2>2, <2>3 DEF AuthInv, TokensMade, AuthAt
  <2>6. \A d \in AuthCall \ {c} : auth'[d].step # "idle" => auth'[d].token # issued + 1
    BY <2>2, <2>3 DEF AuthInv, TokensMade, AuthAt
  <2>7. issued + 1 \notin loggedOut
    BY <1>t, <2>2 DEF AuthTypeOK
  <2>8. TokensApart'
    BY <2>1, <2>3, <2>6, <2>7 DEF AuthInv, TokensApart, AuthAt
  <2> QED BY <2>1, <2>4, <2>5, <2>8 DEF AuthInv, KeyExpires
<1>2. ASSUME NEW c \in AuthCall, LoginSave(c) PROVE AuthInv'
  <2>1. /\ auth[c].step = "save" /\ Holds(hash \cup {auth[c].token}) /\ UNCHANGED <<issued, loggedOut>>
        /\ \/ AuthGoes(c, "expire") /\ UNCHANGED broken
           \/ auth' \in {auth, [auth EXCEPT ![c] = AuthIdle]} /\ broken' = TRUE
    BY <1>2 DEF LoginSave, AuthAt
  <2>2. /\ hash' = hash \cup {auth[c].token} /\ expiring' \in BOOLEAN /\ auth[c].token \in 1 .. issued
    BY <1>t, <2>1, HoldsIs DEF AuthInv, TokensMade, AuthAt
  <2>3. CASE AuthGoes(c, "expire") /\ UNCHANGED broken
    <3>1. /\ auth' \in [AuthCall -> AuthState] /\ auth'[c].step = "expire" /\ auth'[c].token = auth[c].token
          /\ \A d \in AuthCall \ {c} : auth'[d] = auth[d]
      BY <1>t, <2>1, <2>3, AuthIs DEF AuthAt
    <3>2. AuthTypeOK'
      BY <1>t, <2>1, <2>2, <2>3, <3>1 DEF AuthTypeOK
    <3>3. TokensMade'
      BY <2>1, <2>2, <3>1 DEF AuthInv, TokensMade, AuthAt
    <3>4. TokensApart'
      BY <2>1, <2>2, <2>3, <3>1 DEF AuthInv, TokensApart, AuthAt
    <3>5. KeyExpires'
      BY <3>1 DEF KeyExpires, AuthAt
    <3> QED BY <3>2, <3>3, <3>4, <3>5 DEF AuthInv
  <2>4. CASE auth' \in {auth, [auth EXCEPT ![c] = AuthIdle]} /\ broken' = TRUE
    <3>1. /\ auth' \in [AuthCall -> AuthState]
          /\ \A d \in AuthCall : auth'[d] = auth[d] \/ auth'[d].step = "idle"
      BY <1>t, <2>4, AuthIs DEF AuthEnds, AuthTypeOK
    <3>2. AuthTypeOK'
      BY <1>t, <2>1, <2>2, <2>4, <3>1 DEF AuthTypeOK
    <3>3. TokensMade'
      BY <2>1, <3>1 DEF AuthInv, TokensMade, AuthAt
    <3> QED BY <2>4, <3>2, <3>3 DEF AuthInv, TokensApart, KeyExpires
  <2> QED BY <2>1, <2>3, <2>4
<1>3. ASSUME NEW c \in AuthCall, LoginExpire(c) PROVE AuthInv'
  <2>1. /\ auth[c].step = "expire" /\ AuthEnds(c) /\ UNCHANGED <<hash, issued, loggedOut>>
        /\ \/ expiring' = (hash # {}) /\ UNCHANGED broken
           \/ expiring' = expiring /\ broken' = TRUE
    BY <1>3 DEF LoginExpire, AuthAt
  <2>2. /\ auth' \in [AuthCall -> AuthState] /\ auth'[c].step = "idle"
        /\ \A d \in AuthCall \ {c} : auth'[d] = auth[d]
    BY <1>t, <2>1, AuthIs
  <2>3. /\ expiring' \in BOOLEAN /\ broken' \in {broken, TRUE} /\ (broken' = TRUE \/ hash = {} \/ expiring' = TRUE)
    BY <1>t, <2>1 DEF AuthTypeOK
  <2>4. AuthTypeOK'
    BY <1>t, <2>1, <2>2, <2>3 DEF AuthTypeOK
  <2>5. TokensMade' /\ TokensApart'
    BY <2>1, <2>2, <2>3 DEF AuthInv, TokensMade, TokensApart, AuthAt
  <2>6. KeyExpires'
    BY <2>1, <2>3 DEF KeyExpires
  <2> QED BY <2>4, <2>5, <2>6 DEF AuthInv
<1>4. ASSUME NEW c \in AuthCall, NEW t \in Token, LogoutRemove(c, t) PROVE AuthInv'
  <2>1. /\ auth[c].step = "idle" /\ t \in hash /\ Holds(hash \ {t}) /\ UNCHANGED <<issued, loggedOut, broken>>
        /\ auth' = [auth EXCEPT ![c] = [step |-> "count", token |-> t]]
    BY <1>4 DEF LogoutRemove, AuthAt
  <2>2. /\ auth' \in [AuthCall -> AuthState] /\ auth'[c].step = "count" /\ auth'[c].token = t
        /\ \A d \in AuthCall \ {c} : auth'[d] = auth[d]
    BY <1>t, <2>1, AuthIs
  <2>3. /\ hash' = hash \ {t} /\ expiring' \in BOOLEAN
        /\ expiring = TRUE => (expiring' = TRUE \/ hash' = {})
    BY <1>t, <2>1, HoldsIs
  <2>4. AuthTypeOK'
    BY <1>t, <2>1, <2>2, <2>3 DEF AuthTypeOK
  <2>5. TokensMade'
    BY <1>t, <2>1, <2>2 DEF AuthInv, TokensMade, AuthAt, AuthTypeOK
  <2>6. TokensApart'
    BY <2>1, <2>2, <2>3 DEF AuthInv, TokensApart, AuthAt
  <2>7. KeyExpires'
    BY <2>1, <2>2, <2>3 DEF AuthInv, KeyExpires, AuthAt
  <2> QED BY <2>4, <2>5, <2>6, <2>7 DEF AuthInv
<1>5. ASSUME NEW c \in AuthCall, LogoutCount(c) PROVE AuthInv'
  <2>1. /\ auth[c].step = "count" /\ UNCHANGED <<hash, expiring, issued, loggedOut, broken>>
        /\ \E s \in {"drop", "extend"} : AuthGoes(c, s)
    BY <1>5 DEF LogoutCount, AuthAt
  <2>2. PICK s \in {"drop", "extend"} :
        /\ auth' \in [AuthCall -> AuthState] /\ auth'[c].step = s /\ auth'[c].token = auth[c].token
        /\ \A d \in AuthCall \ {c} : auth'[d] = auth[d]
    BY <1>t, <2>1, AuthIs DEF AuthAt
  <2>3. AuthTypeOK'
    BY <1>t, <2>1, <2>2 DEF AuthTypeOK
  <2>4. TokensMade' /\ TokensApart' /\ KeyExpires'
    BY <2>1, <2>2 DEF AuthInv, TokensMade, TokensApart, KeyExpires, AuthAt
  <2> QED BY <2>3, <2>4 DEF AuthInv
<1>6. ASSUME NEW c \in AuthCall, LogoutDrop(c) \/ LogoutExtend(c) \/ LogoutFail(c) PROVE AuthInv'
  <2>1. auth[c].step \in {"count", "drop", "extend"} /\ AuthEnds(c) /\ UNCHANGED <<issued, broken>>
    BY <1>6 DEF LogoutDrop, LogoutExtend, LogoutFail, AuthAt
  <2>2. /\ auth' \in [AuthCall -> AuthState] /\ auth'[c].step = "idle"
        /\ \A d \in AuthCall \ {c} : auth'[d] = auth[d]
    BY <1>t, <2>1, AuthIs
  <2>3. loggedOut' \in {loggedOut, loggedOut \cup {auth[c].token}} /\ hash' \in {hash, {}}
    BY <1>6 DEF LogoutDrop, LogoutExtend, LogoutFail, Holds
  <2>4. expiring' \in BOOLEAN /\ (expiring' = expiring \/ expiring' = TRUE \/ hash' = {})
    BY <1>t, <1>6, HoldsIs DEF LogoutDrop, LogoutExtend, LogoutFail, AuthTypeOK
  <2>5. auth[c].token \in 1 .. issued
    BY <2>1 DEF AuthInv, TokensMade, AuthAt
  <2>6. AuthTypeOK'
    BY <1>t, <2>1, <2>2, <2>3, <2>4, <2>5 DEF AuthTypeOK
  <2>7. TokensMade'
    BY <2>1, <2>2 DEF AuthInv, TokensMade, AuthAt
  <2>8. TokensApart'
    BY <2>1, <2>2, <2>3 DEF AuthInv, TokensApart, AuthAt
  <2>9. KeyExpires'
    BY <2>1, <2>2, <2>3, <2>4 DEF AuthInv, KeyExpires, AuthAt
  <2> QED BY <2>6, <2>7, <2>8, <2>9 DEF AuthInv
<1>7. CASE SessionsExpire
  <2>1. hash' = {} /\ expiring' \in BOOLEAN /\ UNCHANGED <<auth, issued, loggedOut, broken>>
    BY <1>t, <1>7, HoldsIs DEF SessionsExpire
  <2>2. AuthTypeOK'
    BY <1>t, <2>1 DEF AuthTypeOK
  <2> QED BY <2>1, <2>2 DEF AuthInv, TokensMade, TokensApart, KeyExpires, AuthAt
<1>8. CASE UNCHANGED authVars
  BY <1>8 DEF authVars, AuthInv, AuthTypeOK, TokensMade, TokensApart, KeyExpires, AuthAt
<1> QED BY <1>1, <1>2, <1>3, <1>4, <1>5, <1>6, <1>7, <1>8 DEF AuthNext

\* The types of logins, and that, as long as no write failed, a token about to be
\* saved belongs to its login alone and a hash with tokens expires or is about to.
THEOREM AuthInvariant == AuthSpec => []AuthInv
BY AuthStarts, AuthKept, PTL DEF AuthSpec

\* As long as no command of a login fails or is repeated, a token that was logged
\* out never authenticates again and every token expires (SessionsEnd).
THEOREM LoginsEnd == AuthSpec => []SessionsEnd
<1>1. AuthInv => SessionsEnd
  <2> SUFFICES ASSUME AuthInv, ~broken PROVE loggedOut \cap hash = {} /\ ((hash # {} /\ \A c \in AuthCall : AuthAt(c, "idle")) => expiring)
    BY DEF SessionsEnd
  <2>1. loggedOut \cap hash = {}
    BY DEF AuthInv, TokensApart
  <2>2. ASSUME hash # {}, \A c \in AuthCall : AuthAt(c, "idle") PROVE expiring
    <3>1. \A c \in AuthCall : ~AuthAt(c, "expire")
      BY <2>2 DEF AuthAt
    <3> QED BY <2>2, <3>1 DEF AuthInv, KeyExpires
  <2> QED BY <2>1, <2>2
<1> QED BY <1>1, AuthInvariant, PTL

-----------------------------------------------------------------------------
(* User preferences.                                                       *)

\* A version that was seen or awaited is the one in force or an older one.
Follows(v) == v.rev <= row.rev /\ (v.rev = row.rev => v = row)

\* A request goes on from what its device has seen; one that wrote the row holds
\* it, until it commits what replaces just that.
WritesFollow ==
  /\ \A d \in Device : Follows(base[d])
  /\ \A d \in Device : ~PutAt(d, "idle") => put[d].rev = base[d].rev
  /\ \A d \in Device : PutAt(d, "stored") => Follows([rev |-> put[d].rev + 1, val |-> put[d].val])
  /\ \A d \in Device : PutAt(d, "written") =>
       fresh = [by |-> d, to |-> [rev |-> put[d].rev + 1, val |-> put[d].val]] /\ row.rev = put[d].rev
  /\ fresh # NoWrite => PutAt(fresh.by, "written")

PrefInv == PrefTypeOK /\ WritesFollow

-----------------------------------------------------------------------------
LEMMA PrefTypes ==
  /\ Version0 \in PrefVersion
  /\ \A v \in PrefVersion : v.rev \in Nat
  /\ \A n \in Nat, v \in Value : [rev |-> n + 1, val |-> v] \in PrefVersion
BY DEF PrefVersion, Version0

\* A call that goes on keeps what it has sent; one that ends has nothing.
LEMMA PutIs ==
  ASSUME PrefTypeOK, NEW d \in Device
  PROVE  /\ ~PutAt(d, "idle") => put[d].rev \in Nat /\ put[d].val \in Value
         /\ PutEnds(d) => /\ put' \in [Device -> PutState] /\ put'[d].step = "idle"
                          /\ \A e \in Device \ {d} : put'[e] = put[e]
         /\ \A s \in {"written", "stored"} : PutGoes(d, s) /\ ~PutAt(d, "idle") =>
              /\ put' \in [Device -> PutState]
              /\ put'[d].step = s /\ put'[d].rev = put[d].rev /\ put'[d].val = put[d].val
              /\ \A e \in Device \ {d} : put'[e] = put[e]
<1>1. PutIdle \in PutState /\ PutIdle.step = "idle"
  BY DEF PutIdle, PutState
<1>2. PutEnds(d) => /\ put' \in [Device -> PutState] /\ put'[d].step = "idle"
                    /\ \A e \in Device \ {d} : put'[e] = put[e]
  BY <1>1 DEF PutEnds, PrefTypeOK
<1>3. ASSUME ~PutAt(d, "idle")
      PROVE  put[d] \in [step : {"sent", "written", "stored"}, rev : Nat, val : Value, dry : BOOLEAN]
  BY <1>3 DEF PrefTypeOK, PutState, PutAt
<1>4. ASSUME NEW s \in {"written", "stored"}, PutGoes(d, s), ~PutAt(d, "idle")
      PROVE  /\ put' \in [Device -> PutState]
             /\ put'[d].step = s /\ put'[d].rev = put[d].rev /\ put'[d].val = put[d].val
             /\ \A e \in Device \ {d} : put'[e] = put[e]
  BY <1>3, <1>4 DEF PutGoes, PrefTypeOK, PutState
<1> QED BY <1>2, <1>3, <1>4

LEMMA PrefStarts == PrefStart => PrefInv
<1> SUFFICES ASSUME PrefStart PROVE PrefInv
  OBVIOUS
<1>1. \A d \in Device : put[d] \in PutState /\ put[d].step = "idle" /\ base[d] = Version0
  BY DEF PrefStart, PutIdle, PutState
<1>2. row \in PrefVersion /\ (row = Version0 \/ row.rev = 1)
  BY PrefTypes DEF PrefStart, PrefVersion
<1>3. PrefTypeOK
  <2>1. put \in [Device -> PutState] /\ base \in [Device -> PrefVersion]
    BY <1>1, PrefTypes DEF PrefStart
  <2> QED BY <1>2, <2>1 DEF PrefStart, PrefTypeOK
<1>4. Follows(Version0)
  BY <1>2 DEF Follows, Version0
<1> QED BY <1>1, <1>3, <1>4 DEF PrefInv, WritesFollow, PutAt, PrefStart

LEMMA PrefGetKeeps ==
  ASSUME PrefInv, NEW d \in Device, PrefGet(d)
  PROVE  PrefInv'
<1>1. PutAt(d, "idle") /\ base' = [base EXCEPT ![d] = row] /\ UNCHANGED <<row, put, fresh>>
  BY DEF PrefGet
<1>2. base' \in [Device -> PrefVersion] /\ base'[d] = row /\ \A e \in Device \ {d} : base'[e] = base[e]
  BY <1>1 DEF PrefInv, PrefTypeOK
<1>3. PrefTypeOK'
  BY <1>1, <1>2 DEF PrefInv, PrefTypeOK
<1>4. \A e \in Device : Follows(base[e])'
  BY <1>1, <1>2, PrefTypes DEF PrefInv, PrefTypeOK, WritesFollow, Follows
<1>5. WritesFollow'
  BY <1>1, <1>2, <1>4 DEF PrefInv, WritesFollow, PutAt, Follows
<1> QED BY <1>3, <1>5 DEF PrefInv

LEMMA PrefSendKeeps ==
  ASSUME PrefInv, NEW d \in Device, NEW v \in Value, NEW dry \in BOOLEAN, PrefSend(d, v, dry)
  PROVE  PrefInv'
<1> DEFINE rec == [step |-> "sent", rev |-> base[d].rev, val |-> v, dry |-> dry]
<1>1. PutAt(d, "idle") /\ put' = [put EXCEPT ![d] = rec] /\ UNCHANGED <<row, base, fresh>>
  BY DEF PrefSend
<1>2. rec \in PutState /\ rec.step = "sent" /\ rec.rev = base[d].rev
  BY PrefTypes DEF PutState, PrefInv, PrefTypeOK
<1> HIDE DEF rec
<1>3. put' \in [Device -> PutState] /\ put'[d] = rec /\ \A e \in Device \ {d} : put'[e] = put[e]
  BY <1>1, <1>2 DEF PrefInv, PrefTypeOK
<1>4. PrefTypeOK'
  BY <1>1, <1>3 DEF PrefInv, PrefTypeOK
<1>5. fresh # NoWrite => fresh.by \in Device /\ fresh.by # d
  BY <1>1 DEF PrefInv, PrefTypeOK, WritesFollow, PutAt
<1>6. WritesFollow'
  BY <1>1, <1>2, <1>3, <1>5 DEF PrefInv, WritesFollow, PutAt, Follows
<1> QED BY <1>4, <1>6 DEF PrefInv

LEMMA PrefWriteKeeps ==
  ASSUME PrefInv, NEW d \in Device, PrefCreate(d) \/ PrefUpdate(d)
  PROVE  PrefInv'
<1> DEFINE w == [by |-> d, to |-> [rev |-> put[d].rev + 1, val |-> put[d].val]]
<1>1. /\ PutAt(d, "sent") /\ RowFree /\ UNCHANGED <<row, base>>
      /\ \/ fresh' = w /\ PutGoes(d, "written") /\ row.rev = put[d].rev
         \/ fresh' = fresh /\ PutEnds(d)
  BY DEF PrefCreate, PrefUpdate
<1>2. put[d].rev \in Nat /\ put[d].val \in Value /\ PutAt(d, "idle") = FALSE
  BY <1>1, PutIs DEF PrefInv, PutAt
<1>3. w \in [by : Device, to : PrefVersion] /\ w.by = d
  BY <1>2, PrefTypes
<1>4. fresh = NoWrite /\ \A e \in Device : ~PutAt(e, "written")
  <2>1. \A e \in Device : NoWrite # [by |-> e, to |-> [rev |-> put[e].rev + 1, val |-> put[e].val]]
    BY DEF NoWrite
  <2> QED BY <1>1, <2>1 DEF PrefInv, WritesFollow, RowFree
<1>5. CASE fresh' = w /\ PutGoes(d, "written") /\ row.rev = put[d].rev
  <2>1. /\ put' \in [Device -> PutState]
        /\ put'[d].step = "written" /\ put'[d].rev = put[d].rev /\ put'[d].val = put[d].val
        /\ \A e \in Device \ {d} : put'[e] = put[e]
    BY <1>2, <1>5, PutIs DEF PrefInv
  <2>2. PrefTypeOK'
    BY <1>1, <1>3, <1>5, <2>1 DEF PrefInv, PrefTypeOK
  <2>3. fresh' = [by |-> d, to |-> [rev |-> put'[d].rev + 1, val |-> put'[d].val]] /\ fresh'.by = d
    BY <1>3, <1>5, <2>1
  <2>4. WritesFollow'
    BY <1>1, <1>2, <1>4, <1>5, <2>1, <2>3 DEF PrefInv, WritesFollow, PutAt, Follows
  <2> QED BY <2>2, <2>4 DEF PrefInv
<1>6. CASE fresh' = fresh /\ PutEnds(d)
  <2>1. /\ put' \in [Device -> PutState] /\ put'[d].step = "idle"
        /\ \A e \in Device \ {d} : put'[e] = put[e]
    BY <1>6, PutIs DEF PrefInv
  <2>2. PrefTypeOK'
    BY <1>1, <1>6, <2>1 DEF PrefInv, PrefTypeOK
  <2>3. WritesFollow'
    BY <1>1, <1>4, <1>6, <2>1 DEF PrefInv, WritesFollow, PutAt, Follows
  <2> QED BY <2>2, <2>3 DEF PrefInv
<1> QED BY <1>1, <1>5, <1>6

LEMMA PrefCommitKeeps ==
  ASSUME PrefInv, NEW d \in Device, PrefCommit(d)
  PROVE  PrefInv'
<1> DEFINE v == [rev |-> put[d].rev + 1, val |-> put[d].val]
<1>1. PutAt(d, "written") /\ row' = fresh.to /\ fresh' = NoWrite /\ PutGoes(d, "stored") /\ UNCHANGED base
  BY DEF PrefCommit
<1>2. put[d].rev \in Nat /\ put[d].val \in Value /\ PutAt(d, "idle") = FALSE
  BY <1>1, PutIs DEF PrefInv, PutAt
<1>3. fresh = [by |-> d, to |-> v] /\ row.rev = put[d].rev /\ row \in PrefVersion /\ row.rev \in Nat
  BY <1>1, PrefTypes DEF PrefInv, WritesFollow, PrefTypeOK
<1>4. row' = v /\ v \in PrefVersion /\ v.rev = row.rev + 1
  BY <1>1, <1>2, <1>3, PrefTypes
<1>5. /\ put' \in [Device -> PutState]
      /\ put'[d].step = "stored" /\ put'[d].rev = put[d].rev /\ put'[d].val = put[d].val
      /\ \A e \in Device \ {d} : put'[e] = put[e]
  BY <1>1, <1>2, PutIs DEF PrefInv
<1>6. \A e \in Device \ {d} : put'[e].step # "written"
  <2> SUFFICES ASSUME NEW e \in Device \ {d}, PutAt(e, "written") PROVE FALSE
    BY <1>5 DEF PutAt
  <2>1. fresh = [by |-> e, to |-> [rev |-> put[e].rev + 1, val |-> put[e].val]]
    BY DEF PrefInv, WritesFollow
  <2>2. fresh.by = e /\ fresh.by = d
    BY <1>3, <2>1
  <2> QED BY <2>2
<1>7. PrefTypeOK'
  BY <1>1, <1>4, <1>5 DEF PrefInv, PrefTypeOK
<1>8. ASSUME NEW u, u.rev \in Int, Follows(u) PROVE u.rev <= row'.rev /\ (u.rev = row'.rev => u = row')
  BY <1>3, <1>4, <1>8 DEF Follows
<1>9. \A e \in Device : Follows(base[e])'
  <2>1. \A e \in Device : base[e].rev \in Int /\ Follows(base[e])
    BY PrefTypes DEF PrefInv, PrefTypeOK, WritesFollow
  <2> QED BY <1>1, <1>8, <2>1 DEF Follows
<1>10. ASSUME NEW e \in Device, PutAt(e, "stored")'
       PROVE  Follows([rev |-> put[e].rev + 1, val |-> put[e].val])'
  <2>1. CASE e = d
    <3>1. [rev |-> put'[e].rev + 1, val |-> put'[e].val] = row'
      BY <1>4, <1>5, <2>1
    <3> QED BY <1>3, <1>4, <3>1 DEF Follows
  <2>2. CASE e # d
    <3> DEFINE u == [rev |-> put[e].rev + 1, val |-> put[e].val]
    <3>1. put'[e] = put[e] /\ PutAt(e, "stored") /\ PutAt(e, "idle") = FALSE
      BY <1>5, <1>10, <2>2 DEF PutAt
    <3>2. put[e].rev \in Nat
      BY <3>1, PutIs DEF PrefInv
    <3>3. u.rev \in Int /\ Follows(u)
      BY <3>1, <3>2 DEF PrefInv, WritesFollow
    <3> HIDE DEF u
    <3>4. u.rev <= row'.rev /\ (u.rev = row'.rev => u = row')
      BY <1>8, <3>3
    <3> QED BY <3>1, <3>4 DEF Follows, u
  <2> QED BY <2>1, <2>2
<1>11. WritesFollow'
  BY <1>1, <1>5, <1>6, <1>9, <1>10 DEF PrefInv, WritesFollow, PutAt
<1> QED BY <1>7, <1>11 DEF PrefInv

LEMMA PrefAnswerKeeps ==
  ASSUME PrefInv, NEW d \in Device, PrefAnswer(d)
  PROVE  PrefInv'
<1> DEFINE v == [rev |-> put[d].rev + 1, val |-> put[d].val]
<1>1. PutAt(d, "stored") /\ base' \in {base, [base EXCEPT ![d] = v]} /\ PutEnds(d) /\ UNCHANGED <<row, fresh>>
  BY DEF PrefAnswer
<1>2. v \in PrefVersion /\ Follows(v)
  BY <1>1, PutIs, PrefTypes DEF PrefInv, PutAt, WritesFollow
<1> HIDE DEF v
<1>3. base' \in [Device -> PrefVersion] /\ \A e \in Device : base'[e] = base[e] \/ (e = d /\ base'[e] = v)
  BY <1>1, <1>2 DEF PrefInv, PrefTypeOK
<1>4. /\ put' \in [Device -> PutState] /\ put'[d].step = "idle"
      /\ \A e \in Device \ {d} : put'[e] = put[e]
  BY <1>1, PutIs DEF PrefInv
<1>5. PrefTypeOK'
  BY <1>1, <1>3, <1>4 DEF PrefInv, PrefTypeOK
<1>6. \A e \in Device : Follows(base[e])'
  BY <1>1, <1>2, <1>3 DEF PrefInv, WritesFollow, Follows
<1>7. fresh # NoWrite => fresh.by \in Device /\ fresh.by # d
  BY <1>1 DEF PrefInv, PrefTypeOK, WritesFollow, PutAt
<1>8. WritesFollow'
  BY <1>1, <1>3, <1>4, <1>6, <1>7 DEF PrefInv, WritesFollow, PutAt, Follows
<1> QED BY <1>5, <1>8 DEF PrefInv

LEMMA PrefRollbackKeeps ==
  ASSUME PrefInv, NEW d \in Device, PrefRollback(d)
  PROVE  PrefInv'
<1>1. /\ put[d].step \in {"sent", "written"} /\ PutEnds(d) /\ UNCHANGED <<row, base>>
      /\ fresh' = IF PutAt(d, "written") THEN NoWrite ELSE fresh
  BY DEF PrefRollback
<1>2. /\ put' \in [Device -> PutState] /\ put'[d].step = "idle"
      /\ \A e \in Device \ {d} : put'[e] = put[e]
  BY <1>1, PutIs DEF PrefInv
<1>3. PrefTypeOK'
  BY <1>1, <1>2 DEF PrefInv, PrefTypeOK
<1>4. PutAt(d, "written") => \A e \in Device \ {d} : ~PutAt(e, "written")
  <2> SUFFICES ASSUME PutAt(d, "written"), NEW e \in Device \ {d}, PutAt(e, "written") PROVE FALSE
    OBVIOUS
  <2>1. /\ fresh = [by |-> e, to |-> [rev |-> put[e].rev + 1, val |-> put[e].val]]
        /\ fresh = [by |-> d, to |-> [rev |-> put[d].rev + 1, val |-> put[d].val]]
    BY DEF PrefInv, WritesFollow
  <2>2. fresh.by = e /\ fresh.by = d
    BY <2>1
  <2> QED BY <2>2
<1>5. (fresh # NoWrite /\ ~PutAt(d, "written")) => fresh.by \in Device /\ fresh.by # d
  BY DEF PrefInv, PrefTypeOK, WritesFollow
<1>6. WritesFollow'
  BY <1>1, <1>2, <1>4, <1>5 DEF PrefInv, WritesFollow, PutAt, Follows
<1> QED BY <1>3, <1>6 DEF PrefInv

LEMMA PrefKept == PrefInv /\ [PrefNext]_prefVars => PrefInv'
<1> SUFFICES ASSUME PrefInv, [PrefNext]_prefVars PROVE PrefInv'
  OBVIOUS
<1>1. CASE UNCHANGED prefVars
  BY <1>1 DEF prefVars, PrefInv, PrefTypeOK, WritesFollow, Follows, PutAt
<1> QED BY <1>1, PrefGetKeeps, PrefSendKeeps, PrefWriteKeeps, PrefCommitKeeps, PrefAnswerKeeps, PrefRollbackKeeps
       DEF PrefNext

\* The types of preferences, and that a write under way follows what was read.
THEOREM PrefInvariant == PrefSpec => []PrefInv
BY PrefStarts, PrefKept, PTL DEF PrefSpec

-----------------------------------------------------------------------------
(* The preferences are a register. *)

LEMMA RegisterStarts == PrefStart => Register!RegisterStart
<1> SUFFICES ASSUME PrefStart PROVE Register!RegisterStart
  OBVIOUS
<1>1. row \in {Register!Nothing} \cup [rev : Nat \ {0}, val : Value]
  BY DEF PrefStart, Version0, Register!Nothing
<1>2. base = [d \in Device |-> Register!Nothing]
  BY DEF PrefStart, Version0, Register!Nothing
<1>3. [d \in Device |-> Awaited(d)] = [d \in Device |-> Register!NoReply]
  BY DEF PrefStart, Awaited, PutAt, PutIdle, Register!NoReply
<1> QED BY <1>1, <1>2, <1>3 DEF Register!RegisterStart

\* What a device awaits changes when its request is stored or answered.
LEMMA AwaitedIs ==
  ASSUME NEW d \in Device, \A e \in Device \ {d} : put'[e] = put[e]
  PROVE  \A e \in Device \ {d} : Awaited(e)' = Awaited(e)
BY DEF Awaited, PutAt

LEMMA PrefStepsAreRegisters ==
  PrefInv /\ [PrefNext]_prefVars => [Register!RegisterNext]_(Register!registerVars)
<1> DEFINE reply == [d \in Device |-> Awaited(d)]
<1> SUFFICES ASSUME PrefInv, [PrefNext]_prefVars
             PROVE  [Register!RegisterNext]_(Register!registerVars)
  OBVIOUS
<1>1. ASSUME \A d \in Device : Awaited(d)' = Awaited(d) PROVE reply' = reply
  BY <1>1
<1>2. ASSUME NEW d \in Device, PrefGet(d) PROVE Register!Read(d)
  <2>1. PutAt(d, "idle") /\ base' = [base EXCEPT ![d] = row] /\ UNCHANGED <<row, put, fresh>>
    BY <1>2 DEF PrefGet
  <2>2. reply[d] = Register!NoReply
    BY <2>1 DEF Awaited, PutAt, Register!NoReply
  <2>3. reply' = reply
    BY <1>1, <2>1 DEF Awaited, PutAt
  <2> QED BY <2>1, <2>2, <2>3 DEF Register!Read
<1>3. ASSUME NEW d \in Device, NEW v \in Value, NEW dry \in BOOLEAN, PrefSend(d, v, dry)
      PROVE  UNCHANGED Register!registerVars
  <2> DEFINE rec == [step |-> "sent", rev |-> base[d].rev, val |-> v, dry |-> dry]
  <2>1. PutAt(d, "idle") /\ put' = [put EXCEPT ![d] = rec] /\ UNCHANGED <<row, base>> /\ rec.step = "sent"
    BY <1>3 DEF PrefSend
  <2> HIDE DEF rec
  <2>2. put'[d] = rec /\ \A e \in Device \ {d} : put'[e] = put[e]
    BY <2>1 DEF PrefInv, PrefTypeOK
  <2>3. Awaited(d)' = Awaited(d)
    BY <2>1, <2>2 DEF Awaited, PutAt
  <2>4. reply' = reply
    BY <1>1, <2>2, <2>3, AwaitedIs
  <2> QED BY <2>1, <2>4 DEF Register!registerVars
<1>4. ASSUME NEW d \in Device, PrefCreate(d) \/ PrefUpdate(d) \/ PrefRollback(d)
      PROVE  UNCHANGED Register!registerVars
  <2>1. UNCHANGED <<row, base>> /\ put[d].step \in {"sent", "written"} /\ (PutEnds(d) \/ PutGoes(d, "written"))
    BY <1>4 DEF PrefCreate, PrefUpdate, PrefRollback, PutAt
  <2>2. put'[d].step \in {"idle", "written"} /\ \A e \in Device \ {d} : put'[e] = put[e]
    BY <2>1, PutIs DEF PrefInv, PutAt
  <2>3. Awaited(d)' = Awaited(d)
    BY <2>1, <2>2 DEF Awaited, PutAt
  <2>4. reply' = reply
    BY <1>1, <2>2, <2>3, AwaitedIs
  <2> QED BY <2>1, <2>4 DEF Register!registerVars
<1>5. ASSUME NEW d \in Device, PrefCommit(d) PROVE Register!Change(d)
  <2> DEFINE w == [rev |-> row.rev + 1, val |-> put[d].val]
  <2>1. PutAt(d, "written") /\ row' = fresh.to /\ PutGoes(d, "stored") /\ UNCHANGED base
    BY <1>5 DEF PrefCommit
  <2>2. /\ fresh = [by |-> d, to |-> [rev |-> put[d].rev + 1, val |-> put[d].val]]
        /\ row.rev = put[d].rev /\ put[d].rev = base[d].rev /\ base[d] = row
    BY <2>1 DEF PrefInv, WritesFollow, PutAt, Follows
  <2>3. put[d].val \in Value
    BY <2>1, PutIs DEF PrefInv, PutAt
  <2>4. row' = w
    BY <2>1, <2>2
  <2>5. /\ put'[d].step = "stored" /\ put'[d].rev = put[d].rev /\ put'[d].val = put[d].val
        /\ \A e \in Device \ {d} : put'[e] = put[e]
    BY <2>1, PutIs DEF PrefInv, PutAt
  <2>6. Awaited(d)' = row' /\ Awaited(d) = Register!NoReply
    BY <2>1, <2>2, <2>4, <2>5 DEF Awaited, PutAt, Register!NoReply
  <2>7. reply' = [reply EXCEPT ![d] = row']
    <3>1. \A e \in Device : Awaited(e)' = IF e = d THEN row' ELSE Awaited(e)
      BY <2>5, <2>6, AwaitedIs
    <3> QED BY <3>1
  <2> QED BY <2>1, <2>2, <2>3, <2>4, <2>6, <2>7 DEF Register!Change
<1>6. ASSUME NEW d \in Device, PrefAnswer(d) PROVE Register!Learn(d)
  <2>1. /\ PutAt(d, "stored") /\ PutEnds(d) /\ UNCHANGED row
        /\ base' \in {base, [base EXCEPT ![d] = [rev |-> put[d].rev + 1, val |-> put[d].val]]}
    BY <1>6 DEF PrefAnswer
  <2>2. put[d].rev \in Nat /\ put'[d].step = "idle" /\ \A e \in Device \ {d} : put'[e] = put[e]
    BY <2>1, PutIs DEF PrefInv, PutAt
  <2>3. Awaited(d) = [rev |-> put[d].rev + 1, val |-> put[d].val] /\ Awaited(d)' = Register!NoReply
    BY <2>1, <2>2 DEF Awaited, PutAt, Register!NoReply
  <2>4. Awaited(d).rev = put[d].rev + 1 /\ Register!NoReply.rev = -1
    BY <2>3 DEF Register!NoReply
  <2>5. Awaited(d) # Register!NoReply
    BY <2>2, <2>4
  <2>6. reply' = [reply EXCEPT ![d] = Register!NoReply]
    <3>1. \A e \in Device : Awaited(e)' = IF e = d THEN Register!NoReply ELSE Awaited(e)
      BY <2>2, <2>3, AwaitedIs
    <3> QED BY <3>1
  <2> QED BY <2>1, <2>3, <2>5, <2>6 DEF Register!Learn
<1>7. CASE UNCHANGED prefVars
  <2>1. UNCHANGED <<row, base, put>>
    BY <1>7 DEF prefVars
  <2>2. reply' = reply
    BY <1>1, <2>1 DEF Awaited, PutAt
  <2> QED BY <2>1, <2>2 DEF Register!registerVars
<1> QED BY <1>2, <1>3, <1>4, <1>5, <1>6, <1>7 DEF PrefNext, Register!RegisterNext

\* The preferences of a user are a register that a device changes only if it has
\* seen what it replaces (PreferencesAreRegister).
THEOREM PreferencesRefineRegister == PrefSpec => PreferencesAreRegister
BY RegisterStarts, PrefStepsAreRegisters, PrefInvariant, PTL DEF PrefSpec, PreferencesAreRegister, Register!RegisterSpec

-----------------------------------------------------------------------------
(* Tags and metadata of nodes.                                             *)

\* What a request that saves a tag has found free stays free: no other live tag
\* has its name or its target, and nobody else is about to take them.
SavesApart ==
  \A c \in TagCall : TagAt(c, "save") =>
    /\ tagging[c].to \in NewRow
    /\ \A u \in LiveTags \ {tagging[c].id} : tag[u].name # tagging[c].to.name /\ ~SameTarget(tag[u], tagging[c].to)
    /\ \A d \in TagCall \ {c} : TagAt(d, "save") =>
         tagging[d].to.name # tagging[c].to.name /\ ~SameTarget(tagging[d].to, tagging[c].to)

\* The row of the node is locked by one request at most; what a delta has
\* checked about the tags, and counted on for the metadata, still holds.
NodeStep(c) == tagging[c].step \in {"delta", "deltaChecked", "meta", "metaChecked"}
NodeLocked ==
  /\ \A c, d \in TagCall : NodeStep(c) /\ NodeStep(d) => c = d
  /\ \A c \in TagCall : TagAt(c, "deltaChecked") =>
       /\ tagging[c].add \subseteq Bindable
       /\ tagging[c].ids = (rel \ tagging[c].remove) \cup tagging[c].add

MetaSame == staleMeta = TRUE \/ meta.has = FALSE \/ meta.ids = rel

TaggingInv == TaggingTypeOK /\ TagsUnique /\ SavesApart /\ NodeLocked /\ MetaSame

-----------------------------------------------------------------------------
\* The kinds of calls.
LEMMA TaggingKinds ==
  ASSUME TaggingTypeOK, NEW c \in TagCall
  PROVE  /\ TagAt(c, "save") => tagging[c].id \in Tag /\ tagging[c].to \in TagRow
         /\ TagAt(c, "delta") => tagging[c].add \in SUBSET Tag /\ tagging[c].remove \in SUBSET Tag
         /\ TagAt(c, "deltaChecked") => tagging[c].add \in SUBSET Tag /\ tagging[c].remove \in SUBSET Tag /\ tagging[c].ids \in SUBSET Tag
         /\ tagging[c].step \in {"meta", "metaChecked", "warm"} =>
              tagging[c] \in [step : {"meta", "metaChecked", "warm"}, ids : TagIds] /\ tagging[c].ids \in TagIds
BY DEF TaggingTypeOK, TaggingState, TagAt

LEMMA CallGoesIs ==
  ASSUME TaggingTypeOK, NEW c \in TagCall, NEW rec \in TaggingState, tagging' = [tagging EXCEPT ![c] = rec]
  PROVE  /\ tagging' \in [TagCall -> TaggingState]
         /\ tagging'[c] = rec /\ \A d \in TagCall \ {c} : tagging'[d] = tagging[d]
BY DEF TaggingTypeOK

LEMMA TagEndsIs ==
  ASSUME TaggingTypeOK, NEW c \in TagCall, TagEnds(c)
  PROVE  /\ tagging' \in [TagCall -> TaggingState] /\ tagCalls' \in 0 .. MaxTagCalls
         /\ tagging'[c].step = "idle" /\ \A d \in TagCall \ {c} : tagging'[d] = tagging[d]
<1>1. TagIdle \in TaggingState /\ TagIdle.step = "idle"
  BY DEF TagIdle, TaggingState
<1> QED BY <1>1, CallGoesIs DEF TagEnds, TaggingTypeOK

\* A call that begins with rec.
LEMMA TagBeginsIs ==
  ASSUME TaggingTypeOK, NEW c \in TagCall, NEW rec \in TaggingState, TagBegins(c, rec)
  PROVE  /\ tagging' \in [TagCall -> TaggingState] /\ TaggingTypeOK'
         /\ tagging'[c] = rec /\ \A d \in TagCall \ {c} : tagging'[d] = tagging[d]
<1>1. tagCalls' \in 0 .. MaxTagCalls
  BY TagBound DEF TagBegins, TaggingTypeOK
<1>2. /\ tagging' \in [TagCall -> TaggingState]
      /\ tagging'[c] = rec /\ \A d \in TagCall \ {c} : tagging'[d] = tagging[d]
  BY CallGoesIs DEF TagBegins
<1>3. UNCHANGED <<tag, rel, meta, staleMeta>>
  BY DEF TagBegins
<1> QED BY <1>1, <1>2, <1>3 DEF TaggingTypeOK

LEMMA TaggingStarts == TaggingStart => TaggingInv
<1> SUFFICES ASSUME TaggingStart PROVE TaggingInv
  OBVIOUS
<1>1. \A c \in TagCall : tagging[c].step = "idle" /\ tagging[c] \in TaggingState
  BY DEF TaggingStart, TagIdle, TaggingState
<1>2. /\ tag \in [Tag -> TagRow \cup {NoTag}] /\ rel \in SUBSET Tag /\ tagCalls \in 0 .. MaxTagCalls
      /\ tagging \in [TagCall -> TaggingState]
  BY <1>1, TagBound DEF TaggingStart, NewRow
<1>3. meta \in TagIds /\ meta.has = FALSE
  BY DEF TaggingStart, NoIds, TagIds
<1>4. TaggingTypeOK
  BY <1>2, <1>3 DEF TaggingTypeOK, TaggingStart
<1>5. TagsUnique
  BY DEF TaggingStart, TagsUnique
<1> QED BY <1>1, <1>3, <1>4, <1>5 DEF TaggingInv, SavesApart, NodeLocked, NodeStep, MetaSame, TagAt

\* A call that ends, and leaves the tags as they are.
LEMMA TagEndsKeeps ==
  ASSUME TaggingInv, NEW c \in TagCall, TagEnds(c), UNCHANGED tag, rel' \in SUBSET Tag, meta' \in TagIds,
         staleMeta' \in {staleMeta, TRUE}, MetaSame',
         rel' = rel \/ NodeStep(c)
  PROVE  TaggingInv'
<1>1. /\ tagging' \in [TagCall -> TaggingState] /\ tagCalls' \in 0 .. MaxTagCalls
      /\ tagging'[c].step = "idle" /\ \A d \in TagCall \ {c} : tagging'[d] = tagging[d]
  BY TagEndsIs DEF TaggingInv
<1>2. TaggingTypeOK'
  BY <1>1 DEF TaggingInv, TaggingTypeOK
<1>3. LiveTags' = LiveTags /\ Bindable' = Bindable
  BY DEF LiveTags, Bindable
<1>4. TagsUnique'
  BY <1>3 DEF TaggingInv, TagsUnique, SameTarget
<1>5. SavesApart'
  BY <1>1, <1>3 DEF TaggingInv, SavesApart, TagAt, SameTarget, NewRow
<1>6. \A d \in TagCall \ {c} : NodeStep(d) => rel' = rel
  BY DEF TaggingInv, NodeLocked
<1>7. NodeLocked'
  BY <1>1, <1>3, <1>6 DEF TaggingInv, NodeLocked, NodeStep, TagAt
<1> QED BY <1>2, <1>4, <1>5, <1>7 DEF TaggingInv

\* A call that begins, or goes on, with a record that is no save.
LEMMA NodeCallKeeps ==
  ASSUME TaggingInv, NEW c \in TagCall, NEW rec \in TaggingState, TaggingTypeOK', tagging'[c] = rec,
         \A d \in TagCall \ {c} : tagging'[d] = tagging[d],
         UNCHANGED <<tag, rel, meta, staleMeta>>, rec.step # "save",
         rec.step = "warm" \/ NodeStep(c) \/ NodeFree,
         rec.step = "deltaChecked" => rec.add \subseteq Bindable /\ rec.ids = (rel \ rec.remove) \cup rec.add
  PROVE  TaggingInv'
<1>1. LiveTags' = LiveTags /\ Bindable' = Bindable
  BY DEF LiveTags, Bindable
<1>2. TagsUnique'
  BY <1>1 DEF TaggingInv, TagsUnique, SameTarget
<1>3. SavesApart'
  BY <1>1 DEF TaggingInv, SavesApart, TagAt, SameTarget, NewRow
<1>4. \A d, e \in TagCall : NodeStep(d)' /\ NodeStep(e)' => d = e
  BY DEF TaggingInv, NodeLocked, NodeStep, NodeFree
<1>5. NodeLocked'
  BY <1>1, <1>4 DEF TaggingInv, NodeLocked, NodeStep, TagAt
<1>6. MetaSame'
  BY DEF TaggingInv, MetaSame
<1> QED BY <1>2, <1>3, <1>5, <1>6 DEF TaggingInv

LEMMA TagSaveKeeps ==
  ASSUME TaggingInv, NEW c \in TagCall, NEW t \in Tag, NEW r \in NewRow, TagSave(c, t, r)
  PROVE  TaggingInv'
<1> DEFINE rec == [step |-> "save", id |-> t, to |-> r]
<1>1. /\ ScopesFree(c, r) /\ TagBegins(c, rec)
      /\ \A u \in LiveTags \ {t} : tag[u].name # r.name /\ ~SameTarget(tag[u], r)
  BY DEF TagSave
<1>2. rec \in TaggingState /\ rec.step = "save" /\ rec.id = t /\ rec.to = r
  BY DEF TaggingState, NewRow
<1> HIDE DEF rec
<1>3. /\ TaggingTypeOK' /\ tagging'[c] = rec /\ \A d \in TagCall \ {c} : tagging'[d] = tagging[d]
      /\ UNCHANGED <<tag, rel, meta, staleMeta>>
  BY <1>1, <1>2, TagBeginsIs DEF TaggingInv, TagBegins
<1>4. LiveTags' = LiveTags /\ Bindable' = Bindable
  BY <1>3 DEF LiveTags, Bindable
<1>5. TagsUnique'
  BY <1>3, <1>4 DEF TaggingInv, TagsUnique, SameTarget
<1>6. SavesApart'
  BY <1>1, <1>2, <1>3, <1>4 DEF TaggingInv, SavesApart, TagAt, SameTarget, NewRow, ScopesFree
<1>7. NodeLocked' /\ MetaSame'
  BY <1>2, <1>3, <1>4 DEF TaggingInv, NodeLocked, NodeStep, TagAt, MetaSame
<1> QED BY <1>3, <1>5, <1>6, <1>7 DEF TaggingInv

LEMMA TagSaveWriteKeeps ==
  ASSUME TaggingInv, NEW c \in TagCall, TagSaveWrite(c)
  PROVE  TaggingInv'
<1> DEFINE t == tagging[c].id
           r == tagging[c].to
<1>1. TagAt(c, "save") /\ ~ShareLocked(t) /\ tag' = [tag EXCEPT ![t] = r] /\ TagEnds(c) /\ UNCHANGED <<rel, meta, staleMeta>>
  BY DEF TagSaveWrite
<1>2. t \in Tag /\ r \in NewRow /\ r.st = "live"
  BY <1>1, TaggingKinds DEF TaggingInv, SavesApart, NewRow
<1>3. /\ tagging' \in [TagCall -> TaggingState] /\ tagCalls' \in 0 .. MaxTagCalls
      /\ tagging'[c].step = "idle" /\ \A d \in TagCall \ {c} : tagging'[d] = tagging[d]
  BY <1>1, TagEndsIs DEF TaggingInv
<1>4. tag' \in [Tag -> TagRow \cup {NoTag}] /\ tag'[t] = r /\ \A u \in Tag \ {t} : tag'[u] = tag[u]
  BY <1>1, <1>2 DEF TaggingInv, TaggingTypeOK, NewRow
<1>5. TaggingTypeOK'
  BY <1>1, <1>3, <1>4 DEF TaggingInv, TaggingTypeOK
<1>6. LiveTags' = LiveTags \cup {t} /\ \A u \in Bindable : u # t => u \in Bindable'
  BY <1>2, <1>4 DEF LiveTags, Bindable
<1>7. \A u \in LiveTags \ {t} : tag[u].name # r.name /\ ~SameTarget(tag[u], r)
  BY <1>1 DEF TaggingInv, SavesApart
<1>8. \A u \in LiveTags : u \in Tag
  BY DEF LiveTags
<1>9. TagsUnique'
  BY <1>4, <1>6, <1>7, <1>8 DEF TaggingInv, TagsUnique, SameTarget
<1>10. SavesApart'
  <2> SUFFICES ASSUME NEW d \in TagCall, TagAt(d, "save")'
               PROVE  /\ tagging'[d].to \in NewRow
                      /\ \A u \in LiveTags' \ {tagging'[d].id} : tag'[u].name # tagging'[d].to.name /\ ~SameTarget(tag'[u], tagging'[d].to)
                      /\ \A e \in TagCall \ {d} : TagAt(e, "save")' =>
                           tagging'[e].to.name # tagging'[d].to.name /\ ~SameTarget(tagging'[e].to, tagging'[d].to)
    BY DEF SavesApart, NewRow, SameTarget
  <2>1. d # c /\ tagging'[d] = tagging[d] /\ TagAt(d, "save")
    BY <1>3 DEF TagAt
  <2>2. r.name # tagging[d].to.name /\ ~SameTarget(r, tagging[d].to)
    BY <1>1, <2>1 DEF TaggingInv, SavesApart
  <2> QED BY <1>3, <1>4, <1>6, <1>8, <2>1, <2>2 DEF TaggingInv, SavesApart, TagAt
<1>11. \A d \in TagCall : TagAt(d, "deltaChecked") => t \notin tagging[d].add
  BY <1>1 DEF ShareLocked
<1>12. NodeLocked'
  BY <1>1, <1>3, <1>6, <1>11 DEF TaggingInv, NodeLocked, NodeStep, TagAt
<1> QED BY <1>1, <1>5, <1>9, <1>10, <1>12 DEF TaggingInv, MetaSame

LEMMA TagDeleteKeeps ==
  ASSUME TaggingInv, NEW t \in Tag, TagDelete(t)
  PROVE  TaggingInv'
<1>1. t \in LiveTags /\ ~ShareLocked(t) /\ tag' = [tag EXCEPT ![t].st = "deleted"] /\ UNCHANGED <<rel, meta, tagging, tagCalls, staleMeta>>
  BY DEF TagDelete
<1>2. tag[t] \in TagRow
  BY <1>1 DEF LiveTags, TaggingInv, TaggingTypeOK, NoTag
<1>3. tag' \in [Tag -> TagRow \cup {NoTag}] /\ tag'[t].st = "deleted" /\ \A u \in Tag \ {t} : tag'[u] = tag[u]
  BY <1>1, <1>2 DEF TaggingInv, TaggingTypeOK, TagRow
<1>4. TaggingTypeOK'
  BY <1>1, <1>3 DEF TaggingInv, TaggingTypeOK
<1>5. LiveTags' = LiveTags \ {t} /\ \A u \in Bindable : u # t => u \in Bindable'
  BY <1>3 DEF LiveTags, Bindable
<1>6. \A u \in LiveTags' : u \in LiveTags /\ tag'[u] = tag[u]
  BY <1>3, <1>5 DEF LiveTags
<1>7. TagsUnique'
  BY <1>6 DEF TaggingInv, TagsUnique, SameTarget
<1>8. SavesApart'
  BY <1>1, <1>6 DEF TaggingInv, SavesApart, TagAt, SameTarget, NewRow
<1>9. \A d \in TagCall : TagAt(d, "deltaChecked") => t \notin tagging[d].add
  BY <1>1 DEF ShareLocked
<1>10. NodeLocked'
  BY <1>1, <1>5, <1>9 DEF TaggingInv, NodeLocked, NodeStep, TagAt
<1> QED BY <1>1, <1>4, <1>7, <1>8, <1>10 DEF TaggingInv, MetaSame

LEMMA TagDeltaKeeps ==
  ASSUME TaggingInv, NEW c \in TagCall, NEW add \in SUBSET Tag, NEW remove \in SUBSET Tag, TagDelta(c, add, remove)
  PROVE  TaggingInv'
<1> DEFINE rec == [step |-> "delta", add |-> add, remove |-> remove]
<1>1. rec \in TaggingState /\ rec.step = "delta"
  BY DEF TaggingState
<1>2. NodeFree /\ TagBegins(c, rec)
  BY DEF TagDelta
<1> HIDE DEF rec
<1> QED BY <1>1, <1>2, TagBeginsIs, NodeCallKeeps DEF TagBegins, TaggingInv

LEMMA MetaUpdateKeeps ==
  ASSUME TaggingInv, NEW c \in TagCall, NEW ids \in TagIds, MetaUpdate(c, ids)
  PROVE  TaggingInv'
<1> DEFINE rec == [step |-> "meta", ids |-> ids]
<1>1. rec \in TaggingState /\ rec.step = "meta"
  BY DEF TaggingState
<1>2. NodeFree /\ TagBegins(c, rec)
  BY DEF MetaUpdate
<1> HIDE DEF rec
<1> QED BY <1>1, <1>2, TagBeginsIs, NodeCallKeeps DEF TagBegins, TaggingInv

LEMMA WarmupReadKeeps ==
  ASSUME TaggingInv, NEW c \in TagCall, WarmupRead(c)
  PROVE  TaggingInv'
<1> DEFINE rec == [step |-> "warm", ids |-> meta]
<1>1. rec \in TaggingState /\ rec.step = "warm"
  BY DEF TaggingState, TaggingInv, TaggingTypeOK
<1>2. TagBegins(c, rec)
  BY DEF WarmupRead
<1> HIDE DEF rec
<1> QED BY <1>1, <1>2, TagBeginsIs, NodeCallKeeps DEF TagBegins, TaggingInv

LEMMA TagDeltaCheckKeeps ==
  ASSUME TaggingInv, NEW c \in TagCall, TagDeltaCheck(c)
  PROVE  TaggingInv'
<1> DEFINE add == tagging[c].add
           remove == tagging[c].remove
           rec == [step |-> "deltaChecked", add |-> add, remove |-> remove, ids |-> (rel \ remove) \cup add]
<1>1. /\ TagAt(c, "delta") /\ add \subseteq Bindable /\ tagging' = [tagging EXCEPT ![c] = rec]
      /\ UNCHANGED <<tag, rel, meta, tagCalls, staleMeta>>
  BY DEF TagDeltaCheck, TagGoes
<1>2. /\ rec \in TaggingState /\ rec.step = "deltaChecked" /\ rec.add \subseteq Bindable
      /\ rec.ids = (rel \ rec.remove) \cup rec.add
  BY <1>1, TaggingKinds DEF TaggingInv, TaggingTypeOK, TaggingState
<1> HIDE DEF rec
<1>3. /\ tagging' \in [TagCall -> TaggingState]
      /\ tagging'[c] = rec /\ \A d \in TagCall \ {c} : tagging'[d] = tagging[d]
  BY <1>1, <1>2, CallGoesIs DEF TaggingInv
<1>4. TaggingTypeOK' /\ NodeStep(c)
  BY <1>1, <1>3 DEF TaggingInv, TaggingTypeOK, NodeStep, TagAt
<1> QED BY <1>1, <1>2, <1>3, <1>4, NodeCallKeeps

LEMMA MetaCheckKeeps ==
  ASSUME TaggingInv, NEW c \in TagCall, MetaCheck(c)
  PROVE  TaggingInv'
<1> DEFINE rec == [tagging[c] EXCEPT !.step = "metaChecked"]
<1>1. TagAt(c, "meta") /\ tagging' = [tagging EXCEPT ![c] = rec] /\ UNCHANGED <<tag, rel, meta, tagCalls, staleMeta>>
  BY DEF MetaCheck, TagGoes
<1>2. rec \in TaggingState /\ rec.step = "metaChecked"
  BY <1>1, TaggingKinds DEF TaggingInv, TaggingState, TagAt
<1> HIDE DEF rec
<1>3. /\ tagging' \in [TagCall -> TaggingState]
      /\ tagging'[c] = rec /\ \A d \in TagCall \ {c} : tagging'[d] = tagging[d]
  BY <1>1, <1>2, CallGoesIs DEF TaggingInv
<1>4. TaggingTypeOK' /\ NodeStep(c)
  BY <1>1, <1>3 DEF TaggingInv, TaggingTypeOK, NodeStep, TagAt
<1> QED BY <1>1, <1>2, <1>3, <1>4, NodeCallKeeps

LEMMA TagDeltaCommitKeeps ==
  ASSUME TaggingInv, NEW c \in TagCall, TagDeltaCommit(c)
  PROVE  TaggingInv'
<1>1. /\ TagAt(c, "deltaChecked") /\ rel' = (rel \ tagging[c].remove) \cup tagging[c].add
      /\ meta' = Ids(tagging[c].ids) /\ TagEnds(c) /\ UNCHANGED <<tag, staleMeta>>
  BY DEF TagDeltaCommit
<1>2. tagging[c].add \in SUBSET Tag /\ tagging[c].ids \in SUBSET Tag /\ tagging[c].ids = rel'
  BY <1>1, TaggingKinds DEF TaggingInv, NodeLocked
<1>3. rel' \in SUBSET Tag /\ meta' \in TagIds /\ meta'.ids = rel' /\ NodeStep(c)
  BY <1>1, <1>2 DEF TagIds, Ids, NodeStep, TagAt
<1> QED BY <1>1, <1>3, TagEndsKeeps DEF MetaSame

LEMMA MetaCommitKeeps ==
  ASSUME TaggingInv, NEW c \in TagCall, MetaCommit(c)
  PROVE  TaggingInv'
<1>1. /\ TagAt(c, "metaChecked") /\ meta' = tagging[c].ids /\ rel' = (IF meta'.has THEN meta'.ids ELSE rel)
      /\ TagEnds(c) /\ UNCHANGED <<tag, staleMeta>>
  BY DEF MetaCommit
<1>2. meta' \in TagIds /\ NodeStep(c)
  BY <1>1, TaggingKinds DEF TaggingInv, TagAt, NodeStep
<1>3. (meta'.has = FALSE /\ rel' = rel) \/ (meta'.ids \in SUBSET Tag /\ rel' = meta'.ids)
  BY <1>1, <1>2 DEF TagIds
<1>4. rel' \in SUBSET Tag
  BY <1>3 DEF TaggingInv, TaggingTypeOK
<1> QED BY <1>1, <1>2, <1>3, <1>4, TagEndsKeeps DEF MetaSame

LEMMA WarmupWriteKeeps ==
  ASSUME TaggingInv, NEW c \in TagCall, WarmupWrite(c)
  PROVE  TaggingInv'
<1>1. /\ TagAt(c, "warm") /\ meta' = tagging[c].ids /\ TagEnds(c) /\ UNCHANGED <<tag, rel>>
      /\ staleMeta' = (staleMeta \/ meta' # meta)
  BY DEF WarmupWrite
<1>2. meta' \in TagIds /\ rel' \in SUBSET Tag
  BY <1>1, TaggingKinds DEF TaggingInv, TagAt, TaggingTypeOK
<1>3. staleMeta' \in {staleMeta, TRUE}
  BY <1>1 DEF TaggingInv, TaggingTypeOK
<1>4. staleMeta' = TRUE \/ (staleMeta' = staleMeta /\ meta' = meta)
  BY <1>1 DEF TaggingInv, TaggingTypeOK
<1>5. MetaSame'
  BY <1>1, <1>4 DEF TaggingInv, MetaSame
<1> QED BY <1>1, <1>2, <1>3, <1>5, TagEndsKeeps

LEMMA TagAbandonKeeps ==
  ASSUME TaggingInv, NEW c \in TagCall, TagAbandon(c)
  PROVE  TaggingInv'
<1>1. TagEnds(c) /\ UNCHANGED <<tag, rel, meta, staleMeta>>
  BY DEF TagAbandon
<1> QED BY <1>1, TagEndsKeeps DEF TaggingInv, TaggingTypeOK, MetaSame

LEMMA TaggingKept == TaggingInv /\ [TaggingNext]_taggingVars => TaggingInv'
<1> SUFFICES ASSUME TaggingInv, [TaggingNext]_taggingVars PROVE TaggingInv'
  OBVIOUS
<1>1. CASE UNCHANGED taggingVars
  <2>1. UNCHANGED <<tag, rel, meta, tagging, tagCalls, staleMeta>>
    BY <1>1 DEF taggingVars
  <2>2. LiveTags' = LiveTags /\ Bindable' = Bindable
    BY <2>1 DEF LiveTags, Bindable
  <2> QED BY <2>1, <2>2 DEF TaggingInv, TaggingTypeOK, TagsUnique, SavesApart, NodeLocked, NodeStep, MetaSame, TagAt, SameTarget, NewRow
<1> QED BY <1>1, TagSaveKeeps, TagSaveWriteKeeps, TagDeltaKeeps, TagDeltaCheckKeeps, TagDeltaCommitKeeps, MetaUpdateKeeps,
       MetaCheckKeeps, MetaCommitKeeps, WarmupReadKeeps, WarmupWriteKeeps, TagAbandonKeeps, TagDeleteKeeps DEF TaggingNext

\* The types of tags, that no two saves under way hold the same name, and that what
\* the request that has locked the row of the node has checked still holds.
THEOREM TaggingInvariant == TaggingSpec => []TaggingInv
BY TaggingStarts, TaggingKept, PTL DEF TaggingSpec

\* No two tags share a name or a target (TagsUnique).
THEOREM TagsStayUnique == TaggingSpec => []TagsUnique
<1>1. TaggingInv => TagsUnique
  BY DEF TaggingInv
<1> QED BY <1>1, TaggingInvariant, PTL

\* The metadata of a node and node_tag_rel name the same tags, until a warm-up
\* puts old ones back (MetaAgrees).
THEOREM MetadataAgrees == TaggingSpec => []MetaAgrees
<1>1. TaggingInv => MetaAgrees
  BY DEF TaggingInv, MetaSame, MetaAgrees
<1> QED BY <1>1, TaggingInvariant, PTL

\* A tag delta binds only what is bindable when it commits (DeltaBindsBindable).
THEOREM DeltasBindBindable == TaggingSpec => DeltaBindsBindable
<1>1. TaggingInv /\ [TaggingNext]_taggingVars =>
        [\A c \in TagCall : TagAt(c, "deltaChecked") /\ ~TagAt(c, "deltaChecked")' => rel' \ rel \subseteq Bindable]_taggingVars
  <2> SUFFICES ASSUME TaggingInv, TaggingNext, NEW c \in TagCall, TagAt(c, "deltaChecked"), ~TagAt(c, "deltaChecked")'
               PROVE  rel' \ rel \subseteq Bindable
    OBVIOUS
  <2>1. CASE rel' = rel
    BY <2>1
  <2>2. ASSUME NEW d \in TagCall, TagDeltaCommit(d) PROVE rel' \ rel \subseteq Bindable
    BY <2>2 DEF TagDeltaCommit, TaggingInv, NodeLocked
  <2>3. ASSUME NEW d \in TagCall, MetaCommit(d) PROVE FALSE
    BY <2>3 DEF MetaCommit, TaggingInv, NodeLocked, NodeStep, TagAt
  <2> QED BY <2>1, <2>2, <2>3 DEF TaggingNext, TagSave, TagBegins, TagSaveWrite, TagDelta, TagDeltaCheck, MetaUpdate, MetaCheck,
           WarmupRead, WarmupWrite, TagAbandon, TagDelete
<1> QED BY <1>1, TaggingInvariant, PTL DEF TaggingSpec, DeltaBindsBindable

-----------------------------------------------------------------------------
(* Browser file mappings.                                                  *)

\* Only a live row is ever written.
WritesLiveRows == \A c \in MappingCall : mapCall[c].step # "idle" => mapCall[c].row \in [state : {"live"}, ext : FileExt]

MappingInv == FileMappingsTypeOK /\ WritesLiveRows /\ MappingsUnique

-----------------------------------------------------------------------------
LEMMA MappingStarts == MappingStart => MappingInv
<1> SUFFICES ASSUME MappingStart PROVE MappingInv
  OBVIOUS
<1>1. \A m \in Mapping : mapping[m] = NoMapping
  BY DEF MappingStart
<1>2. \A c \in MappingCall : mapCall[c] = NoMapCall /\ NoMapCall.step = "idle"
  BY DEF MappingStart, NoMapCall
<1>3. FileMappingsTypeOK
  BY MappingBounds DEF MappingStart, FileMappingsTypeOK, NoMapCall
<1> QED BY <1>1, <1>2, <1>3 DEF MappingInv, WritesLiveRows, MappingsUnique, LiveMappings, NoMapping

LEMMA MappingCallIs ==
  ASSUME FileMappingsTypeOK, NEW c \in MappingCall
  PROVE  /\ MappingEnds(c) => /\ mapCall' = [mapCall EXCEPT ![c] = NoMapCall] /\ FileMappingsTypeOK
                              /\ mapCall' \in [MappingCall -> [step : {"idle", "check", "write"}, id : {0} \cup Mapping,
                                                              row : MappingRow \cup {NoMapping}]]
                              /\ mapCall'[c].step = "idle" /\ \A d \in MappingCall \ {c} : mapCall'[d] = mapCall[d]
         /\ MappingBegins(c) => mappingCalls' \in 0 .. MaxMappingCalls
<1>1. NoMapCall \in [step : {"idle", "check", "write"}, id : {0} \cup Mapping, row : MappingRow \cup {NoMapping}]
      /\ NoMapCall.step = "idle"
  BY DEF NoMapCall
<1>2. MappingBegins(c) => mappingCalls' \in 0 .. MaxMappingCalls
  BY MappingBounds DEF FileMappingsTypeOK, MappingBegins
<1> QED BY <1>1, <1>2 DEF MappingEnds, FileMappingsTypeOK

\* A call that sets out to write row r at id i.
LEMMA MappingBeginsKeeps ==
  ASSUME MappingInv, NEW c \in MappingCall, NEW i \in {0} \cup Mapping, NEW x \in FileExt,
         MappingBegins(c), UNCHANGED mapping,
         mapCall' = [mapCall EXCEPT ![c] = [step |-> "check", id |-> i, row |-> [state |-> "live", ext |-> x]]]
  PROVE  MappingInv'
<1> DEFINE rec == [step |-> "check", id |-> i, row |-> [state |-> "live", ext |-> x]]
<1>1. /\ rec \in [step : {"idle", "check", "write"}, id : {0} \cup Mapping, row : MappingRow \cup {NoMapping}]
      /\ rec.row \in [state : {"live"}, ext : FileExt]
  BY DEF MappingRow
<1>2. mapCall' = [mapCall EXCEPT ![c] = rec]
  OBVIOUS
<1> HIDE DEF rec
<1>a. mapCall' \in [MappingCall -> [step : {"idle", "check", "write"}, id : {0} \cup Mapping,
                                    row : MappingRow \cup {NoMapping}]]
  BY <1>1, <1>2 DEF MappingInv, FileMappingsTypeOK
<1>b. mappingCalls' \in 0 .. MaxMappingCalls
  BY MappingBounds DEF MappingInv, FileMappingsTypeOK, MappingBegins
<1>3. FileMappingsTypeOK'
  BY <1>a, <1>b DEF MappingInv, FileMappingsTypeOK
<1>4. WritesLiveRows'
  BY <1>1, <1>2 DEF MappingInv, FileMappingsTypeOK, WritesLiveRows
<1> QED BY <1>3, <1>4 DEF MappingInv, MappingsUnique, LiveMappings

LEMMA MappingKept == MappingInv /\ [MappingNext]_mappingVars => MappingInv'
<1> SUFFICES ASSUME MappingInv, [MappingNext]_mappingVars PROVE MappingInv'
  OBVIOUS
<1>t. FileMappingsTypeOK
  BY DEF MappingInv
<1>1. ASSUME NEW c \in MappingCall, MappingCreate(c) \/ MappingUpdate(c) PROVE MappingInv'
  BY <1>1, MappingBeginsKeeps DEF MappingCreate, MappingUpdate, LiveMappings
<1>2. ASSUME NEW c \in MappingCall, MappingCheck(c) PROVE MappingInv'
  <2>1. mapCall[c].step = "check" /\ UNCHANGED mapping
    BY <1>2 DEF MappingCheck
  <2>2. CASE MappingEnds(c)
    <3>1. FileMappingsTypeOK'
      BY <1>t, <2>1, <2>2, MappingCallIs DEF MappingEnds, FileMappingsTypeOK
    <3>2. WritesLiveRows'
      BY <1>t, <2>1, <2>2, MappingCallIs DEF MappingInv, WritesLiveRows
    <3> QED BY <2>1, <3>1, <3>2 DEF MappingInv, MappingsUnique, LiveMappings
  <2>3. CASE mapCall' = [mapCall EXCEPT ![c].step = "write"] /\ UNCHANGED mappingCalls
    <3>1. FileMappingsTypeOK'
      BY <1>t, <2>1, <2>3 DEF FileMappingsTypeOK
    <3>2. WritesLiveRows'
      BY <1>t, <2>1, <2>3 DEF MappingInv, FileMappingsTypeOK, WritesLiveRows
    <3> QED BY <2>1, <3>1, <3>2 DEF MappingInv, MappingsUnique, LiveMappings
  <2> QED BY <1>2, <2>2, <2>3 DEF MappingCheck
<1>3. ASSUME NEW c \in MappingCall, MappingWrite(c) PROVE MappingInv'
  <2>1. mapCall[c].step = "write" /\ MappingEnds(c)
    BY <1>3 DEF MappingWrite
  <2>2. mapCall[c].row \in [state : {"live"}, ext : FileExt]
    BY <2>1 DEF MappingInv, WritesLiveRows
  <2>3. WritesLiveRows'
    BY <1>t, <2>1, MappingCallIs DEF MappingInv, WritesLiveRows
  <2>4. CASE UNCHANGED mapping
    <3>1. FileMappingsTypeOK'
      BY <1>t, <2>1, <2>4, MappingCallIs DEF MappingEnds, FileMappingsTypeOK
    <3> QED BY <2>3, <2>4, <3>1 DEF MappingInv, MappingsUnique, LiveMappings
  <2>5. ASSUME NEW m \in Mapping, ExtFree(m, mapCall[c].row.ext), mapping' = [mapping EXCEPT ![m] = mapCall[c].row]
        PROVE  MappingInv'
    <3>1. mapping' \in [Mapping -> MappingRow \cup {NoMapping}]
      BY <1>t, <2>2, <2>5 DEF FileMappingsTypeOK, MappingRow
    <3>2. FileMappingsTypeOK'
      BY <1>t, <2>1, <3>1, MappingCallIs DEF MappingEnds, FileMappingsTypeOK
    <3>3. mapping'[m] = mapCall[c].row /\ \A k \in Mapping \ {m} : mapping'[k] = mapping[k]
      BY <1>t, <2>5 DEF FileMappingsTypeOK
    <3>4. \A k \in LiveMappings \ {m} : mapping[k].ext # mapping'[m].ext
      BY <2>5, <3>3 DEF ExtFree
    <3>5. MappingsUnique'
      BY <3>3, <3>4 DEF MappingInv, MappingsUnique, LiveMappings
    <3> QED BY <2>3, <3>2, <3>5 DEF MappingInv
  <2> QED BY <1>3, <2>4, <2>5 DEF MappingWrite, FreeMappings, LiveMappings
<1>4. ASSUME NEW c \in MappingCall, MappingDelete(c) PROVE MappingInv'
  <2>1. PICK m \in LiveMappings : mapping' = [mapping EXCEPT ![m].state = "deleted"]
    BY <1>4 DEF MappingDelete
  <2>2. mapping[m] \in MappingRow
    BY <1>t, <2>1 DEF FileMappingsTypeOK, LiveMappings, NoMapping
  <2>3. /\ mapping' \in [Mapping -> MappingRow \cup {NoMapping}]
        /\ mapping'[m].state = "deleted" /\ \A k \in Mapping \ {m} : mapping'[k] = mapping[k]
    BY <1>t, <2>1, <2>2 DEF FileMappingsTypeOK, MappingRow, LiveMappings
  <2>4. FileMappingsTypeOK'
    BY <1>t, <1>4, <2>3, MappingCallIs DEF MappingDelete, FileMappingsTypeOK
  <2>5. MappingsUnique'
    BY <2>1, <2>3 DEF MappingInv, MappingsUnique, LiveMappings
  <2> QED BY <1>4, <2>4, <2>5 DEF MappingDelete, MappingInv, WritesLiveRows
<1>5. CASE UNCHANGED mappingVars
  BY <1>5 DEF mappingVars, MappingInv, FileMappingsTypeOK, WritesLiveRows, MappingsUnique, LiveMappings
<1> QED BY <1>1, <1>2, <1>3, <1>4, <1>5 DEF MappingNext

\* The mappings and the requests at them stay within their types, and what is about
\* to be written is a live row.
THEOREM MappingInvariant == MappingSpec => []MappingInv
BY MappingStarts, MappingKept, PTL DEF MappingSpec

\* An extension resolves to one mapping at most, whatever requests found it free
\* at the same time (MappingsUnique).
THEOREM ExtensionsUnique == MappingSpec => []MappingsUnique
<1>1. MappingInv => MappingsUnique
  BY DEF MappingInv
<1> QED BY <1>1, MappingInvariant, PTL

-----------------------------------------------------------------------------
(* The upload command.                                                     *)

Phases == {"absent", "open", "committed", "discarded"}

UploadFunctions ==
  /\ upPhase \in [{"session"} -> Phases]
  /\ upNode \in [{"session"} -> SUBSET {NodeMade}]
  /\ seen \in [UploadCall -> Seen]

\* A commit answers the only completion there is.
CommitIsAsked ==
  /\ ThePhase = "committed" => /\ "complete" \notin inFlight
                               /\ mainAt \in {"complete", "status", "end"}
                               /\ upNode["session"] = {NodeMade}
  /\ "complete" \in inFlight => mainAt \in {"complete", "status", "end"} /\ told # "failed"
  /\ mainAt \in {"start", "init", "batch", "put"} => seen["complete"] = "none"

\* What came back is so.
AnswersHold ==
  /\ seen["complete"] = "ok" => ThePhase = "committed"
  /\ seen["complete"] = "refused" => ThePhase # "committed" /\ "complete" \notin inFlight
  /\ seen["status"] = "ok" => ThePhase = "committed"
  /\ seen["abort"] = "ok" => ThePhase \in {"discarded", "committed"}

\* What the command reported follows from it.
ToldFromAnswers ==
  /\ told # "nothing" => mainAt = "end"
  /\ told = "uploaded" => ThePhase = "committed"
  /\ told = "failed" => /\ ThePhase # "committed"
                        /\ seen["init"] \in {"refused", "unsure"} \/ seen["abort"] # "none"

UploadInv == UploadFunctions /\ CommitIsAsked /\ AnswersHold /\ ToldFromAnswers

-----------------------------------------------------------------------------
LEMMA UploadStarts == UploadClientStart => UploadInv
BY DEF UploadClientStart, UploadInv, UploadFunctions, CommitIsAsked, AnswersHold, ToldFromAnswers,
       Server!Init, ThePhase, Phases, Seen, UploadCall

\* What came back first counts.
LEMMA FirstAnswerCounts ==
  ASSUME seen \in [UploadCall -> Seen], NEW q \in UploadCall, NEW a \in Seen, ComesBack(q, a)
  PROVE  /\ inFlight' = inFlight \ {q}
         /\ seen' \in [UploadCall -> Seen]
         /\ \A r \in UploadCall \ {q} : seen'[r] = seen[r]
         /\ seen[q] # "none" => seen'[q] = seen[q]
         /\ seen[q] = "none" => seen'[q] = a
BY DEF ComesBack

LEMMA UploadKept == UploadInv /\ [UploadClientNext]_uploadVars => UploadInv'
<1> SUFFICES ASSUME UploadInv, [UploadClientNext]_uploadVars PROVE UploadInv'
  OBVIOUS
<1> USE DEF UploadInv, UploadFunctions, CommitIsAsked, AnswersHold, ToldFromAnswers, ThePhase,
            serverVars
<1>calls. "init" \in UploadCall /\ "complete" \in UploadCall /\ "status" \in UploadCall /\ "abort" \in UploadCall
  BY DEF UploadCall
<1>seen. Seen = {"none", "ok", "refused", "unsure"}
  BY DEF Seen
<1>1. CASE SendInit \/ Opened \/ NotOpened
  BY <1>1, <1>calls, <1>seen DEF SendInit, Opened, NotOpened, Ask, Exit
<1>2. CASE SignBatch \/ SignFails \/ BatchPut \/ \E p \in Part : PutPart(p)
  BY <1>2, <1>calls, <1>seen DEF SignBatch, SignFails, BatchPut, PutPart
<1>3. CASE SendComplete
  BY <1>3, <1>calls, <1>seen DEF SendComplete, Ask
<1>4. CASE Completed \/ Reconcile \/ GivesUp \/ Reconciled
  BY <1>4, <1>calls, <1>seen DEF Completed, Reconcile, GivesUp, Reconciled, OutcomeUncertain, Ask, Exit
<1>5. CASE MainAborts \/ MainAborted
  BY <1>5, <1>calls, <1>seen DEF MainAborts, MainAborted, EnterAbort, Ask, Exit
<1>6. CASE Interrupt \/ SignalCancels \/ SignalAborts
  BY <1>6, <1>calls, <1>seen DEF Interrupt, SignalCancels, SignalAborts, EnterAbort, Ask
<1>7. ASSUME NEW q \in UploadCall, GiveUp(q) PROVE UploadInv'
  BY <1>7, <1>calls, <1>seen DEF GiveUp
<1>8. CASE HandleInit
  <2>1. PICK a \in {"ok", "unsure", "refused"} : ComesBack("init", a)
    BY <1>8 DEF HandleInit
  <2>2. CASE UNCHANGED serverVars
    BY <1>8, <1>calls, <1>seen, <2>1, <2>2, FirstAnswerCounts DEF HandleInit
  <2>3. CASE Server!Open("session")
    BY <1>8, <1>calls, <1>seen, <2>1, <2>3, FirstAnswerCounts DEF HandleInit, Server!Open, Phases
  <2> QED BY <1>8, <2>2, <2>3 DEF HandleInit
<1>9. CASE StoreObject
  BY <1>9 DEF StoreObject, Server!Store
<1>10. CASE HandleComplete
  <2>1. CASE UNCHANGED serverVars /\ \E a \in {"refused", "unsure"} : ComesBack("complete", a)
    BY <1>10, <1>calls, <1>seen, <2>1, FirstAnswerCounts DEF HandleComplete
  <2>2. CASE Server!Commit("session", NodeMade) /\ \E a \in {"ok", "unsure"} : ComesBack("complete", a)
    <3>1. PICK a \in {"ok", "unsure"} : ComesBack("complete", a)
      BY <2>2
    <3>2. /\ upPhase["session"] = "open" /\ upPhase'["session"] = "committed"
          /\ upPhase' \in [{"session"} -> Phases]
          /\ upNode' \in [{"session"} -> SUBSET {NodeMade}] /\ upNode'["session"] = {NodeMade}
      BY <2>2 DEF Server!Commit, Phases
    <3> QED BY <1>10, <1>calls, <1>seen, <3>1, <3>2, FirstAnswerCounts DEF HandleComplete
  <2> QED BY <1>10, <2>1, <2>2 DEF HandleComplete
<1>11. CASE HandleStatus
  BY <1>11, <1>calls, <1>seen, FirstAnswerCounts DEF HandleStatus
<1>12. CASE HandleAbort
  <2>1. PICK a \in {"ok", "unsure", "refused"} : ComesBack("abort", a)
    BY <1>12 DEF HandleAbort
  <2>2. CASE UNCHANGED serverVars /\ (ThePhase = "committed" \/ a # "ok")
    BY <1>12, <1>calls, <1>seen, <2>1, <2>2, FirstAnswerCounts DEF HandleAbort
  <2>3. CASE Server!Discard("session")
    BY <1>12, <1>calls, <1>seen, <2>1, <2>3, FirstAnswerCounts DEF HandleAbort, Server!Discard, Phases
  <2> QED BY <1>12, <1>calls, <1>seen, FirstAnswerCounts, <2>2, <2>3 DEF HandleAbort
<1>13. CASE LeaseEnds
  BY <1>13 DEF LeaseEnds, Server!Discard, Phases
<1>14. CASE UNCHANGED uploadVars
  BY <1>14 DEF uploadVars
<1> QED BY <1>1, <1>2, <1>3, <1>4, <1>5, <1>6, <1>7, <1>8, <1>9, <1>10, <1>11, <1>12, <1>13, <1>14
        DEF UploadClientNext

\* What the upload command reports is true and stays true (ToldTheTruth),
\* whatever is lost or comes late.
THEOREM UploadToldTheTruth == UploadClientSpec => []ToldTheTruth
<1>1. UploadInv => ToldTheTruth
  BY DEF UploadInv, UploadFunctions, CommitIsAsked, AnswersHold, ToldFromAnswers, ToldTheTruth, ThePhase,
         Seen, UploadCall, Phases
<1> QED BY <1>1, UploadStarts, UploadKept, PTL DEF UploadClientSpec

\* The upload command and the session at the server stay within their types.
THEOREM UploadTypes == UploadClientSpec => []UploadClientTypeOK
<1>1. UploadClientStart => UploadClientTypeOK
  BY DEF UploadClientStart, UploadClientTypeOK, Server!Init, ThePhase, Seen, MainPoint, SignalPoint
<1>2. UploadInv /\ UploadClientTypeOK /\ [UploadClientNext]_uploadVars => UploadClientTypeOK'
  <2> SUFFICES ASSUME UploadInv, UploadClientTypeOK, [UploadClientNext]_uploadVars
               PROVE  UploadClientTypeOK'
    OBVIOUS
  <2>1. UploadInv'
    BY UploadKept
  <2>2. ThePhase' \in {"absent", "open", "committed", "discarded"} /\ seen' \in [UploadCall -> Seen]
    BY <2>1 DEF UploadInv, UploadFunctions, ThePhase, Phases
  <2>3. "init" \in UploadCall /\ "complete" \in UploadCall /\ "status" \in UploadCall /\ "abort" \in UploadCall
    BY DEF UploadCall
  <2> USE DEF UploadClientTypeOK, UploadClientNext, uploadVars, SendInit, Opened, NotOpened, SignBatch,
              SignFails, BatchPut, PutPart, SendComplete, Completed, Reconcile, GivesUp, Reconciled,
              MainAborts, MainAborted, Interrupt, SignalCancels, SignalAborts, GiveUp, HandleInit,
              StoreObject, HandleComplete, HandleStatus, HandleAbort, LeaseEnds
  <2>4. inFlight' \subseteq UploadCall
    BY <2>3 DEF Ask, ComesBack, EnterAbort
  <2>5. partAt' \in [Part -> {"todo", "sent", "done", "failed"}]
    OBVIOUS
  <2>6. heldParts' \subseteq Part
    OBVIOUS
  <2>7. mainAt' \in MainPoint /\ told' \in {"nothing", "uploaded", "failed", "uncertain"}
    BY DEF Exit, MainPoint
  <2>8. /\ signalAt' \in SignalPoint /\ onceBy' \in {"nobody", "main", "signal"}
        /\ interrupted' \in BOOLEAN
    BY DEF EnterAbort, SignalPoint
  <2> QED BY <2>2, <2>4, <2>5, <2>6, <2>7, <2>8
<1> QED BY <1>1, <1>2, UploadStarts, UploadKept, PTL DEF UploadClientSpec

-----------------------------------------------------------------------------
(* The session file of the command-line client.                            *)

\* Each process is somewhere.
ProcessesStand ==
  /\ process = [p \in CliProcess |-> process[p]]
  /\ \A p \in CliProcess : "at" \in DOMAIN process[p]

\* As long as no two processes save at the same time, the one that saves has the
\* temporary file for itself, which is empty until it is written and is whole
\* then.
OneSaver ==
  /\ \A p, q \in CliProcess : process[p].at \in Saving /\ process[q].at \in Saving => p = q
  /\ \A p \in CliProcess :
       /\ process[p].at \notin {"write-cli", "write-lost"}
       /\ process[p].at = "write-temp" => tempFile = Blank
       /\ process[p].at = "rename" => tempFile \notin {Blank, Mixed}

CliInv == ProcessesStand /\ (torn \in BOOLEAN) /\ (~torn => OneSaver) /\ SessionFileWhole

-----------------------------------------------------------------------------
LEMMA TextIsWhole ==
  ASSUME NEW p \in CliProcess
  PROVE  Text(p) \notin {Blank, Mixed} /\ Over(Blank, Text(p)) = Text(p)
<1>1. Saved(process[p].token) \notin {Blank, Mixed} /\ Defaults \notin {Blank, Mixed}
  BY DEF Saved, Defaults, Blank, Mixed
<1> QED BY <1>1 DEF Text, Over

LEMMA CliStarts == CallsStart => CliInv
<1> SUFFICES ASSUME CallsStart PROVE CliInv
  OBVIOUS
<1>1. ProcessesStand /\ \A p \in CliProcess : process[p].at = "idle"
  BY DEF CallsStart, ProcessesStand
<1>2. OneSaver
  BY <1>1 DEF OneSaver, Saving
<1>3. NoFile \notin {Blank, Mixed} /\ Saved(1) \notin {Blank, Mixed}
  BY DEF NoFile, Saved, Blank, Mixed
<1>4. sessionFile \notin {Blank, Mixed}
  BY <1>3 DEF CallsStart
<1>5. torn \in BOOLEAN
  BY DEF CallsStart
<1> QED BY <1>1, <1>2, <1>4, <1>5 DEF CliInv, SessionFileWhole

\* A process that goes on outside SaveSession.
LEMMA OutsideSaveSession ==
  ASSUME CliInv, NEW p \in CliProcess, UNCHANGED <<sessionFile, tempFile, torn>>,
         NEW r, "at" \in DOMAIN r, r.at \notin Saving,
         process' = [process EXCEPT ![p] = r]
  PROVE  CliInv'
<1>1. process' = [q \in CliProcess |-> process'[q]] /\ process'[p] = r
      /\ \A q \in CliProcess \ {p} : process'[q] = process[q]
  BY DEF CliInv, ProcessesStand
<1>2. ProcessesStand'
  BY <1>1 DEF CliInv, ProcessesStand
<1>3. ~torn => OneSaver'
  BY <1>1 DEF CliInv, OneSaver, Saving
<1> QED BY <1>2, <1>3 DEF CliInv, SessionFileWhole

LEMMA Exit_OutsideSaveSession ==
  ASSUME CliInv, NEW p \in CliProcess, NEW code, Exits(p, code), UNCHANGED <<sessionFile, tempFile, torn>>
  PROVE  CliInv'
<1>1. "at" \in DOMAIN Ended(p, code) /\ Ended(p, code).at = "exited"
  BY DEF Ended
<1> HIDE DEF Ended
<1> QED BY <1>1, OutsideSaveSession DEF Exits, Saving

LEMMA Proceed_OutsideSaveSession ==
  ASSUME CliInv, NEW p \in CliProcess, NEW s, s \notin Saving, Proceeds(p, s),
         UNCHANGED <<sessionFile, tempFile, torn>>
  PROVE  CliInv'
<1> DEFINE r == [process[p] EXCEPT !.at = s]
<1>1. "at" \in DOMAIN r /\ r.at = s
  BY DEF CliInv, ProcessesStand
<1>2. process' = [process EXCEPT ![p] = r]
  BY DEF Proceeds
<1> HIDE DEF r
<1> QED BY <1>1, <1>2, OutsideSaveSession

LEMMA Answer_OutsideSaveSession ==
  ASSUME CliInv, NEW p \in CliProcess, NEW reply, NEW t, Answers(p, reply, t),
         UNCHANGED <<sessionFile, tempFile, torn>>
  PROVE  CliInv'
<1> DEFINE r == process'[p]
<1>1. "at" \in DOMAIN r /\ r.at = "reply"
  BY DEF CliInv, ProcessesStand, Answers
<1>2. process' = [process EXCEPT ![p] = r]
  BY DEF CliInv, ProcessesStand, Answers
<1> HIDE DEF r
<1> QED BY <1>1, <1>2, OutsideSaveSession DEF Saving

LEMMA CliKept == CliInv /\ [CallsNext]_callVars => CliInv'
<1> SUFFICES ASSUME CliInv, [CallsNext]_callVars PROVE CliInv'
  OBVIOUS
<1>1. ASSUME NEW p \in CliProcess, Start(p) PROVE CliInv'
  <2>1. PICK line \in Lines \cup OtherClients, t \in {LoadSession} \cup 1 .. made :
          process' = [process EXCEPT ![p] =
            [at |-> "send", line |-> line, todo |-> line.calls, token |-> t, changed |-> FALSE,
             reply |-> Unauthorized]]
    BY <1>1 DEF Start
  <2> DEFINE r == [at |-> "send", line |-> line, todo |-> line.calls, token |-> t, changed |-> FALSE,
                   reply |-> Unauthorized]
  <2>2. "at" \in DOMAIN r /\ r.at = "send"
    OBVIOUS
  <2>3. process' = [process EXCEPT ![p] = r]
    BY <2>1
  <2> HIDE DEF r
  <2> QED BY <1>1, <2>2, <2>3, OutsideSaveSession DEF Start, Saving
<1>2. ASSUME NEW p \in CliProcess, Serve(p) PROVE CliInv'
  <2>1. \E reply, t : Answers(p, reply, t)
    BY <1>2 DEF Serve, LoginServed, LogoutServed
  <2> QED BY <1>2, <2>1, Answer_OutsideSaveSession DEF Serve
<1>3. ASSUME NEW p \in CliProcess, Heard(p) PROVE CliInv'
  <2>1. CASE Exits(p, 0) \/ Exits(p, 1)
    BY <1>3, <2>1, Exit_OutsideSaveSession DEF Heard
  <2>2. CASE Proceeds(p, "save")
    BY <1>3, <2>2, Proceed_OutsideSaveSession DEF Heard, Saving
  <2>3. ASSUME process' = [process EXCEPT ![p].at = "send", ![p].todo = Tail(process[p].todo)]
        PROVE  CliInv'
    <3> DEFINE r == process'[p]
    <3>1. "at" \in DOMAIN r /\ r.at = "send"
      BY <2>3 DEF CliInv, ProcessesStand
    <3>2. process' = [process EXCEPT ![p] = r]
      BY <2>3 DEF CliInv, ProcessesStand
    <3> HIDE DEF r
    <3> QED BY <1>3, <3>1, <3>2, OutsideSaveSession DEF Heard, Saving
  <2> QED BY <1>3, <2>1, <2>2, <2>3 DEF Heard
<1>4. ASSUME NEW p \in CliProcess, Stop(p) PROVE CliInv'
  BY <1>4, Exit_OutsideSaveSession DEF Stop
<1>5. ASSUME NEW p \in CliProcess, SaveBegin(p) PROVE CliInv'
  <2>1. /\ process' = [q \in CliProcess |-> process'[q]]
        /\ "at" \in DOMAIN process'[p] /\ process'[p].at = "write-temp"
        /\ \A q \in CliProcess \ {p} : process'[q] = process[q]
    BY <1>5 DEF SaveBegin, Proceeds, CliInv, ProcessesStand
  <2>2. ProcessesStand'
    BY <2>1 DEF CliInv, ProcessesStand
  <2>3. torn' \in BOOLEAN
    BY <1>5 DEF SaveBegin, CliInv
  <2>4. ~torn' => ~torn /\ \A q \in CliProcess \ {p} : process[q].at \notin Saving
    BY <1>5 DEF SaveBegin
  <2>5. ~torn' => OneSaver'
    BY <1>5, <2>1, <2>4 DEF SaveBegin, OneSaver, Saving
  <2> QED BY <1>5, <2>2, <2>3, <2>4, <2>5 DEF SaveBegin, CliInv, SessionFileWhole
<1>6. ASSUME NEW p \in CliProcess, SaveWrite(p) PROVE CliInv'
  <2>1. /\ process' = [q \in CliProcess |-> process'[q]]
        /\ "at" \in DOMAIN process'[p] /\ process'[p].at = "rename"
        /\ \A q \in CliProcess \ {p} : process'[q] = process[q]
    BY <1>6 DEF SaveWrite, Proceeds, CliInv, ProcessesStand
  <2>2. ProcessesStand'
    BY <2>1 DEF CliInv, ProcessesStand
  <2>3. ASSUME ~torn
        PROVE  /\ process[p].at = "write-temp" /\ tempFile' = Text(p) /\ UNCHANGED sessionFile
               /\ \A q \in CliProcess \ {p} : process[q].at \notin Saving
    BY <1>6, <2>3, TextIsWhole DEF SaveWrite, Stage, CliInv, OneSaver, Saving
  <2>4. ~torn => OneSaver'
    BY <2>1, <2>3, TextIsWhole DEF OneSaver, Saving
  <2> QED BY <1>6, <2>2, <2>3, <2>4 DEF SaveWrite, CliInv, SessionFileWhole
<1>7. ASSUME NEW p \in CliProcess, SaveRename(p) PROVE CliInv'
  <2>1. process[p].at = "rename" /\ UNCHANGED torn
    BY <1>7 DEF SaveRename, Stage
  <2>2. CASE tempFile = NoFile
    BY <1>7, <2>1, <2>2, Exit_OutsideSaveSession DEF SaveRename
  <2>3. CASE tempFile # NoFile
    <3>e. "at" \in DOMAIN Ended(p, 0) /\ Ended(p, 0).at = "exited"
      BY DEF Ended
    <3>1. /\ process' = [q \in CliProcess |-> process'[q]]
          /\ process'[p] = Ended(p, 0)
          /\ \A q \in CliProcess \ {p} :
               /\ Stage(q, "write-temp") => process'[q] = [process[q] EXCEPT !.at = "write-cli"]
               /\ Stage(q, "write-cli") => process'[q] = [process[q] EXCEPT !.at = "write-lost"]
               /\ ~Stage(q, "write-temp") /\ ~Stage(q, "write-cli") => process'[q] = process[q]
      BY <1>7, <2>3 DEF SaveRename, Stage
    <3>2. \A q \in CliProcess : "at" \in DOMAIN process'[q]
      BY <3>e, <3>1 DEF CliInv, ProcessesStand
    <3>3. ProcessesStand'
      BY <3>1, <3>2 DEF ProcessesStand
    <3>4. ASSUME ~torn
          PROVE  /\ tempFile \notin {Blank, Mixed} /\ sessionFile' = tempFile
                 /\ \A q \in CliProcess \ {p} : process[q].at \notin Saving /\ process'[q] = process[q]
      BY <1>7, <2>1, <2>3, <3>1, <3>4 DEF SaveRename, CliInv, OneSaver, Saving, Stage
    <3>5. ~torn => OneSaver'
      BY <3>1, <3>4, <3>e DEF OneSaver, Saving
    <3> QED BY <2>1, <3>3, <3>4, <3>5 DEF CliInv, SessionFileWhole
  <2> QED BY <2>2, <2>3
<1>8. CASE UNCHANGED callVars
  BY <1>8 DEF callVars, CliInv, ProcessesStand, OneSaver, SessionFileWhole
<1> QED BY <1>1, <1>2, <1>3, <1>4, <1>5, <1>6, <1>7, <1>8 DEF CallsNext

\* A command killed at any point leaves a session file that can be read
\* (SessionFileWhole).
THEOREM SessionFileStaysWhole == CallsSpec => []SessionFileWhole
<1>1. CliInv => SessionFileWhole
  BY DEF CliInv
<1> QED BY <1>1, CliStarts, CliKept, PTL DEF CallsSpec

-----------------------------------------------------------------------------
(* What requests and commands may come to, from the tables of handlers,    *)
(* routes, methods and commands.                                           *)

Uses ==
  [writes : BOOLEAN, simulates : BOOLEAN, void : BOOLEAN, session : {"none", "login", "logout"}]

\* A handler that marks its replies as a dry run does not change anything then.
FlagObeyed(h) == Takes(h, {"dry", "mark", "flag"}) => ~h.use.writes \/ Simulated(h, TRUE)

\* The handlers that have no dry run, although they change something, and their routes.
Committers ==
  {"SortComicChildrenByName", "BatchSetArchiveChildrenBuiltInType", "GetLibraryRootNodeID",
   "UploadFile", "Init", "SignParts", "Renew", "Complete", "Abort", "RegisterUser",
   "AddProvider", "UpdateProvider", "DeleteProvider", "SetDefault", "UpdateRoutingRules", "Login"}
CommitPaths ==
  {<<"PATCH", "/nodes/:nodeId/comic/sort-by-name">>,
   <<"PATCH", "/nodes/:nodeId/archive/built-in-type/batch-set">>,
   <<"GET", "/nodes/library/:libraryId/root">>, <<"POST", "/files/upload">>,
   <<"POST", "/upload/init">>, <<"POST", "/upload/parts/sign">>,
   <<"POST", "/upload/:uploadId/renew">>, <<"POST", "/upload/complete">>,
   <<"DELETE", "/upload/:uploadId">>, <<"POST", "/user">>, <<"POST", "/storage/providers">>,
   <<"PUT", "/storage/providers/:alias">>, <<"DELETE", "/storage/providers/:alias">>,
   <<"PUT", "/storage/default">>, <<"PUT", "/storage/routing-rules">>, <<"POST", "/auth/login">>}

HandlerSound(n, h) ==
  /\ h.use \in Uses
  /\ FlagObeyed(h)
  /\ h.use.writes /\ ~Simulated(h, TRUE) => n \in Committers
  /\ n = "GetDirectChildren" => ~h.use.writes
TableSound(t) == \A n \in DOMAIN t : HandlerSound(n, t[n])

LEMMA TogetherIs ==
  ASSUME NEW S
  PROVE  /\ DOMAIN Together(S) = UNION {DOMAIN t : t \in S}
         /\ \A n \in DOMAIN Together(S) : \E t \in S : n \in DOMAIN t /\ Together(S)[n] = t[n]
BY DEF Together

Passes(takes) == \E i \in DOMAIN takes : takes[i] \in {"dry", "flag"}
Silent(takes) == \A i \in DOMAIN takes : takes[i] \notin {"dry", "mark", "flag"}

LEMMA TakesWithFlag ==
  /\ Passes(<<"dry", "json">>) /\ Passes(<<"dry", "uri">>) /\ Passes(<<"dry", "uri", "json">>)
  /\ Passes(<<"uri", "dry", "json">>) /\ Passes(<<"dry", "json", "field">>)
  /\ Passes(<<"dry", "uri", "json", "field">>) /\ Passes(<<"dry", "query", "own">>)
  /\ Passes(<<"query", "dry">>) /\ Passes(<<"flag", "form">>) /\ Passes(<<"flag", "json">>)
  /\ Passes(<<"flag", "json", "field">>) /\ Passes(<<"flag", "uri", "json">>)
BY DEF Passes

LEMMA TakesWithoutFlag ==
  /\ Silent(<<"uri">>) /\ Silent(<<"json">>) /\ Silent(<<"form">>) /\ Silent(<<"field">>)
  /\ Silent(<<"json", "field">>) /\ Silent(<<"field", "json">>)
BY DEF Silent

LEMMA UsesTyped ==
  /\ Reads \in Uses /\ Simulates \in Uses /\ SimulatesOrNothing \in Uses
  /\ Commits \in Uses /\ CommitsOrNothing \in Uses /\ LogsIn \in Uses /\ LogsOut \in Uses
  /\ ~Reads.writes
  /\ Simulates.simulates /\ SimulatesOrNothing.simulates /\ LogsOut.simulates
<1>1. /\ Reads \in Uses /\ Simulates \in Uses /\ SimulatesOrNothing \in Uses
      /\ Commits \in Uses /\ CommitsOrNothing \in Uses
      /\ ~Reads.writes /\ Simulates.simulates /\ SimulatesOrNothing.simulates
  BY DEF Uses, Use, Reads, Simulates, SimulatesOrNothing, Commits, CommitsOrNothing
<1>2. ASSUME NEW u \in Uses, NEW s \in {"none", "login", "logout"}
      PROVE  [u EXCEPT !.session = s] \in Uses /\ [u EXCEPT !.session = s].simulates = u.simulates
  BY DEF Uses
<1> QED BY <1>1, <1>2 DEF LogsIn, LogsOut

LEMMA ReadingSound ==
  ASSUME NEW takes, NEW n
  PROVE  HandlerSound(n, H(takes, Reads))
BY UsesTyped DEF HandlerSound, FlagObeyed, H

LEMMA SimulatingSound ==
  ASSUME NEW takes, Passes(takes), NEW n, n # "GetDirectChildren",
         NEW u \in {Simulates, SimulatesOrNothing, LogsOut}
  PROVE  HandlerSound(n, H(takes, u))
BY UsesTyped DEF HandlerSound, FlagObeyed, H, Simulated, Takes, Passes

LEMMA CommittingSound ==
  ASSUME NEW takes, Silent(takes), NEW n \in Committers,
         NEW u \in {Commits, CommitsOrNothing, LogsIn}
  PROVE  HandlerSound(n, H(takes, u))
BY UsesTyped DEF HandlerSound, FlagObeyed, H, Takes, Silent, Committers

LEMMA NodeHandlersSound ==
  \A t \in {CreateHandlers, CopyHandlers, DetailHandlers, MetadataHandlers, SearchHandlers,
            BatchRenameHandlers, NodeTagHandlers, RecycleHandlers, UpdateHandlers,
            SubtreeHandlers, QueryHandlers} : TableSound(t)
<1> USE TakesWithFlag, TakesWithoutFlag, ReadingSound, SimulatingSound, CommittingSound
    DEF TableSound
<1>1. TableSound(CreateHandlers) /\ TableSound(CopyHandlers) /\ TableSound(DetailHandlers)
      /\ TableSound(MetadataHandlers) /\ TableSound(SearchHandlers)
  BY DEF CreateHandlers, CopyHandlers, DetailHandlers, MetadataHandlers, SearchHandlers
<1>2. TableSound(BatchRenameHandlers) /\ TableSound(NodeTagHandlers)
  BY DEF BatchRenameHandlers, NodeTagHandlers
<1>3. TableSound(RecycleHandlers) /\ TableSound(UpdateHandlers)
  BY DEF RecycleHandlers, UpdateHandlers
<1>4. TableSound(SubtreeHandlers) /\ TableSound(QueryHandlers)
  BY DEF SubtreeHandlers, QueryHandlers, Committers
<1> QED BY <1>1, <1>2, <1>3, <1>4

LEMMA OtherHandlersSound ==
  \A t \in {AuthHandlers, BookmarkHandlers, BookmarkTreeHandlers, MappingHandlers,
            DirectoryHandlers, FileHandlers, HealthHandlers, LibraryHandlers, MigrationHandlers,
            MigrationReadHandlers, MonitorHandlers, ProviderHandlers, StorageDefaultHandlers,
            StorageTestHandlers, TagReadHandlers, TagHandlers, UploadHandlers, AccountHandlers,
            CurrentUserHandlers, PreferenceHandlers} : TableSound(t)
<1> USE TakesWithFlag, TakesWithoutFlag, ReadingSound, SimulatingSound, CommittingSound
    DEF TableSound
<1>1. TableSound(AuthHandlers) /\ TableSound(BookmarkHandlers) /\ TableSound(BookmarkTreeHandlers)
  BY DEF AuthHandlers, BookmarkHandlers, BookmarkTreeHandlers, Committers
<1>2. TableSound(MappingHandlers) /\ TableSound(DirectoryHandlers) /\ TableSound(FileHandlers)
  BY DEF MappingHandlers, DirectoryHandlers, FileHandlers, Committers
<1>3. TableSound(HealthHandlers) /\ TableSound(LibraryHandlers) /\ TableSound(MigrationHandlers)
  BY DEF HealthHandlers, LibraryHandlers, MigrationHandlers
<1>4. TableSound(MigrationReadHandlers) /\ TableSound(MonitorHandlers)
  BY DEF MigrationReadHandlers, MonitorHandlers
<1>5. TableSound(ProviderHandlers) /\ TableSound(StorageDefaultHandlers)
      /\ TableSound(StorageTestHandlers)
  BY DEF ProviderHandlers, StorageDefaultHandlers, StorageTestHandlers, Committers
<1>6. TableSound(TagReadHandlers) /\ TableSound(TagHandlers) /\ TableSound(UploadHandlers)
  BY DEF TagReadHandlers, TagHandlers, UploadHandlers, Committers
<1>7. TableSound(AccountHandlers) /\ TableSound(CurrentUserHandlers) /\ TableSound(PreferenceHandlers)
  BY DEF AccountHandlers, CurrentUserHandlers, PreferenceHandlers, Committers
<1> QED BY <1>1, <1>2, <1>3, <1>4, <1>5, <1>6, <1>7

\* A route has a handler, and is one of those above if that has no dry run.
RouteListed(r, tables) ==
  /\ r[3] \in UNION {DOMAIN t : t \in tables}
  /\ r[3] \in Committers => <<r[1], r[2]>> \in CommitPaths
  /\ r[2] = "/nodes/:nodeId/children" => r[3] = "GetDirectChildren"

RouteSound(r) ==
  /\ r[3].use \in Uses
  /\ FlagObeyed(r[3])
  /\ r[3].use.writes /\ ~Simulated(r[3], TRUE) => <<r[1], r[2]>> \in CommitPaths
  /\ r[2] = "/nodes/:nodeId/children" => ~r[3].use.writes

LEMMA ServesSound ==
  ASSUME NEW routes, NEW tables, \A t \in tables : TableSound(t),
         \A r \in routes : RouteListed(r, tables)
  PROVE  \A r \in Serves(routes, tables) : RouteSound(r)
<1> SUFFICES ASSUME NEW r \in routes
             PROVE  RouteSound(<<r[1], r[2], Together(tables)[r[3]]>>)
  BY DEF Serves
<1>1. HandlerSound(r[3], Together(tables)[r[3]])
  BY TogetherIs DEF RouteListed, TableSound
<1> QED BY <1>1 DEF RouteListed, RouteSound, HandlerSound

LEMMA NodeRoutesListed ==
  \A r \in NodeRoutes :
    RouteListed(r, {CreateHandlers, CopyHandlers, DetailHandlers, MetadataHandlers,
                    SearchHandlers, BatchRenameHandlers, NodeTagHandlers, RecycleHandlers,
                    UpdateHandlers, SubtreeHandlers, QueryHandlers})
<1> DEFINE tables == {CreateHandlers, CopyHandlers, DetailHandlers, MetadataHandlers,
                      SearchHandlers, BatchRenameHandlers, NodeTagHandlers, RecycleHandlers,
                      UpdateHandlers, SubtreeHandlers, QueryHandlers}
<1>1. \A r \in NodeRoutes : r[3] \in UNION {DOMAIN t : t \in tables}
  BY DEF NodeRoutes, CreateHandlers, CopyHandlers, DetailHandlers, MetadataHandlers,
         SearchHandlers, BatchRenameHandlers, NodeTagHandlers, RecycleHandlers,
         UpdateHandlers, SubtreeHandlers, QueryHandlers
<1>2. \A r \in NodeRoutes : /\ r[3] \in Committers => <<r[1], r[2]>> \in CommitPaths
                            /\ r[2] = "/nodes/:nodeId/children" => r[3] = "GetDirectChildren"
  BY DEF NodeRoutes, Committers, CommitPaths
<1> QED BY <1>1, <1>2 DEF RouteListed

\* What every reply to a request with these routes says is so.
LEMMA RoutesSound == \A r \in Routes : RouteSound(r)
<1> USE ServesSound, OtherHandlersSound DEF RouteListed, Committers, CommitPaths
<1>1. \A r \in Serves(NodeRoutes,
                      {CreateHandlers, CopyHandlers, DetailHandlers, MetadataHandlers,
                       SearchHandlers, BatchRenameHandlers, NodeTagHandlers, RecycleHandlers,
                       UpdateHandlers, SubtreeHandlers, QueryHandlers}) : RouteSound(r)
  BY NodeRoutesListed, NodeHandlersSound
<1>2. \A r \in Serves(AuthRoutes, {AuthHandlers}) : RouteSound(r)
  BY DEF AuthRoutes, AuthHandlers
<1>3. \A r \in Serves(BookmarkRoutes, {BookmarkHandlers, BookmarkTreeHandlers}) : RouteSound(r)
  BY DEF BookmarkRoutes, BookmarkHandlers, BookmarkTreeHandlers
<1>4. \A r \in Serves(MappingRoutes, {MappingHandlers}) : RouteSound(r)
  BY DEF MappingRoutes, MappingHandlers
<1>5. \A r \in Serves(DirectoryRoutes, {DirectoryHandlers}) : RouteSound(r)
  BY DEF DirectoryRoutes, DirectoryHandlers
<1>6. \A r \in Serves(FileRoutes, {FileHandlers}) : RouteSound(r)
  BY DEF FileRoutes, FileHandlers
<1>7. \A r \in Serves(HealthRoutes, {HealthHandlers}) : RouteSound(r)
  BY DEF HealthRoutes, HealthHandlers
<1>8. \A r \in Serves(LibraryRoutes, {LibraryHandlers}) : RouteSound(r)
  BY DEF LibraryRoutes, LibraryHandlers
<1>9. \A r \in Serves(MigrationRoutes, {MigrationHandlers, MigrationReadHandlers}) : RouteSound(r)
  BY DEF MigrationRoutes, MigrationHandlers, MigrationReadHandlers
<1>10. \A r \in Serves(MonitorRoutes, {MonitorHandlers}) : RouteSound(r)
  BY DEF MonitorRoutes, MonitorHandlers
<1>11. \A r \in Serves(StorageRoutes, {ProviderHandlers, StorageDefaultHandlers, StorageTestHandlers}) :
         RouteSound(r)
  BY DEF StorageRoutes, ProviderHandlers, StorageDefaultHandlers, StorageTestHandlers
<1>12. \A r \in Serves(TagRoutes, {TagReadHandlers, TagHandlers}) : RouteSound(r)
  BY DEF TagRoutes, TagReadHandlers, TagHandlers
<1>13. \A r \in Serves(UploadRoutes, {UploadHandlers}) : RouteSound(r)
  BY DEF UploadRoutes, UploadHandlers
<1>14. \A r \in Serves(UserRoutes, {AccountHandlers, CurrentUserHandlers, PreferenceHandlers}) :
         RouteSound(r)
  BY DEF UserRoutes, AccountHandlers, CurrentUserHandlers, PreferenceHandlers
<1>15. RouteSound(<<"GET", "/healthz", HealthHandlers.Check>>)
  BY ReadingSound DEF HealthHandlers, HandlerSound, RouteSound
<1> QED
  BY <1>1, <1>2, <1>3, <1>4, <1>5, <1>6, <1>7, <1>8, <1>9, <1>10, <1>11, <1>12, <1>13, <1>14,
     <1>15 DEF Routes

\* What a reply may say: it is marked only if nothing was done and a dry run asked
\* for, and a success of what writes has written unless one was asked for.
ReplyTrue(reply, writes, dry) ==
  /\ reply.marked = TRUE => reply.done = FALSE /\ dry
  /\ ~dry /\ writes /\ reply.ok = TRUE => reply.done = TRUE
CallTrue(call, dry) == \A reply \in call.replies : ReplyTrue(reply, call.writes, dry)
Harmless(call) == \A reply \in call.replies : reply.done = FALSE

LEMMA RefusalsAre ==
  ASSUME NEW h, NEW dry \in BOOLEAN, NEW reply \in Refusals(h, dry)
  PROVE  reply \in Reply /\ reply.ok = FALSE /\ reply.done = FALSE /\ (reply.marked = TRUE => dry)
<1> DEFINE read(i) == dry /\ \E j \in 1 .. i - 1 : h.takes[j] \in {"dry", "mark"}
<1>1. PICK i \in DOMAIN h.takes : reply = [ok |-> FALSE, done |-> FALSE, marked |-> read(i)]
  BY DEF Refusals
<1>2. read(i) \in BOOLEAN /\ (read(i) = TRUE => dry)
  OBVIOUS
<1> HIDE DEF read
<1> QED BY <1>1, <1>2 DEF Reply

LEMMA ResultsAre ==
  ASSUME NEW h, NEW dry \in BOOLEAN, NEW reply \in Results(h, dry)
  PROVE  /\ reply \in Reply
         /\ reply.done \in MayChange(h, dry) \cup {FALSE}
         /\ reply.ok = TRUE => reply.done \in MayChange(h, dry)
         /\ reply.marked = TRUE => dry /\ Takes(h, {"dry", "mark", "flag"})
<1> DEFINE says(parts) == dry /\ Takes(h, parts)
<1>1. PICK ok \in BOOLEAN, c \in MayChange(h, dry) \cup {FALSE},
           parts \in {{"dry", "mark", "flag"}, {"dry", "mark"}} :
        /\ reply = [ok |-> ok, done |-> c, marked |-> says(parts)]
        /\ ok = TRUE => c \in MayChange(h, dry)
  BY DEF Results
<1>2. MayChange(h, dry) \subseteq BOOLEAN
  BY DEF MayChange
<1>3. says(parts) \in BOOLEAN /\ (says(parts) = TRUE => dry /\ Takes(h, {"dry", "mark", "flag"}))
  BY DEF Takes
<1> HIDE DEF says
<1>4. reply.ok = ok /\ reply.done = c /\ reply.marked = says(parts)
  BY <1>1
<1>5. reply \in Reply
  BY <1>1, <1>2, <1>3 DEF Reply
<1> QED BY <1>1, <1>3, <1>4, <1>5

LEMMA RequestedTyped ==
  ASSUME NEW r, RouteSound(r), NEW dry \in BOOLEAN
  PROVE  Requested(r, dry) \in CliCall
<1> DEFINE open == <<r[1], r[2]>> \in IgnorePaths
           writes == r[3].use.writes /\ ~r[3].use.void
           session == IF Simulated(r[3], dry) THEN "none" ELSE r[3].use.session
           replies == Refusals(r[3], dry) \cup Results(r[3], dry)
<1>1. replies \subseteq Reply
  BY RefusalsAre, ResultsAre
<1>2. open \in BOOLEAN /\ writes \in BOOLEAN
  OBVIOUS
<1>3. session \in {"none", "login", "logout"}
  BY DEF RouteSound, Uses
<1>4. Requested(r, dry) = [open |-> open, session |-> session, writes |-> writes, replies |-> replies]
  BY DEF Requested
<1> HIDE DEF open, writes, session, replies
<1> QED BY <1>1, <1>2, <1>3, <1>4 DEF CliCall

LEMMA RepliesOf ==
  ASSUME NEW r, NEW dry
  PROVE  /\ Requested(r, dry).replies = Refusals(r[3], dry) \cup Results(r[3], dry)
         /\ Requested(r, dry).writes = (r[3].use.writes /\ ~r[3].use.void)
BY DEF Requested

LEMMA RequestedTrue ==
  ASSUME NEW r, RouteSound(r), NEW dry \in BOOLEAN, NEW asked \in BOOLEAN, asked => dry
  PROVE  CallTrue(Requested(r, asked), dry)
<1> SUFFICES ASSUME NEW reply \in Refusals(r[3], asked) \cup Results(r[3], asked)
             PROVE  ReplyTrue(reply, r[3].use.writes /\ ~r[3].use.void, dry)
  BY RepliesOf DEF CallTrue
<1>1. CASE reply \in Refusals(r[3], asked)
  BY <1>1, RefusalsAre DEF ReplyTrue
<1>2. CASE reply \in Results(r[3], asked)
  <2>1. asked /\ Takes(r[3], {"dry", "mark", "flag"}) => MayChange(r[3], asked) = {FALSE}
    BY DEF MayChange, RouteSound, FlagObeyed
  <2>2. ~asked /\ r[3].use.writes /\ ~r[3].use.void => MayChange(r[3], asked) = {TRUE}
    BY DEF MayChange, Simulated
  <2>3. /\ reply.done \in MayChange(r[3], asked) \cup {FALSE}
        /\ reply.ok = TRUE => reply.done \in MayChange(r[3], asked)
        /\ reply.marked = TRUE => asked /\ Takes(r[3], {"dry", "mark", "flag"})
    BY <1>2, ResultsAre
  <2>4. reply.marked = TRUE => reply.done = FALSE /\ dry
    BY <2>1, <2>3
  <2>5. ~dry /\ (r[3].use.writes /\ ~r[3].use.void) /\ reply.ok = TRUE => reply.done = TRUE
    BY <2>2, <2>3
  <2> QED BY <2>4, <2>5 DEF ReplyTrue
<1> QED BY <1>1, <1>2

LEMMA Idle ==
  ASSUME NEW r, NEW dry \in BOOLEAN, MayChange(r[3], dry) = {FALSE}
  PROVE  Harmless(Requested(r, dry))
<1> SUFFICES ASSUME NEW reply \in Refusals(r[3], dry) \cup Results(r[3], dry)
             PROVE  reply.done = FALSE
  BY RepliesOf DEF Harmless
<1>1. reply \in Refusals(r[3], dry) => reply.done = FALSE
  BY RefusalsAre
<1>2. reply \in Results(r[3], dry) => reply.done \in MayChange(r[3], dry) \cup {FALSE}
  BY ResultsAre
<1> QED BY <1>1, <1>2

\* The dry run of a route that has one, and a route that only reads, do nothing.
LEMMA DryRunSound ==
  ASSUME NEW r, RouteSound(r), <<r[1], r[2]>> \notin CommitPaths
  PROVE  Harmless(Requested(r, TRUE))
BY Idle DEF MayChange, RouteSound

LEMMA ReadingHarmless ==
  ASSUME NEW r, ~r[3].use.writes, NEW dry \in BOOLEAN
  PROVE  Harmless(Requested(r, dry))
BY Idle DEF MayChange

\* The methods that send the flag to a route with a dry run, and the other ones.
FlagMethods ==
  {"Logout", "CreateNode", "RenameNode", "UpdateNode", "MoveNodesBatch", "DeleteNodeTree",
   "ClearRecycleBin", "CreateBrowserFileMapping", "UpdateBrowserFileMapping",
   "DeleteBrowserFileMapping", "CreateBrowserBookmark", "UpdateBrowserBookmark",
   "MoveBrowserBookmark", "DeleteBrowserBookmark", "ImportBrowserBookmarks", "RestoreNodeTree",
   "HardDeleteNodeTree", "MigrationEnqueue", "MigrationCancelTask",
   "CaptureResourceMonitorSample", "CopyNode", "UpdateNodeTags", "RenameBatch",
   "WriteFileContent", "WriteFileContentIfExpected"}
OtherMethods ==
  {"Health", "Login", "AuthStatus", "WhoAmI", "ScrollLibraries", "GetLibraryRootNodeID",
   "ListChildren", "SearchNodes", "BatchSetArchiveChildrenBuiltInType", "ListRecycleBin",
   "ListBrowserFileMappings", "ResolveBrowserFileMapping", "ListBrowserBookmarksTree",
   "MatchBrowserBookmark", "MigrationListTasks", "MigrationGetTask", "MigrationListTaskItems",
   "StorageDistribution", "ReadNodeTags", "BrowseMetadata", "RenameBatchStatus"}

\* A route serves what a method asks for.
Served(m) == \E r \in Routes : r[1] = m.verb /\ r[2] = m.path

\* The routes that the methods ask for.
LEMMA RoutesAskedFor ==
  /\ <<"POST", "/auth/login", "Login">> \in AuthRoutes
  /\ <<"GET", "/auth/status", "Status">> \in AuthRoutes
  /\ <<"DELETE", "/auth/logout", "Logout">> \in AuthRoutes
  /\ <<"GET", "/user/me", "GetCurrentUser">> \in UserRoutes
  /\ <<"GET", "/libraries/scroll", "Scroll">> \in LibraryRoutes
  /\ <<"GET", "/nodes/library/:libraryId/root", "GetLibraryRootNodeID">> \in NodeRoutes
  /\ <<"GET", "/nodes/:nodeId/children", "GetDirectChildren">> \in NodeRoutes
  /\ <<"POST", "/nodes/search", "SearchNodes">> \in NodeRoutes
  /\ <<"POST", "/nodes", "CreateNode">> \in NodeRoutes
  /\ <<"PATCH", "/nodes/:nodeId/rename", "Rename">> \in NodeRoutes
  /\ <<"PUT", "/nodes/:nodeId", "UpdateNode">> \in NodeRoutes
  /\ <<"PATCH", "/nodes/move/batch", "MoveNodesBatch">> \in NodeRoutes
  /\ <<"PATCH", "/nodes/:nodeId/archive/built-in-type/batch-set", "BatchSetArchiveChildrenBuiltInType">> \in NodeRoutes
  /\ <<"DELETE", "/nodes/:nodeId/library/:libraryId", "DeleteNodeAndChildren">> \in NodeRoutes
  /\ <<"GET", "/nodes/recycle/library/:libraryId", "GetRecycleBinItems">> \in NodeRoutes
  /\ <<"DELETE", "/nodes/recycle/library/:libraryId/clear", "ClearRecycleBin">> \in NodeRoutes
  /\ <<"PATCH", "/nodes/:nodeId/library/:libraryId/restore", "RestoreNodeAndChildren">> \in NodeRoutes
  /\ <<"DELETE", "/nodes/:nodeId/library/:libraryId/hard", "HardDeleteNodeAndChildren">> \in NodeRoutes
  /\ <<"POST", "/nodes/:nodeId/copy", "CopyNode">> \in NodeRoutes
  /\ <<"PATCH", "/nodes/:nodeId/tags", "UpdateNodeTags">> \in NodeRoutes
  /\ <<"GET", "/nodes/:nodeId/tags", "ReadNodeTags">> \in NodeRoutes
  /\ <<"POST", "/nodes/metadata/query", "BrowseMetadata">> \in NodeRoutes
  /\ <<"POST", "/nodes/rename/batch/conditional", "RenameNodesConditional">> \in NodeRoutes
  /\ <<"GET", "/nodes/rename/batch/status", "RenameNodesStatus">> \in NodeRoutes
  /\ <<"GET", "/browser-file-mappings", "List">> \in MappingRoutes
  /\ <<"GET", "/browser-file-mappings/resolve", "Resolve">> \in MappingRoutes
  /\ <<"POST", "/browser-file-mappings", "Create">> \in MappingRoutes
  /\ <<"PUT", "/browser-file-mappings/:mappingId", "Update">> \in MappingRoutes
  /\ <<"DELETE", "/browser-file-mappings/:mappingId", "Delete">> \in MappingRoutes
  /\ <<"GET", "/browser-bookmarks/tree", "Tree">> \in BookmarkRoutes
  /\ <<"GET", "/browser-bookmarks/match", "Match">> \in BookmarkRoutes
  /\ <<"POST", "/browser-bookmarks", "Create">> \in BookmarkRoutes
  /\ <<"PUT", "/browser-bookmarks/:bookmarkId", "Update">> \in BookmarkRoutes
  /\ <<"PATCH", "/browser-bookmarks/:bookmarkId/move", "Move">> \in BookmarkRoutes
  /\ <<"DELETE", "/browser-bookmarks/:bookmarkId", "Delete">> \in BookmarkRoutes
  /\ <<"POST", "/browser-bookmarks/import", "Import">> \in BookmarkRoutes
  /\ <<"POST", "/migration/tasks", "EnqueueTask">> \in MigrationRoutes
  /\ <<"GET", "/migration/tasks", "ListTasks">> \in MigrationRoutes
  /\ <<"GET", "/migration/tasks/:id", "GetTask">> \in MigrationRoutes
  /\ <<"GET", "/migration/tasks/:id/items", "ListTaskItems">> \in MigrationRoutes
  /\ <<"POST", "/migration/tasks/:id/cancel", "CancelTask">> \in MigrationRoutes
  /\ <<"GET", "/libraries/:libraryId/storage-distribution", "StorageDistribution">> \in MigrationRoutes
  /\ <<"POST", "/resource-monitor/samples", "CaptureSample">> \in MonitorRoutes
  /\ <<"PUT", "/nodes/:nodeId/content", "UpdateFileContent">> \in DirectoryRoutes
  /\ <<"PUT", "/nodes/:nodeId/content/conditional", "UpdateFileContentConditional">> \in DirectoryRoutes
BY DEF AuthRoutes, UserRoutes, LibraryRoutes, NodeRoutes, MappingRoutes, BookmarkRoutes,
       MigrationRoutes, MonitorRoutes, DirectoryRoutes

LEMMA FileServes ==
  ASSUME NEW routes, NEW tables, Serves(routes, tables) \subseteq Routes, NEW r \in routes,
         NEW m, m.verb = r[1], m.path = r[2]
  PROVE  Served(m)
<1>1. <<r[1], r[2], Together(tables)[r[3]]>> \in Routes
  BY DEF Serves
<1> QED BY <1>1 DEF Served

LEMMA RoutesServe ==
  /\ \A r \in NodeRoutes \cup AuthRoutes \cup BookmarkRoutes \cup MappingRoutes
              \cup DirectoryRoutes \cup LibraryRoutes \cup MigrationRoutes \cup MonitorRoutes
              \cup UserRoutes :
       /\ Served(Sends(r[1], r[2])) /\ Served(SendsDry(r[1], r[2]))
       /\ Served(Anonymous(r[1], r[2]))
  /\ Served(Anonymous("GET", "/healthz"))
<1>1. \A v, p : /\ Sends(v, p).verb = v /\ Sends(v, p).path = p
                /\ SendsDry(v, p).verb = v /\ SendsDry(v, p).path = p
                /\ Anonymous(v, p).verb = v /\ Anonymous(v, p).path = p
  BY DEF Sends, SendsDry, Anonymous
<1>2. ASSUME NEW r \in NodeRoutes \cup AuthRoutes \cup BookmarkRoutes \cup MappingRoutes
              \cup DirectoryRoutes \cup LibraryRoutes \cup MigrationRoutes \cup MonitorRoutes
              \cup UserRoutes,
             NEW m, m.verb = r[1], m.path = r[2]
      PROVE  Served(m)
  <2>1. PICK routes, tables : r \in routes /\ Serves(routes, tables) \subseteq Routes
    BY DEF Routes
  <2> QED BY <2>1, <1>2, FileServes
<1>3. <<"GET", "/healthz", HealthHandlers.Check>> \in Routes
  BY DEF Routes
<1>4. Served(Anonymous("GET", "/healthz"))
  BY <1>1, <1>3 DEF Served
<1> QED BY <1>1, <1>2, <1>4

LEMMA MethodsServed ==
  \A t \in {SessionMethods, NodeMethods, RecycleMethods, MappingMethods, BookmarkMethods,
            RestoreMethods, MigrationMethods, CopyMethod, TagMethods, MetadataMethod,
            BatchRenameMethods, WriteMethods} : \A n \in DOMAIN t : Served(t[n])
<1>1. ASSUME NEW v, NEW p, NEW h,
             \/ <<v, p, h>> \in NodeRoutes \/ <<v, p, h>> \in AuthRoutes
             \/ <<v, p, h>> \in BookmarkRoutes \/ <<v, p, h>> \in MappingRoutes
             \/ <<v, p, h>> \in DirectoryRoutes \/ <<v, p, h>> \in LibraryRoutes
             \/ <<v, p, h>> \in MigrationRoutes \/ <<v, p, h>> \in MonitorRoutes
             \/ <<v, p, h>> \in UserRoutes
      PROVE  Served(Sends(v, p)) /\ Served(SendsDry(v, p)) /\ Served(Anonymous(v, p))
  BY <1>1, RoutesServe
<1>2. \A n \in DOMAIN SessionMethods : Served(SessionMethods[n])
  BY <1>1, RoutesAskedFor, RoutesServe DEF SessionMethods
<1>3. \A n \in DOMAIN NodeMethods : Served(NodeMethods[n])
  BY <1>1, RoutesAskedFor DEF NodeMethods
<1>4. /\ \A n \in DOMAIN RecycleMethods : Served(RecycleMethods[n])
      /\ \A n \in DOMAIN MappingMethods : Served(MappingMethods[n])
  BY <1>1, RoutesAskedFor DEF RecycleMethods, MappingMethods
<1>5. /\ \A n \in DOMAIN BookmarkMethods : Served(BookmarkMethods[n])
      /\ \A n \in DOMAIN RestoreMethods : Served(RestoreMethods[n])
  BY <1>1, RoutesAskedFor DEF BookmarkMethods, RestoreMethods
<1>6. /\ \A n \in DOMAIN MigrationMethods : Served(MigrationMethods[n])
      /\ \A n \in DOMAIN CopyMethod : Served(CopyMethod[n])
      /\ \A n \in DOMAIN TagMethods : Served(TagMethods[n])
  BY <1>1, RoutesAskedFor DEF MigrationMethods, CopyMethod, TagMethods
<1>7. /\ \A n \in DOMAIN MetadataMethod : Served(MetadataMethod[n])
      /\ \A n \in DOMAIN BatchRenameMethods : Served(BatchRenameMethods[n])
      /\ \A n \in DOMAIN WriteMethods : Served(WriteMethods[n])
  BY <1>1, RoutesAskedFor DEF MetadataMethod, BatchRenameMethods, WriteMethods
<1> QED BY <1>2, <1>3, <1>4, <1>5, <1>6, <1>7

\* A method that sends the flag sends it to a route with a dry run.
FlagSound(n, m) ==
  /\ n \in FlagMethods => m.dry = TRUE /\ <<m.verb, m.path>> \notin CommitPaths
  /\ n = "ListChildren" => m.path = "/nodes/:nodeId/children"

LEMMA FlagsSound ==
  \A t \in {SessionMethods, NodeMethods, RecycleMethods, MappingMethods, BookmarkMethods,
            RestoreMethods, MigrationMethods, CopyMethod, TagMethods, MetadataMethod,
            BatchRenameMethods, WriteMethods} : \A n \in DOMAIN t : FlagSound(n, t[n])
<1>1. ASSUME NEW n, n # "ListChildren", NEW v, NEW p, <<v, p>> \notin CommitPaths
      PROVE  FlagSound(n, SendsDry(v, p))
  BY <1>1 DEF FlagSound, SendsDry
<1>2. ASSUME NEW n, n \notin FlagMethods \cup {"ListChildren"}, NEW m
      PROVE  FlagSound(n, m)
  BY <1>2 DEF FlagSound
<1>3. FlagSound("ListChildren", Sends("GET", "/nodes/:nodeId/children"))
  BY DEF FlagSound, FlagMethods, Sends
<1> USE <1>1, <1>2, <1>3 DEF FlagMethods, CommitPaths
<1>4. \A n \in DOMAIN SessionMethods : FlagSound(n, SessionMethods[n])
  BY DEF SessionMethods
<1>5. \A n \in DOMAIN NodeMethods : FlagSound(n, NodeMethods[n])
  BY DEF NodeMethods
<1>6. /\ \A n \in DOMAIN RecycleMethods : FlagSound(n, RecycleMethods[n])
      /\ \A n \in DOMAIN MappingMethods : FlagSound(n, MappingMethods[n])
  BY DEF RecycleMethods, MappingMethods
<1>7. /\ \A n \in DOMAIN BookmarkMethods : FlagSound(n, BookmarkMethods[n])
      /\ \A n \in DOMAIN RestoreMethods : FlagSound(n, RestoreMethods[n])
  BY DEF BookmarkMethods, RestoreMethods
<1>8. /\ \A n \in DOMAIN MigrationMethods : FlagSound(n, MigrationMethods[n])
      /\ \A n \in DOMAIN CopyMethod : FlagSound(n, CopyMethod[n])
      /\ \A n \in DOMAIN TagMethods : FlagSound(n, TagMethods[n])
  BY DEF MigrationMethods, CopyMethod, TagMethods
<1>9. /\ \A n \in DOMAIN MetadataMethod : FlagSound(n, MetadataMethod[n])
      /\ \A n \in DOMAIN BatchRenameMethods : FlagSound(n, BatchRenameMethods[n])
      /\ \A n \in DOMAIN WriteMethods : FlagSound(n, WriteMethods[n])
  BY DEF MetadataMethod, BatchRenameMethods, WriteMethods
<1> QED BY <1>4, <1>5, <1>6, <1>7, <1>8, <1>9

LEMMA MethodsSound ==
  /\ FlagMethods \cup OtherMethods \subseteq DOMAIN Methods
  /\ \A n \in DOMAIN Methods : Served(Methods[n]) /\ FlagSound(n, Methods[n])
<1> DEFINE tables == {SessionMethods, NodeMethods, RecycleMethods, MappingMethods, BookmarkMethods,
                      RestoreMethods, MigrationMethods, CopyMethod, TagMethods, MetadataMethod,
                      BatchRenameMethods, WriteMethods}
<1>1. FlagMethods \cup OtherMethods \subseteq UNION {DOMAIN t : t \in tables}
  BY DEF FlagMethods, OtherMethods, SessionMethods, NodeMethods, RecycleMethods, MappingMethods,
         BookmarkMethods, RestoreMethods, MigrationMethods, CopyMethod, TagMethods, MetadataMethod,
         BatchRenameMethods, WriteMethods
<1>2. Methods = Together(tables)
  BY DEF Methods
<1>3. \A t \in tables : \A n \in DOMAIN t : Served(t[n]) /\ FlagSound(n, t[n])
  BY MethodsServed, FlagsSound
<1> HIDE DEF tables
<1> QED BY <1>1, <1>2, <1>3, TogetherIs

\* What a command calls, and what it may call if it accepts --dry-run.
Steps == FlagMethods \cup OtherMethods \cup {"missing"}
DrySteps == FlagMethods \cup DryRunGaps \cup {"ListChildren", "missing"}

CommandSound(c) ==
  /\ c.dry \in BOOLEAN
  /\ c.calls \subseteq Seq(Steps)
  /\ c.dry = TRUE => c.calls \subseteq Seq(DrySteps)

LEMMA DryStepsAreSteps == DrySteps \subseteq Steps /\ Seq(DrySteps) \subseteq Seq(Steps)
<1>1. DrySteps \subseteq Steps
  BY DEF DrySteps, Steps, DryRunGaps, OtherMethods
<1> QED BY <1>1

LEMMA OneCall ==
  ASSUME NEW m
  PROVE  /\ m \in Steps => CommandSound(Reading(m))
         /\ m \in DrySteps => CommandSound(Writing(m))
<1>1. m \in Steps => <<m>> \in Seq(Steps)
  OBVIOUS
<1>2. m \in DrySteps => <<m>> \in Seq(DrySteps)
  OBVIOUS
<1> QED BY <1>1, <1>2, DryStepsAreSteps DEF CommandSound, Reading, Writing, Command

\* Two walks, one after the other.
TwoPaths == {v \o w : v, w \in resolveNodeByPath}

LEMMA WalksSound ==
  /\ resolveNodeByPath \subseteq Seq(DrySteps) /\ LostPath \subseteq Seq(DrySteps)
  /\ TwoPaths \subseteq Seq(DrySteps)
  /\ \A W \in SUBSET Seq(DrySteps), m \in DrySteps : Then(W, m) \subseteq Seq(DrySteps)
<1>1. {"GetLibraryRootNodeID", "ListChildren", "missing"} \subseteq DrySteps
  BY DEF DrySteps, DryRunGaps
<1>2. resolveNodeByPath \subseteq Seq(DrySteps) /\ LostPath \subseteq Seq(DrySteps)
  BY <1>1 DEF resolveNodeByPath, LostPath
<1>3. \A v, w \in Seq(DrySteps) : v \o w \in Seq(DrySteps)
  OBVIOUS
<1>5. TwoPaths \subseteq Seq(DrySteps)
  <2> SUFFICES ASSUME NEW s \in TwoPaths PROVE s \in Seq(DrySteps)
    OBVIOUS
  <2>1. PICK v \in resolveNodeByPath, w \in resolveNodeByPath : s = v \o w
    BY DEF TwoPaths
  <2> QED BY <2>1, <1>2, <1>3
<1>4. ASSUME NEW W \in SUBSET Seq(DrySteps), NEW m \in DrySteps
      PROVE  Then(W, m) \subseteq Seq(DrySteps)
  <2>1. <<m>> \in Seq(DrySteps) /\ <<>> \in Seq(DrySteps)
    OBVIOUS
  <2>2. \A w \in W \cup {<<>>} : w \in Seq(DrySteps)
    BY <2>1
  <2> QED BY <2>1, <2>2, <1>3 DEF Then
<1> QED BY <1>2, <1>4, <1>5

LEMMA WalkingCommandsSound ==
  /\ \A n \in DOMAIN createCommands : CommandSound(createCommands[n])
  /\ \A n \in DOMAIN moveCommands : CommandSound(moveCommands[n])
  /\ \A n \in DOMAIN removeCommands : CommandSound(removeCommands[n])
  /\ \A n \in DOMAIN pathCommands : CommandSound(pathCommands[n])
<1> DEFINE walks == resolveNodeByPath \cup TwoPaths
           mkdirs == Then(resolveNodeByPath, "CreateNode") \cup LostPath
           moves == Then(walks, "MoveNodesBatch") \cup LostPath
           removes == Then(resolveNodeByPath, "DeleteNodeTree") \cup LostPath
           resolves == resolveNodeByPath \cup LostPath
<1>1. /\ mkdirs \subseteq Seq(DrySteps) /\ moves \subseteq Seq(DrySteps)
      /\ removes \subseteq Seq(DrySteps) /\ resolves \subseteq Seq(DrySteps)
  <2>1. {"CreateNode", "MoveNodesBatch", "DeleteNodeTree"} \subseteq DrySteps
    BY DEF DrySteps, FlagMethods
  <2>2. walks \in SUBSET Seq(DrySteps)
    BY WalksSound
  <2> HIDE DEF walks
  <2> QED BY <2>1, <2>2, WalksSound
<1>2. /\ createCommands = [runFSMkdir |-> Command(TRUE, mkdirs)]
      /\ moveCommands = [runFSMove |-> Command(TRUE, moves)]
      /\ removeCommands = [runFSRemove |-> Command(TRUE, removes)]
      /\ pathCommands = [runFSPathResolve |-> Command(FALSE, resolves)]
  BY DEF createCommands, moveCommands, removeCommands, pathCommands, TwoPaths
<1> HIDE DEF mkdirs, moves, removes, resolves
<1>3. /\ CommandSound(Command(TRUE, mkdirs)) /\ CommandSound(Command(TRUE, moves))
      /\ CommandSound(Command(TRUE, removes)) /\ CommandSound(Command(FALSE, resolves))
  BY <1>1, DryStepsAreSteps DEF CommandSound, Command
<1> DEFINE mkdir == Command(TRUE, mkdirs)
           move == Command(TRUE, moves)
           remove == Command(TRUE, removes)
           resolve == Command(FALSE, resolves)
<1>4. /\ createCommands = [runFSMkdir |-> mkdir] /\ moveCommands = [runFSMove |-> move]
      /\ removeCommands = [runFSRemove |-> remove] /\ pathCommands = [runFSPathResolve |-> resolve]
  BY <1>2
<1>5. CommandSound(mkdir) /\ CommandSound(move) /\ CommandSound(remove) /\ CommandSound(resolve)
  BY <1>3
<1> HIDE DEF mkdir, move, remove, resolve
<1> QED BY ONLY <1>4, <1>5

LEMMA CommandsSound ==
  \A n \in DOMAIN Commands : CommandSound(Commands[n])
<1> DEFINE tables == {authCommands, configCommands, healthCommands, libCommands, createCommands,
                      editCommands, moveCommands, removeCommands, recycleCommands,
                      restoreCommands, archiveCommands, pathCommands, listCommands, copyCommands,
                      writeCommands, tagCommands, metadataCommands, renameBatchCommands,
                      monitorCommands, migrateCommands, migrationCommands, mapReadCommands,
                      mapCommands, bookmarkCommands, bookmarkEditCommands, bookmarkTreeCommands}
           Sound(t) == \A n \in DOMAIN t : CommandSound(t[n])
<1> USE OneCall DEF Steps, DrySteps, FlagMethods, OtherMethods, DryRunGaps
<1>1. Sound(authCommands) /\ Sound(healthCommands) /\ Sound(libCommands) /\ Sound(editCommands)
  BY DEF authCommands, healthCommands, libCommands, editCommands
<1>2. Sound(configCommands)
  <2> DEFINE shown == Command(FALSE, {<<>>})
  <2>1. CommandSound(shown)
    BY DEF CommandSound, Command
  <2>2. configCommands = [runConfigShow |-> shown]
    BY DEF configCommands
  <2> HIDE DEF shown
  <2> QED BY <2>1, <2>2
<1>3. Sound(recycleCommands) /\ Sound(restoreCommands) /\ Sound(archiveCommands)
      /\ Sound(listCommands) /\ Sound(copyCommands)
  BY DEF recycleCommands, restoreCommands, archiveCommands, listCommands, copyCommands
<1>4. Sound(writeCommands)
  <2>1. {<<"WriteFileContent">>, <<"WriteFileContentIfExpected">>} \subseteq Seq(DrySteps)
    OBVIOUS
  <2> DEFINE written == Command(TRUE, {<<"WriteFileContent">>, <<"WriteFileContentIfExpected">>})
  <2>2. CommandSound(written)
    BY <2>1, DryStepsAreSteps DEF CommandSound, Command
  <2>3. writeCommands = [runFSWrite |-> written]
    BY DEF writeCommands
  <2> HIDE DEF written
  <2> QED BY <2>2, <2>3
<1>5. Sound(tagCommands) /\ Sound(metadataCommands) /\ Sound(renameBatchCommands)
      /\ Sound(monitorCommands) /\ Sound(migrateCommands)
  BY DEF tagCommands, metadataCommands, renameBatchCommands, monitorCommands, migrateCommands
<1>6. Sound(migrationCommands)
  <2>1. {<<"MigrationGetTask">>, <<"MigrationGetTask", "MigrationListTaskItems">>} \subseteq Seq(Steps)
    OBVIOUS
  <2> DEFINE status == Command(FALSE, {<<"MigrationGetTask">>,
                                       <<"MigrationGetTask", "MigrationListTaskItems">>})
  <2>2. CommandSound(status)
    BY <2>1 DEF CommandSound, Command
  <2>3. migrationCommands = [runMigrationStatus |-> status,
                             runMigrationCancel |-> Writing("MigrationCancelTask"),
                             runStorageDistribution |-> Reading("StorageDistribution")]
    BY DEF migrationCommands
  <2> HIDE DEF status
  <2> QED BY <2>2, <2>3
<1>7. Sound(mapReadCommands) /\ Sound(mapCommands) /\ Sound(bookmarkCommands)
      /\ Sound(bookmarkEditCommands) /\ Sound(bookmarkTreeCommands)
  BY DEF mapReadCommands, mapCommands, bookmarkCommands, bookmarkEditCommands, bookmarkTreeCommands
<1>8. \A t \in tables : Sound(t)
  BY <1>1, <1>2, <1>3, <1>4, <1>5, <1>6, <1>7, WalkingCommandsSound
<1>9. Commands = Together(tables)
  BY DEF Commands
<1> HIDE DEF tables
<1> QED BY <1>8, <1>9, TogetherIs

\* The functions that run the commands.
CommandNames ==
  {"runHealth", "runAuthLogin", "runAuthStatus", "runAuthWhoAmI", "runAuthLogout",
   "runLibraryList", "runFSMkdir", "runFSWrite", "runFSRename", "runFSRenameBatch",
   "runFSRenameStatus", "runFSTags", "runFSTagsUpdate", "runFSConfigure", "runFSCopy",
   "runFSMove", "runFSRemove", "runFSList", "runFSSearch", "runFSBrowse",
   "runFSArchiveBatchSetBuiltInType", "runFSRecycleList", "runFSRecycleClear",
   "runFSRecycleRestore", "runFSRecycleHardDelete", "runFSPathResolve", "runConfigShow",
   "runBrowserMapList", "runBrowserMapResolve", "runBrowserMapCreate",
   "runBrowserMapUpdate", "runBrowserMapDelete", "runBrowserBookmarkTree",
   "runBrowserBookmarkMatch", "runBrowserBookmarkCreate", "runBrowserBookmarkUpdate",
   "runBrowserBookmarkMove", "runBrowserBookmarkDelete", "runBrowserBookmarkImport",
   "runResourceMonitorSample", "runStorageMigrate", "runStorageDistribution",
   "runMigrationList", "runMigrationStatus", "runMigrationCancel"}

LEMMA TreeRunsCommands == \A leaf \in buildCommandTree : leaf[2] \in DOMAIN Commands
<1> DEFINE tables == {authCommands, configCommands, healthCommands, libCommands, createCommands,
                      editCommands, moveCommands, removeCommands, recycleCommands,
                      restoreCommands, archiveCommands, pathCommands, listCommands, copyCommands,
                      writeCommands, tagCommands, metadataCommands, renameBatchCommands,
                      monitorCommands, migrateCommands, migrationCommands, mapReadCommands,
                      mapCommands, bookmarkCommands, bookmarkEditCommands, bookmarkTreeCommands}
<1>1. CommandNames \subseteq UNION {DOMAIN t : t \in tables}
  BY DEF CommandNames, authCommands, configCommands, healthCommands, libCommands, createCommands,
         editCommands, moveCommands, removeCommands, recycleCommands, restoreCommands,
         archiveCommands, pathCommands, listCommands, copyCommands, writeCommands, tagCommands,
         metadataCommands, renameBatchCommands, monitorCommands, migrateCommands,
         migrationCommands, mapReadCommands, mapCommands, bookmarkCommands,
         bookmarkEditCommands, bookmarkTreeCommands
<1>2. \A leaf \in buildCommandTree : leaf[2] \in CommandNames
  <2> DEFINE Named(tree) == \A leaf \in tree : \E w : \E n \in CommandNames : \E d \in BOOLEAN :
                                                  leaf = <<w, n, d>>
  <2>1. Named(rootTree) /\ Named(authTree) /\ Named(libTree) /\ Named(configTree)
    BY Zenon DEF rootTree, authTree, libTree, configTree, CommandNames
  <2>2. Named(fsEditTree)
    BY Zenon DEF fsEditTree, CommandNames
  <2>3. Named(fsTree) /\ Named(archiveTree)
    BY Zenon DEF fsTree, archiveTree, CommandNames
  <2>4. Named(recycleTree) /\ Named(pathTree) /\ Named(monitorTree)
    BY Zenon DEF recycleTree, pathTree, monitorTree, CommandNames
  <2>5. Named(mapTree) /\ Named(storageTree) /\ Named(migrationTree)
    BY Zenon DEF mapTree, storageTree, migrationTree, CommandNames
  <2>6. Named(bookmarkTree)
    BY Zenon DEF bookmarkTree, CommandNames
  <2>7. Named(buildCommandTree)
    BY <2>1, <2>2, <2>3, <2>4, <2>5, <2>6, Zenon DEF buildCommandTree
  <2>8. \A n \in CommandNames : \A w : \A d \in BOOLEAN : <<w, n, d>>[2] \in CommandNames
    OBVIOUS
  <2> QED BY <2>7, <2>8, Zenon
<1>3. Commands = Together(tables)
  BY DEF Commands
<1> HIDE DEF tables
<1> QED BY <1>1, <1>2, <1>3, TogetherIs

\* The route that a method asks for.
LEMMA AskedSound ==
  ASSUME NEW n \in DOMAIN Methods
  PROVE  /\ RouteSound(Asked(Methods[n]))
         /\ Asked(Methods[n])[1] = Methods[n].verb /\ Asked(Methods[n])[2] = Methods[n].path
<1> DEFINE m == Methods[n]
<1>1. \E r \in Routes : r[1] = m.verb /\ r[2] = m.path
  BY MethodsSound DEF Served
<1>2. Asked(m) \in Routes /\ Asked(m)[1] = m.verb /\ Asked(m)[2] = m.path
  BY <1>1 DEF Asked
<1> QED BY <1>2, RoutesSound

\* A step of a command, as Requests has it.
Step(n, dry) ==
  IF n = "missing" THEN Missing
  ELSE [Requested(Asked(Methods[n]), dry /\ Methods[n].dry) EXCEPT !.open = @ /\ ~Methods[n].session]

LEMMA RequestsAre ==
  ASSUME NEW s, NEW dry
  PROVE  DOMAIN Requests(s, dry) = DOMAIN s
         /\ \A i \in DOMAIN s : Requests(s, dry)[i] = Step(s[i], dry)
BY DEF Requests, Step

LEMMA MissingSound == Missing \in CliCall /\ Harmless(Missing) /\ \A dry \in BOOLEAN : CallTrue(Missing, dry)
<1>1. Unauthorized \in Reply /\ Unauthorized.ok = FALSE /\ Unauthorized.done = FALSE
      /\ Unauthorized.marked = FALSE
  BY DEF Unauthorized, Reply
<1>2. Missing.replies = {Unauthorized}
  BY DEF Missing
<1>3. Missing \in CliCall
  BY <1>1 DEF Missing, CliCall
<1> QED BY <1>1, <1>2, <1>3 DEF Harmless, CallTrue, ReplyTrue

LEMMA OpenSound ==
  ASSUME NEW call \in CliCall, NEW open \in BOOLEAN
  PROVE  LET c == [call EXCEPT !.open = open]
         IN c \in CliCall /\ c.replies = call.replies /\ c.writes = call.writes
BY DEF CliCall

LEMMA StepIs ==
  ASSUME NEW n \in DOMAIN Methods, n # "missing", NEW dry
  PROVE  LET call == Requested(Asked(Methods[n]), dry /\ Methods[n].dry)
         IN /\ Step(n, dry) \in CliCall
            /\ Step(n, dry).replies = call.replies /\ Step(n, dry).writes = call.writes
<1> DEFINE asked == dry /\ Methods[n].dry
           call == Requested(Asked(Methods[n]), asked)
           open == call.open /\ ~Methods[n].session
<1>1. asked \in BOOLEAN /\ open \in BOOLEAN
  OBVIOUS
<1>2. call \in CliCall
  BY <1>1, AskedSound, RequestedTyped
<1>3. Step(n, dry) = [call EXCEPT !.open = open]
  BY Zenon DEF Step
<1> HIDE DEF call, open
<1> QED BY <1>1, <1>2, <1>3, OpenSound DEF call

LEMMA StepSound ==
  ASSUME NEW n \in Steps, NEW dry \in BOOLEAN
  PROVE  Step(n, dry) \in CliCall /\ CallTrue(Step(n, dry), dry)
<1>1. CASE n = "missing"
  BY <1>1, MissingSound DEF Step
<1>2. CASE n # "missing"
  <2>1. n \in DOMAIN Methods
    BY <1>2, MethodsSound DEF Steps
  <2> DEFINE asked == dry /\ Methods[n].dry
             call == Requested(Asked(Methods[n]), asked)
  <2>2. asked \in BOOLEAN /\ (asked => dry)
    OBVIOUS
  <2>3. CallTrue(call, dry)
    <3> HIDE DEF asked
    <3> QED BY <2>1, <2>2, AskedSound, RequestedTrue
  <2>4. /\ Step(n, dry) \in CliCall
        /\ Step(n, dry).replies = call.replies /\ Step(n, dry).writes = call.writes
    BY <1>2, <2>1, StepIs
  <2> HIDE DEF call
  <2> QED BY <2>3, <2>4 DEF CallTrue
<1> QED BY <1>1, <1>2

LEMMA DryStepHarmless ==
  ASSUME NEW n \in DrySteps, n \notin DryRunGaps
  PROVE  Harmless(Step(n, TRUE))
<1>1. CASE n = "missing"
  BY <1>1, MissingSound DEF Step
<1>2. CASE n \in FlagMethods \cup {"ListChildren"}
  <2>1. n \in DOMAIN Methods /\ n # "missing"
    BY <1>2, MethodsSound DEF OtherMethods, FlagMethods
  <2> DEFINE asked == TRUE /\ Methods[n].dry
             r == Asked(Methods[n])
  <2>2. asked \in BOOLEAN /\ RouteSound(r)
    BY <2>1, AskedSound
  <2>3. Harmless(Requested(r, asked))
    <3>1. CASE n \in FlagMethods
      <4>1. asked = TRUE /\ <<r[1], r[2]>> \notin CommitPaths
        BY <3>1, <2>1, AskedSound, MethodsSound DEF FlagSound
      <4> HIDE DEF asked, r
      <4> QED BY <2>2, <4>1, DryRunSound
    <3>2. CASE n = "ListChildren"
      <4>1. r[2] = "/nodes/:nodeId/children"
        BY <3>2, <2>1, AskedSound, MethodsSound DEF FlagSound
      <4> HIDE DEF asked, r
      <4> QED BY <2>2, <4>1, ReadingHarmless DEF RouteSound
    <3> QED BY <1>2, <3>1, <3>2
  <2>4. Step(n, TRUE).replies = Requested(r, asked).replies
    BY <2>1, StepIs
  <2> HIDE DEF asked, r
  <2> QED BY <2>3, <2>4 DEF Harmless
<1> QED BY <1>1, <1>2 DEF DrySteps

\* What holds of a line of the command line, and of a request of another client.
LineSound(line) ==
  /\ line.dry \in BOOLEAN
  /\ line.calls \in Seq(CliCall)
  /\ \A i \in DOMAIN line.calls : CallTrue(line.calls[i], line.dry)
  /\ line.dry /\ line.command /\ line.gap = {} => \A i \in DOMAIN line.calls : Harmless(line.calls[i])

LEMMA RequestsSound ==
  ASSUME NEW s \in Seq(Steps), NEW dry \in BOOLEAN
  PROVE  Requests(s, dry) \in Seq(CliCall) /\ \A i \in DOMAIN s : CallTrue(Requests(s, dry)[i], dry)
<1>1. \A i \in DOMAIN s : s[i] \in Steps
  OBVIOUS
<1>2. \A i \in DOMAIN s : Requests(s, dry)[i] \in CliCall /\ CallTrue(Requests(s, dry)[i], dry)
  BY <1>1, RequestsAre, StepSound
<1> DEFINE R == Requests(s, dry)
<1>3. R = [i \in DOMAIN R |-> R[i]]
  BY Zenon DEF Requests
<1>4. DOMAIN R = 1 .. Len(s) /\ Len(s) \in Nat /\ \A i \in 1 .. Len(s) : R[i] \in CliCall
  BY <1>2, RequestsAre
<1> HIDE DEF R
<1>5. R \in Seq(CliCall)
  BY <1>3, <1>4
<1> QED BY <1>2, <1>5 DEF R

LEMMA DryRequestsHarmless ==
  ASSUME NEW s \in Seq(DrySteps), {s[i] : i \in DOMAIN s} \cap DryRunGaps = {}
  PROVE  \A i \in DOMAIN s : Harmless(Requests(s, TRUE)[i])
<1> SUFFICES ASSUME NEW i \in DOMAIN s PROVE Harmless(Requests(s, TRUE)[i])
  OBVIOUS
<1>1. s[i] \in DrySteps /\ s[i] \notin DryRunGaps
  OBVIOUS
<1>2. Requests(s, TRUE)[i] = Step(s[i], TRUE)
  BY RequestsAre
<1> HIDE DEF Step, Requests
<1> QED BY <1>1, <1>2, DryStepHarmless

LEMMA TypedSound ==
  ASSUME NEW leaf \in buildCommandTree, NEW dry \in BOOLEAN, NEW line \in Typed(leaf, dry)
  PROVE  LineSound(line)
<1> DEFINE c == Commands[leaf[2]]
<1>1. CommandSound(c)
  BY TreeRunsCommands, CommandsSound
<1>2. PICK s \in c.calls :
        line = [calls |-> IF dry /\ ~c.dry THEN <<Missing>> ELSE Requests(s, dry),
                command |-> TRUE, dry |-> dry,
                saves |-> leaf[2] \in {"runAuthLogin", "runAuthLogout"} /\ ~dry,
                gap |-> {s[i] : i \in DOMAIN s} \cap DryRunGaps]
  BY DEF Typed
<1>3. s \in Seq(Steps) /\ (c.dry = TRUE => s \in Seq(DrySteps))
  BY <1>1 DEF CommandSound
<1> DEFINE refused == dry /\ ~c.dry
           gap == {s[i] : i \in DOMAIN s} \cap DryRunGaps
           R == Requests(s, dry)
<1>4. /\ line.dry = dry /\ line.gap = gap
      /\ refused => line.calls = <<Missing>>
      /\ ~refused => line.calls = R
  BY <1>2
<1>5. CASE refused
  <2>1. /\ <<Missing>> \in Seq(CliCall)
        /\ \A i \in DOMAIN <<Missing>> : <<Missing>>[i] = Missing
    BY MissingSound
  <2> HIDE DEF refused, gap
  <2> QED BY <1>4, <1>5, <2>1, MissingSound DEF LineSound
<1>6. CASE ~refused
  <2>1. R \in Seq(CliCall) /\ DOMAIN R = DOMAIN s /\ \A i \in DOMAIN s : CallTrue(R[i], dry)
    BY <1>3, RequestsSound, RequestsAre
  <2>2. dry = TRUE /\ gap = {} => \A i \in DOMAIN s : Harmless(R[i])
    BY <1>1, <1>3, <1>6, DryRequestsHarmless DEF CommandSound
  <2> HIDE DEF refused, gap, R
  <2> QED BY <1>4, <1>6, <2>1, <2>2 DEF LineSound
<1> QED BY <1>5, <1>6

\* Every command as it is typed, and every request of another client.
LEMMA LinesSound == \A line \in Lines \cup OtherClients : LineSound(line)
<1>1. ASSUME NEW line \in Lines PROVE LineSound(line)
  BY TypedSound DEF Lines
<1>2. ASSUME NEW r \in Routes, NEW dry \in BOOLEAN
      PROVE  LineSound([calls |-> <<Requested(r, dry)>>, command |-> FALSE, dry |-> dry,
                        saves |-> FALSE, gap |-> {}])
  <2> DEFINE call == Requested(r, dry)
  <2>1. call \in CliCall /\ CallTrue(call, dry)
    BY RoutesSound, RequestedTyped, RequestedTrue
  <2> HIDE DEF call
  <2>2. <<call>> \in Seq(CliCall) /\ \A i \in DOMAIN <<call>> : CallTrue(<<call>>[i], dry)
    BY <2>1
  <2>3. LineSound([calls |-> <<call>>, command |-> FALSE, dry |-> dry, saves |-> FALSE, gap |-> {}])
    BY <2>2 DEF LineSound
  <2> QED BY <2>3 DEF call
<1>3. ASSUME NEW line \in OtherClients PROVE LineSound(line)
  BY <1>2 DEF OtherClients
<1> QED BY <1>1, <1>3

-----------------------------------------------------------------------------
(* The types of the command line. *)

Points == {"idle", "send", "reply", "save", "exited"} \cup Saving

\* A process that runs when m sessions have been made, and what it may save: a login
\* saves a session that was made.
RunningRecord(m) ==
  [at : Points, line : Lines \cup OtherClients, todo : Seq(CliCall), token : 0 .. m,
   changed : BOOLEAN, reply : Reply]

HasSession(r, m) == r.todo # <<>> /\ (r.todo[1].session = "login" => r.token \in 1 .. m)

RunsTyped(r, m) ==
  /\ r.at \in Points
  /\ r.at \notin {"idle", "exited"} => r \in RunningRecord(m)
  /\ r.at \in {"save"} \cup Saving => HasSession(r, m)
  /\ r.at = "reply" /\ r.todo # <<>> /\ r.reply.ok = TRUE => HasSession(r, m)

CliTypes ==
  /\ \A p \in CliProcess : RunsTyped(process[p], made)
  /\ sessionFile \in Content /\ tempFile \in Content
  /\ alive \subseteq 1 .. made
  /\ made \in 0 .. MaxSessions

LEMMA TextTyped ==
  ASSUME NEW p \in CliProcess, HasSession(process[p], made)
  PROVE  Text(p) \in Content \ {Mixed, Blank} /\ \A old \in Content : Over(old, Text(p)) \in Content
<1>1. Saved(process[p].token) \notin {Blank, Mixed} /\ Defaults \notin {Blank, Mixed}
  BY DEF Saved, Defaults, Blank, Mixed
<1>2. Text(p) \in Content
  BY DEF Text, Content, HasSession
<1> QED BY <1>1, <1>2 DEF Text, Over, Content

LEMMA LoadTyped ==
  ASSUME sessionFile \in Content, made \in Nat
  PROVE  LoadSession \in 0 .. made
<1>1. CASE sessionFile \in {NoFile, Defaults, Blank, Mixed}
  BY <1>1 DEF LoadSession, NoFile, Defaults, Blank, Mixed, NoSession
<1>2. CASE sessionFile \in {Saved(t) : t \in 1 .. made}
  BY <1>2 DEF LoadSession, Saved, NoSession
<1> QED BY <1>1, <1>2 DEF Content

LEMMA UnauthorizedIsReply == Unauthorized \in Reply /\ Unauthorized.ok = FALSE
BY DEF Unauthorized, Reply

LEMMA MoreSessions ==
  ASSUME NEW m \in Nat, NEW k \in Nat, m <= k, NEW r, RunsTyped(r, m)
  PROVE  RunsTyped(r, k)
BY DEF RunsTyped, RunningRecord, HasSession

LEMMA CliTypesStart == CallsStart => CliTypes
<1> SUFFICES ASSUME CallsStart PROVE CliTypes
  OBVIOUS
<1>1. \A p \in CliProcess : process[p].at = "idle"
  BY DEF CallsStart
<1>2. \A p \in CliProcess : RunsTyped(process[p], made)
  BY <1>1 DEF RunsTyped, Points, Saving
<1>3. made \in 0 .. MaxSessions /\ alive \subseteq 1 .. made
  BY CliSessions DEF CallsStart
<1>4. sessionFile \in Content /\ tempFile \in Content
  BY DEF CallsStart, Content
<1> QED BY <1>2, <1>3, <1>4 DEF CliTypes

\* One process goes on; the files and the sessions stay.
LEMMA ProcessGoesOn ==
  ASSUME CliInv, CliTypes, NEW p \in CliProcess, NEW r, process' = [process EXCEPT ![p] = r],
         RunsTyped(r, made), UNCHANGED <<sessionFile, tempFile, alive, made>>
  PROVE  CliTypes'
<1>1. process' = [q \in CliProcess |-> process'[q]] /\ process'[p] = r
      /\ \A q \in CliProcess \ {p} : process'[q] = process[q]
  BY DEF CliInv, ProcessesStand
<1>2. Content' = Content
  BY DEF Content
<1> QED BY <1>1, <1>2 DEF CliTypes

LEMMA ExitTyped ==
  ASSUME CliInv, CliTypes, NEW p \in CliProcess, NEW code, Exits(p, code),
         UNCHANGED <<sessionFile, tempFile, alive, made>>
  PROVE  CliTypes'
<1>1. Ended(p, code).at = "exited"
  BY DEF Ended
<1> HIDE DEF Ended
<1>2. RunsTyped(Ended(p, code), made)
  BY <1>1 DEF RunsTyped, Points, Saving
<1> QED BY <1>2, ProcessGoesOn DEF Exits

LEMMA ProceedTyped ==
  ASSUME CliInv, CliTypes, NEW p \in CliProcess, NEW s \in {"save"} \cup Saving,
         process[p].at \notin {"idle", "exited"}, HasSession(process[p], made)
  PROVE  RunsTyped([process[p] EXCEPT !.at = s], made)
<1>1. process[p] \in RunningRecord(made)
  BY DEF CliTypes, RunsTyped
<1> DEFINE r == [process[p] EXCEPT !.at = s]
<1>2. r \in RunningRecord(made) /\ r.at = s /\ r.todo = process[p].todo /\ r.token = process[p].token
  BY <1>1 DEF RunningRecord, Points, Saving
<1>3. s \in Points /\ s # "reply"
  BY DEF Points, Saving
<1> HIDE DEF r
<1>4. RunsTyped(r, made)
  BY <1>2, <1>3 DEF RunsTyped, HasSession
<1> QED BY <1>4 DEF r

-----------------------------------------------------------------------------
LEMMA StartTyped ==
  ASSUME CliInv, CliTypes, NEW p \in CliProcess, Start(p)
  PROVE  CliTypes'
<1>1. PICK line \in Lines \cup OtherClients, t \in {LoadSession} \cup 1 .. made :
        process' = [process EXCEPT ![p] =
          [at |-> "send", line |-> line, todo |-> line.calls, token |-> t, changed |-> FALSE,
           reply |-> Unauthorized]]
  BY DEF Start
<1> DEFINE r == [at |-> "send", line |-> line, todo |-> line.calls, token |-> t, changed |-> FALSE,
                 reply |-> Unauthorized]
<1>2. t \in 0 .. made
  BY <1>1, LoadTyped, CliSessions DEF CliTypes
<1>3. line.calls \in Seq(CliCall)
  BY LinesSound DEF LineSound
<1>4. r \in RunningRecord(made) /\ r.at = "send"
  BY <1>2, <1>3, UnauthorizedIsReply DEF RunningRecord, Points
<1>5. process' = [process EXCEPT ![p] = r]
  BY <1>1
<1> HIDE DEF r
<1>6. RunsTyped(r, made)
  BY <1>4 DEF RunsTyped, Points, Saving
<1> QED BY <1>5, <1>6, ProcessGoesOn DEF Start

\* The record of a process that heard a reply.
LEMMA AnswerTyped ==
  ASSUME CliInv, CliTypes, NEW p \in CliProcess, process[p].at = "send", process[p].todo # <<>>,
         NEW reply \in Reply, NEW k \in Nat, made <= k, NEW t \in 0 .. k,
         process[p].todo[1].session = "login" /\ reply.ok = TRUE => t \in 1 .. k,
         Answers(p, reply, t)
  PROVE  RunsTyped(process'[p], k) /\ \A q \in CliProcess \ {p} : process'[q] = process[q]
<1>1. process[p] \in RunningRecord(made)
  BY DEF CliTypes, RunsTyped
<1>2. process[p] \in RunningRecord(k)
  BY <1>1, CliSessions DEF RunningRecord, CliTypes
<1> DEFINE r == process'[p]
<1>3. r = [process[p] EXCEPT !.at = "reply", !.reply = reply, !.token = t, !.changed = @ \/ reply.done]
      /\ \A q \in CliProcess \ {p} : process'[q] = process[q]
  BY DEF CliInv, ProcessesStand, Answers
<1>4. /\ r \in RunningRecord(k) /\ r.at = "reply" /\ r.todo = process[p].todo
      /\ r.token = t /\ r.reply = reply
  BY <1>2, <1>3 DEF RunningRecord, Points
<1> HIDE DEF r
<1>5. RunsTyped(r, k)
  BY <1>4 DEF RunsTyped, HasSession, Points, Saving
<1> QED BY <1>3, <1>5 DEF r

LEMMA ServeTyped ==
  ASSUME CliInv, CliTypes, NEW p \in CliProcess, Serve(p)
  PROVE  CliTypes'
<1>1. process[p].at = "send" /\ process[p].todo # <<>> /\ UNCHANGED <<sessionFile, tempFile, torn>>
  BY DEF Serve, Stage
<1>2. process[p] \in RunningRecord(made) /\ made \in Nat /\ made <= made
  BY <1>1, CliSessions DEF CliTypes, RunsTyped
<1>3. process[p].todo[1] \in CliCall /\ Head(process[p].todo) = process[p].todo[1]
  BY <1>1, <1>2 DEF RunningRecord
<1> DEFINE call == process[p].todo[1]
<1>4. PICK reply \in Reply :
        CASE call.session = "login" -> LoginServed(p, reply)
          [] call.session = "logout" -> LogoutServed(p, reply)
          [] OTHER -> Answers(p, reply, process[p].token) /\ UNCHANGED <<alive, made>>
  BY <1>3, UnauthorizedIsReply DEF Serve, CliCall
<1> DEFINE others == \A q \in CliProcess \ {p} : process'[q] = process[q]
<1>5. ASSUME RunsTyped(process'[p], made'), others, alive' \subseteq 1 .. made',
             made' \in 0 .. MaxSessions, made <= made'
      PROVE  CliTypes'
  <2>1. Content \subseteq Content'
    BY <1>2, <1>5, CliSessions DEF Content
  <2>2. \A q \in CliProcess : RunsTyped(process'[q], made')
    BY <1>2, <1>5, MoreSessions, CliSessions DEF CliTypes
  <2> QED BY <1>1, <1>5, <2>1, <2>2 DEF CliTypes
<1>6. process[p].token \in 0 .. made
  BY <1>2 DEF RunningRecord
<1>7. CASE call.session # "login"
  <2>1. Answers(p, reply, process[p].token) /\ UNCHANGED made /\ alive' \subseteq alive
    BY <1>4, <1>7 DEF LogoutServed
  <2>2. RunsTyped(process'[p], made) /\ others
    BY <1>1, <1>2, <1>6, <1>7, <2>1, AnswerTyped
  <2> QED BY <1>2, <1>5, <2>1, <2>2 DEF CliTypes
<1>8. CASE call.session = "login"
  <2>1. LoginServed(p, reply)
    BY <1>4, <1>8
  <2>2. CASE made < MaxSessions /\ made' = made + 1 /\ alive' = {made'} /\ Answers(p, reply, made')
    <3>1. made' \in Nat /\ made <= made' /\ made' \in 0 .. made' /\ made' \in 1 .. made'
          /\ made' \in 0 .. MaxSessions
      BY <1>2, <2>2, CliSessions
    <3> DEFINE k == made'
    <3>2. k \in Nat /\ made <= k /\ k \in 0 .. k /\ k \in 1 .. k /\ Answers(p, reply, k)
      BY <2>2, <3>1
    <3> HIDE DEF k
    <3>3. RunsTyped(process'[p], k) /\ others
      BY <1>1, <3>2, AnswerTyped
    <3>4. RunsTyped(process'[p], made') /\ others
      BY <3>3 DEF k
    <3> QED BY <1>5, <2>2, <3>1, <3>4
  <2>3. ASSUME NEW t \in alive, Answers(p, reply, t), UNCHANGED <<alive, made>>
        PROVE  CliTypes'
    <3>1. t \in 0 .. made /\ t \in 1 .. made
      BY <1>2, <2>3 DEF CliTypes
    <3>2. RunsTyped(process'[p], made) /\ others
      BY <1>1, <1>2, <2>3, <3>1, AnswerTyped
    <3> QED BY <1>2, <1>5, <2>3, <3>2 DEF CliTypes
  <2>4. CASE reply.ok = FALSE /\ Answers(p, reply, process[p].token) /\ UNCHANGED <<alive, made>>
    <3>1. RunsTyped(process'[p], made) /\ others
      BY <1>1, <1>2, <1>6, <2>4, AnswerTyped
    <3> QED BY <1>2, <1>5, <2>4, <3>1 DEF CliTypes
  <2> QED BY <2>1, <2>2, <2>3, <2>4 DEF LoginServed, Reply
<1> QED BY <1>7, <1>8

LEMMA HeardTyped ==
  ASSUME CliInv, CliTypes, NEW p \in CliProcess, Heard(p)
  PROVE  CliTypes'
<1>1. UNCHANGED <<sessionFile, tempFile, alive, made>>
  BY DEF Heard
<1>2. process[p] \in RunningRecord(made) /\ process[p].at \in {"send", "reply"}
  BY DEF Heard, Stage, CliTypes, RunsTyped
<1>3. CASE Exits(p, 0) \/ Exits(p, 1)
  BY <1>1, <1>3, ExitTyped
<1>4. CASE Proceeds(p, "save") /\ process[p].at = "reply" /\ process[p].todo # <<>> /\ process[p].reply.ok = TRUE
  <2>1. HasSession(process[p], made)
    BY <1>4 DEF CliTypes, RunsTyped
  <2>2. RunsTyped([process[p] EXCEPT !.at = "save"], made)
    BY <1>2, <2>1, ProceedTyped
  <2> DEFINE r == [process[p] EXCEPT !.at = "save"]
  <2>3. process' = [process EXCEPT ![p] = r]
    BY <1>4 DEF Proceeds
  <2> HIDE DEF r
  <2> QED BY <1>1, <2>2, <2>3, ProcessGoesOn DEF r
<1>5. CASE process' = [process EXCEPT ![p].at = "send", ![p].todo = Tail(process[p].todo)]
           /\ process[p].todo # <<>>
  <2> DEFINE r == [process[p] EXCEPT !.at = "send", !.todo = Tail(process[p].todo)]
  <2>1. Tail(process[p].todo) \in Seq(CliCall)
    BY <1>2, <1>5 DEF RunningRecord
  <2>2. r \in RunningRecord(made) /\ r.at = "send"
    BY <1>2, <2>1 DEF RunningRecord, Points
  <2>3. process' = [process EXCEPT ![p] = r]
    BY <1>5 DEF CliInv, ProcessesStand
  <2> HIDE DEF r
  <2>4. RunsTyped(r, made)
    BY <2>2 DEF RunsTyped, Points, Saving
  <2> QED BY <1>1, <2>3, <2>4, ProcessGoesOn
<1>6. process[p].todo # <<>> => process[p].at = "reply"
  BY DEF Heard, Stage
<1>7. \/ Exits(p, 0) \/ Exits(p, 1)
      \/ /\ process[p].todo # <<>> /\ process[p].reply.ok = TRUE
         /\ \/ Proceeds(p, "save")
            \/ process' = [process EXCEPT ![p].at = "send", ![p].todo = Tail(process[p].todo)]
  <2>1. process[p].reply.ok \in BOOLEAN
    BY <1>2 DEF RunningRecord, Reply
  <2>2. (Len(process[p].todo) > 1 \/ Len(process[p].todo) = 1) => process[p].todo # <<>>
    <3> DEFINE n == Len(process[p].todo)
    <3>1. process[p].todo = <<>> => n = 0
      OBVIOUS
    <3>2. n = 0 => ~(n > 1) /\ n # 1
      OBVIOUS
    <3> HIDE DEF n
    <3> QED BY <3>1, <3>2, Zenon DEF n
  <2>3. CASE process[p].reply.ok = FALSE
    BY <2>2, <2>3, Zenon DEF Heard
  <2>4. CASE process[p].reply.ok = TRUE
    BY <2>2, <2>4, Zenon DEF Heard
  <2> QED BY <2>1, <2>3, <2>4
<1> QED BY <1>3, <1>4, <1>5, <1>6, <1>7

LEMMA SaveBeginTyped ==
  ASSUME CliInv, CliTypes, NEW p \in CliProcess, SaveBegin(p)
  PROVE  CliTypes'
<1> DEFINE r == [process[p] EXCEPT !.at = "write-temp"]
<1>1. process[p].at = "save" /\ UNCHANGED <<sessionFile, alive, made>> /\ tempFile' = Blank
  BY DEF SaveBegin, Stage
<1>2. HasSession(process[p], made)
  BY <1>1 DEF CliTypes, RunsTyped
<1>3. RunsTyped(r, made)
  BY <1>1, <1>2, ProceedTyped DEF Saving
<1>4. process' = [process EXCEPT ![p] = r]
  BY DEF SaveBegin, Proceeds
<1> HIDE DEF r
<1>5. \A q \in CliProcess : RunsTyped(process'[q], made)
  BY <1>3, <1>4 DEF CliInv, ProcessesStand, CliTypes
<1>6. Blank \in Content
  BY DEF Content
<1> QED BY <1>1, <1>5, <1>6 DEF CliTypes, Content

LEMMA SaveWriteTyped ==
  ASSUME CliInv, CliTypes, NEW p \in CliProcess, SaveWrite(p)
  PROVE  CliTypes'
<1> DEFINE r == [process[p] EXCEPT !.at = "rename"]
<1>1. process[p].at \in {"write-temp", "write-cli", "write-lost"} /\ UNCHANGED <<alive, made>>
  BY DEF SaveWrite, Stage
<1>2. HasSession(process[p], made)
  BY <1>1 DEF CliTypes, RunsTyped, Saving
<1>3. RunsTyped(r, made)
  BY <1>1, <1>2, ProceedTyped DEF Saving
<1>4. process' = [process EXCEPT ![p] = r]
  BY DEF SaveWrite, Proceeds
<1> HIDE DEF r
<1>5. \A q \in CliProcess : RunsTyped(process'[q], made)
  BY <1>3, <1>4 DEF CliInv, ProcessesStand, CliTypes
<1>6. sessionFile' \in Content /\ tempFile' \in Content
  BY <1>2, TextTyped DEF SaveWrite, CliTypes
<1> QED BY <1>1, <1>5, <1>6 DEF CliTypes, Content

LEMMA SaveRenameTyped ==
  ASSUME CliInv, CliTypes, NEW p \in CliProcess, SaveRename(p)
  PROVE  CliTypes'
<1>1. UNCHANGED <<alive, made>>
  BY DEF SaveRename
<1>2. CASE tempFile = NoFile
  BY <1>1, <1>2, ExitTyped DEF SaveRename
<1>3. CASE tempFile # NoFile
  <2>1. /\ sessionFile' = tempFile /\ tempFile' = NoFile
        /\ process' = [q \in CliProcess |->
             CASE q = p -> Ended(p, 0)
               [] Stage(q, "write-temp") -> [process[q] EXCEPT !.at = "write-cli"]
               [] Stage(q, "write-cli") -> [process[q] EXCEPT !.at = "write-lost"]
               [] OTHER -> process[q]]
    BY <1>3 DEF SaveRename
  <2>2. Ended(p, 0).at = "exited"
    BY DEF Ended
  <2>3. RunsTyped(Ended(p, 0), made)
    <3> HIDE DEF Ended
    <3> QED BY <2>2 DEF RunsTyped, Points, Saving
  <2>4. ASSUME NEW q \in CliProcess
        PROVE  RunsTyped(process'[q], made)
    <3>1. CASE q = p
      <4>1. process'[p] = Ended(p, 0)
        BY <2>1 DEF SaveRename, Stage
      <4> HIDE DEF Ended
      <4> QED BY <2>3, <3>1, <4>1
    <3>2. CASE q # p /\ process[q].at \in {"write-temp", "write-cli"}
      <4>1. HasSession(process[q], made) /\ process[q].at \notin {"idle", "exited"}
        BY <3>2 DEF CliTypes, RunsTyped, Saving
      <4>2. /\ RunsTyped([process[q] EXCEPT !.at = "write-cli"], made)
            /\ RunsTyped([process[q] EXCEPT !.at = "write-lost"], made)
        BY <4>1, ProceedTyped DEF Saving
      <4> QED BY <2>1, <3>2, <4>2 DEF Stage
    <3>3. CASE q # p /\ process[q].at \notin {"write-temp", "write-cli"}
      BY <2>1, <3>3 DEF Stage, CliTypes
    <3> QED BY <3>1, <3>2, <3>3
  <2>5. NoFile \in Content
    BY DEF Content
  <2> QED BY <1>1, <2>1, <2>4, <2>5 DEF CliTypes, Content
<1> QED BY <1>2, <1>3

LEMMA CliTypesKept == CliInv /\ CliTypes /\ [CallsNext]_callVars => CliTypes'
<1> SUFFICES ASSUME CliInv, CliTypes, [CallsNext]_callVars PROVE CliTypes'
  OBVIOUS
<1>1. ASSUME NEW p \in CliProcess, Stop(p) PROVE CliTypes'
  BY <1>1, ExitTyped DEF Stop
<1>2. CASE UNCHANGED callVars
  BY <1>2 DEF callVars, CliTypes, Content
<1> QED BY <1>1, <1>2, StartTyped, ServeTyped, HeardTyped, SaveBeginTyped, SaveWriteTyped, SaveRenameTyped
        DEF CallsNext

\* The temporary file is never left mixed, unless two processes saved at the same
\* time.
LEMMA TempWhole ==
  CliInv /\ CliTypes /\ (torn \/ tempFile # Mixed) /\ [CallsNext]_callVars => (torn \/ tempFile # Mixed)'
<1> SUFFICES ASSUME CliInv, CliTypes, torn = TRUE \/ tempFile # Mixed, [CallsNext]_callVars,
                    torn' = FALSE
             PROVE  tempFile' # Mixed
  BY CliKept DEF CliInv
<1>1. NoFile # Mixed /\ Blank # Mixed
  BY DEF NoFile, Blank, Mixed
<1>2. ASSUME NEW p \in CliProcess, SaveWrite(p) PROVE tempFile' # Mixed
  BY <1>2, TextIsWhole DEF SaveWrite, Stage, CliInv, OneSaver
<1> QED BY <1>1, <1>2 DEF CallsNext, callVars, Start, Serve, Heard, Stop, SaveBegin, SaveRename, CliInv

\* The commands and what they share, the session file and its temporary file, stay
\* within their types; only two processes that save at the same time leave a
\* temporary file that is mixed.
THEOREM CallsAreTyped == CallsSpec => []CallsTypeOK
<1>1. CallsStart => torn \/ tempFile # Mixed
  BY DEF CallsStart, NoFile, Mixed
<1>2. CliTypes /\ (torn \/ tempFile # Mixed) => CallsTypeOK
  BY DEF CliTypes, RunsTyped, RunningRecord, Points, CallsTypeOK
<1> QED BY <1>1, <1>2, CliStarts, CliKept, CliTypesStart, CliTypesKept, TempWhole, PTL DEF CallsSpec

-----------------------------------------------------------------------------
(* What the replies and the exit codes of commands say.                    *)

\* What is left to be asked for is the end of what the line asks for.
LeftOver(r) ==
  \E k \in Nat :
    /\ Len(r.line.calls) = k + Len(r.todo)
    /\ \A i \in 1 .. Len(r.todo) : r.todo[i] = r.line.calls[k + i]

\* A dry run, and a line that has to change something to succeed.
Dry(line) == line.dry /\ line.command /\ line.gap = {}
MustChange(line) == ~line.dry /\ line.calls # <<>> /\ line.calls[Len(line.calls)].writes

Underway(r) ==
  /\ LeftOver(r)
  /\ Dry(r.line) => r.changed = FALSE
  /\ r.at = "send" /\ r.todo = <<>> => r.line.calls = <<>>
  /\ r.at = "reply" => /\ r.todo # <<>>
                       /\ r.reply \in r.todo[1].replies \cup {Unauthorized}
                       /\ r.reply.done = TRUE => r.changed = TRUE
  /\ r.at \in {"save"} \cup Saving /\ MustChange(r.line) => r.changed = TRUE

Settled(r) ==
  /\ r.dry /\ r.gap = {} => r.changed = FALSE
  /\ r.must /\ r.code = 0 => r.changed = TRUE

AnswerSound(r) ==
  /\ r.at \notin {"idle", "exited"} => Underway(r)
  /\ r.at = "exited" => Settled(r)

AnswerInv == \A p \in CliProcess : AnswerSound(process[p])

LEMMA ProcessSet ==
  ASSUME CliInv, AnswerInv, NEW p \in CliProcess, NEW r, process' = [process EXCEPT ![p] = r],
         AnswerSound(r)
  PROVE  AnswerInv'
<1>1. process' = [q \in CliProcess |-> process'[q]] /\ process'[p] = r
      /\ \A q \in CliProcess \ {p} : process'[q] = process[q]
  BY DEF CliInv, ProcessesStand
<1> QED BY <1>1 DEF AnswerInv

LEMMA EndedIs ==
  ASSUME NEW p, NEW code
  PROVE  LET r == Ended(p, code)
         IN /\ r.at = "exited" /\ r.code = code /\ r.changed = process[p].changed
            /\ r.dry /\ r.gap = {} => Dry(process[p].line)
            /\ r.must => MustChange(process[p].line)
BY DEF Ended, Dry, MustChange

\* A process may end if it changed what it had to.
LEMMA ExitSound ==
  ASSUME CliInv, AnswerInv, NEW p \in CliProcess, process[p].at \notin {"idle", "exited"},
         NEW code, code = 0 /\ MustChange(process[p].line) => process[p].changed = TRUE
  PROVE  AnswerSound(Ended(p, code)) /\ (Exits(p, code) => AnswerInv')
<1>1. Underway(process[p])
  BY DEF AnswerInv, AnswerSound
<1>2. AnswerSound(Ended(p, code))
  BY <1>1, EndedIs DEF AnswerSound, Settled, Underway
<1> QED BY <1>2, ProcessSet DEF Exits

LEMMA FailureSound ==
  ASSUME CliInv, AnswerInv, NEW p \in CliProcess, process[p].at \notin {"idle", "exited"},
         Exits(p, 1)
  PROVE  AnswerInv'
<1>1. 1 = 0 /\ MustChange(process[p].line) => process[p].changed = TRUE
  OBVIOUS
<1> QED BY <1>1, ExitSound

LEMMA AnswersStart == CallsStart => AnswerInv
BY DEF CallsStart, AnswerInv, AnswerSound

LEMMA StartSound ==
  ASSUME CliInv, CliTypes, AnswerInv, NEW p \in CliProcess, Start(p)
  PROVE  AnswerInv'
<1>1. PICK line \in Lines \cup OtherClients, t \in {LoadSession} \cup 1 .. made :
        process' = [process EXCEPT ![p] =
          [at |-> "send", line |-> line, todo |-> line.calls, token |-> t, changed |-> FALSE,
           reply |-> Unauthorized]]
  BY DEF Start
<1> DEFINE r == [at |-> "send", line |-> line, todo |-> line.calls, token |-> t, changed |-> FALSE,
                 reply |-> Unauthorized]
<1>2. r.at = "send" /\ r.line = line /\ r.todo = line.calls /\ r.changed = FALSE
  OBVIOUS
<1>3. line.calls \in Seq(CliCall)
  BY LinesSound DEF LineSound
<1>4. process' = [process EXCEPT ![p] = r]
  BY <1>1
<1> HIDE DEF r
<1>5. LeftOver(r)
  <2>1. Len(line.calls) = 0 + Len(r.todo) /\ \A i \in 1 .. Len(r.todo) : r.todo[i] = line.calls[0 + i]
    BY <1>2, <1>3
  <2> QED BY <1>2, <2>1 DEF LeftOver
<1>6. AnswerSound(r)
  BY <1>2, <1>5 DEF AnswerSound, Underway, Saving
<1> QED BY <1>4, <1>6, ProcessSet

\* The request that is sent next is one of the line.
LEMMA NextCall ==
  ASSUME CliTypes, AnswerInv, NEW p \in CliProcess, process[p].at \notin {"idle", "exited"},
         process[p].todo # <<>>
  PROVE  LET line == process[p].line
             call == process[p].todo[1]
         IN /\ call \in CliCall /\ Head(process[p].todo) = call
            /\ LineSound(line) /\ CallTrue(call, line.dry)
            /\ Dry(line) => Harmless(call)
            /\ Len(process[p].todo) = 1 => line.calls # <<>> /\ call = line.calls[Len(line.calls)]
<1> DEFINE line == process[p].line
           call == process[p].todo[1]
<1>1. process[p] \in RunningRecord(made) /\ LeftOver(process[p])
  BY DEF CliTypes, RunsTyped, AnswerInv, AnswerSound, Underway
<1>2. LineSound(line)
  BY <1>1, LinesSound DEF RunningRecord
<1>3. process[p].todo \in Seq(CliCall) /\ line.calls \in Seq(CliCall)
  BY <1>1, <1>2 DEF RunningRecord, LineSound
<1>4. call \in CliCall /\ Head(process[p].todo) = call /\ Len(process[p].todo) \in Nat \ {0}
  BY <1>3
<1>5. PICK k \in Nat : Len(line.calls) = k + Len(process[p].todo) /\ call = line.calls[k + 1]
  BY <1>1, <1>4 DEF LeftOver
<1>6. k + 1 \in DOMAIN line.calls
  BY <1>3, <1>4, <1>5
<1>7. CallTrue(call, line.dry) /\ (Dry(line) => Harmless(call))
  BY <1>2, <1>5, <1>6 DEF LineSound, Dry
<1>8. Len(process[p].todo) = 1 => line.calls # <<>> /\ call = line.calls[Len(line.calls)]
  BY <1>3, <1>5, <1>6
<1> QED BY <1>2, <1>4, <1>7, <1>8

\* What the server answers is recorded.
LEMMA AnswerRecorded ==
  ASSUME CliInv, CliTypes, AnswerInv, NEW p \in CliProcess, process[p].at = "send",
         process[p].todo # <<>>, NEW reply \in process[p].todo[1].replies \cup {Unauthorized},
         NEW t, Answers(p, reply, t)
  PROVE  AnswerInv'
<1> DEFINE r == [process[p] EXCEPT !.at = "reply", !.reply = reply, !.token = t, !.changed = @ \/ reply.done]
           changed == process[p].changed \/ reply.done
<1>1. process[p] \in RunningRecord(made) /\ Underway(process[p])
  BY DEF CliTypes, RunsTyped, AnswerInv, AnswerSound
<1>2. process[p].changed \in BOOLEAN /\ reply \in Reply
  BY <1>1, NextCall, UnauthorizedIsReply DEF RunningRecord, CliCall
<1>3. /\ reply.done = TRUE => changed = TRUE
      /\ process[p].changed = FALSE /\ reply.done = FALSE => changed = FALSE
  BY <1>2 DEF Reply
<1>4. Dry(process[p].line) => process[p].changed = FALSE /\ reply.done = FALSE
  <2> SUFFICES ASSUME Dry(process[p].line)
               PROVE  process[p].changed = FALSE /\ reply.done = FALSE
    OBVIOUS
  <2>1. Harmless(process[p].todo[1])
    BY NextCall
  <2> QED BY <1>1, <2>1 DEF Underway, Harmless, Unauthorized
<1>5. /\ r.at = "reply" /\ r.todo = process[p].todo /\ r.line = process[p].line
      /\ r.reply = reply /\ r.changed = changed
  BY <1>1 DEF RunningRecord
<1>6. process' = [process EXCEPT ![p] = r]
  BY DEF Answers, CliInv, ProcessesStand
<1> HIDE DEF r, changed
<1>7. LeftOver(r)
  BY <1>1, <1>5 DEF Underway, LeftOver
<1>8. AnswerSound(r)
  BY <1>3, <1>4, <1>5, <1>7 DEF AnswerSound, Underway, Saving
<1> QED BY <1>6, <1>8, ProcessSet

LEMMA ServeSound ==
  ASSUME CliInv, CliTypes, AnswerInv, NEW p \in CliProcess, Serve(p)
  PROVE  AnswerInv'
<1>1. process[p].at = "send" /\ process[p].todo # <<>>
  BY DEF Serve, Stage
<1> DEFINE call == process[p].todo[1]
<1>2. Head(process[p].todo) = call
  BY <1>1, NextCall
<1>3. PICK reply \in call.replies \cup {Unauthorized} :
        CASE call.session = "login" -> LoginServed(p, reply)
          [] call.session = "logout" -> LogoutServed(p, reply)
          [] OTHER -> Answers(p, reply, process[p].token) /\ UNCHANGED <<alive, made>>
  BY <1>2 DEF Serve
<1>4. \E t : Answers(p, reply, t)
  <2>1. LoginServed(p, reply) => \E t : Answers(p, reply, t)
    BY DEF LoginServed
  <2>2. LogoutServed(p, reply) => \E t : Answers(p, reply, t)
    BY DEF LogoutServed
  <2> QED BY <1>3, <2>1, <2>2
<1> QED BY <1>1, <1>3, <1>4, AnswerRecorded

\* A success of the last request of a line that must change something has done so.
LEMMA LastAnswerCounts ==
  ASSUME CliTypes, AnswerInv, NEW p \in CliProcess, process[p].at = "reply",
         Len(process[p].todo) = 1, process[p].reply.ok = TRUE, MustChange(process[p].line)
  PROVE  process[p].changed = TRUE
<1> DEFINE r == process[p]
<1>1. r \in RunningRecord(made) /\ Underway(r)
  BY DEF CliTypes, RunsTyped, AnswerInv, AnswerSound
<1>2. r.todo # <<>> /\ r.reply \in r.todo[1].replies /\ (r.reply.done = TRUE => r.changed = TRUE)
  BY <1>1, UnauthorizedIsReply DEF Underway
<1>3. CallTrue(r.todo[1], r.line.dry) /\ r.todo[1] = r.line.calls[Len(r.line.calls)]
  BY <1>2, NextCall
<1>4. r.todo[1].writes /\ ~r.line.dry
  BY <1>3 DEF MustChange
<1> HIDE DEF r
<1> QED BY <1>2, <1>3, <1>4 DEF CallTrue, ReplyTrue, r

LEMMA TailIs ==
  ASSUME NEW S, NEW s \in Seq(S), Len(s) > 1
  PROVE  /\ Tail(s) \in Seq(S) /\ Tail(s) # <<>> /\ Len(Tail(s)) = Len(s) - 1
         /\ \A i \in 1 .. Len(Tail(s)) : Tail(s)[i] = s[i + 1]
<1>1. Tail(s) \in Seq(S) /\ Len(Tail(s)) = Len(s) - 1
  OBVIOUS
<1>2. \A i \in 1 .. Len(s) - 1 : Tail(s)[i] = s[i + 1]
  OBVIOUS
<1>3. Tail(s) # <<>>
  <2> DEFINE t == Tail(s)
             n == Len(t)
  <2>1. n # 0
    BY <1>1
  <2>2. t = <<>> => n = 0
    <3> HIDE DEF t
    <3> QED OBVIOUS
  <2> QED BY <2>1, <2>2
<1> QED BY <1>1, <1>2, <1>3

LEMMA HeardSound ==
  ASSUME CliInv, CliTypes, AnswerInv, NEW p \in CliProcess, Heard(p)
  PROVE  AnswerInv'
<1> DEFINE r == process[p]
<1>1. r \in RunningRecord(made) /\ r.at \in {"send", "reply"} /\ Underway(r)
  BY DEF Heard, Stage, CliTypes, RunsTyped, AnswerInv, AnswerSound
<1>2. r.todo \in Seq(CliCall) /\ r.changed \in BOOLEAN /\ r.reply.ok \in BOOLEAN
  BY <1>1 DEF RunningRecord, Reply
<1>3. Len(r.todo) \in Nat /\ (Len(r.todo) > 0 => r.todo # <<>>)
  BY <1>2
<1>4. r.at = "reply" \/ r.todo = <<>>
  BY DEF Heard, Stage
<1>5. CASE r.todo = <<>>
  <2>1. r.line.calls = <<>>
    BY <1>1, <1>5 DEF Underway
  <2>2. ~MustChange(r.line)
    BY <2>1 DEF MustChange
  <2>3. Exits(p, 0) \/ Exits(p, 1)
    BY <1>3, <1>5 DEF Heard
  <2> QED BY <1>1, <2>2, <2>3, ExitSound, FailureSound
<1>6. CASE Exits(p, 1)
  BY <1>1, <1>6, FailureSound
<1>7. CASE r.todo # <<>> /\ r.reply.ok = TRUE /\ Len(r.todo) = 1 /\ (Exits(p, 0) \/ Proceeds(p, "save"))
  <2>1. MustChange(r.line) => r.changed = TRUE
    BY <1>4, <1>7, LastAnswerCounts
  <2>2. CASE Exits(p, 0)
    BY <1>1, <2>1, <2>2, ExitSound
  <2>3. CASE Proceeds(p, "save")
    <3> DEFINE s == [r EXCEPT !.at = "save"]
    <3>1. process' = [process EXCEPT ![p] = s]
      BY <2>3 DEF Proceeds
    <3>2. s.at = "save" /\ s.todo = r.todo /\ s.line = r.line /\ s.changed = r.changed
      BY <1>1 DEF RunningRecord
    <3> HIDE DEF s
    <3>3. LeftOver(s)
      BY <1>1, <3>2 DEF Underway, LeftOver
    <3>4. AnswerSound(s)
      BY <1>1, <2>1, <3>2, <3>3 DEF AnswerSound, Underway
    <3> QED BY <3>1, <3>4, ProcessSet
  <2> QED BY <1>7, <2>2, <2>3
<1>8. CASE /\ Len(r.todo) > 1
           /\ process' = [process EXCEPT ![p].at = "send", ![p].todo = Tail(r.todo)]
  <2> DEFINE s == [r EXCEPT !.at = "send", !.todo = Tail(r.todo)]
  <2>1. process' = [process EXCEPT ![p] = s]
    BY <1>8 DEF CliInv, ProcessesStand
  <2>2. s.at = "send" /\ s.todo = Tail(r.todo) /\ s.line = r.line /\ s.changed = r.changed
    BY <1>1 DEF RunningRecord
  <2>3. /\ Tail(r.todo) # <<>> /\ Len(Tail(r.todo)) = Len(r.todo) - 1
        /\ \A i \in 1 .. Len(Tail(r.todo)) : Tail(r.todo)[i] = r.todo[i + 1]
    BY <1>2, <1>8, TailIs
  <2>4. LeftOver(s)
    <3>1. PICK k \in Nat :
            /\ Len(r.line.calls) = k + Len(r.todo)
            /\ \A i \in 1 .. Len(r.todo) : r.todo[i] = r.line.calls[k + i]
      BY <1>1 DEF Underway, LeftOver
    <3>2. /\ Len(s.line.calls) = (k + 1) + Len(s.todo)
          /\ \A i \in 1 .. Len(s.todo) : s.todo[i] = s.line.calls[(k + 1) + i]
      <4> HIDE DEF s
      <4>1. Len(r.line.calls) = (k + 1) + Len(Tail(r.todo))
        <5>1. \A a, b, n \in Nat : a = k + n /\ b = n - 1 => a = (k + 1) + b
          OBVIOUS
        <5> DEFINE a == Len(r.line.calls)
                   b == Len(Tail(r.todo))
                   n == Len(r.todo)
        <5>2. n \in Nat /\ a = k + n /\ b = n - 1 /\ b \in Nat /\ a \in Nat
          BY <1>2, <1>3, <1>8, <2>3, <3>1
        <5> HIDE DEF a, b, n
        <5>3. a = (k + 1) + b
          BY <5>1, <5>2
        <5> QED BY <5>3 DEF a, b
      <4>2. ASSUME NEW i \in 1 .. Len(Tail(r.todo)) PROVE Tail(r.todo)[i] = r.line.calls[(k + 1) + i]
        <5>1. i + 1 \in 1 .. Len(r.todo) /\ k + (i + 1) = (k + 1) + i
          BY <1>3, <2>3
        <5> QED BY <2>3, <3>1, <5>1
      <4> QED BY <2>2, <4>1, <4>2
    <3>3. k + 1 \in Nat
      OBVIOUS
    <3> HIDE DEF s
    <3> QED BY <3>2, <3>3 DEF LeftOver
  <2> HIDE DEF s
  <2>5. AnswerSound(s)
    BY <1>1, <2>2, <2>3, <2>4 DEF AnswerSound, Underway, Saving
  <2> QED BY <2>1, <2>5, ProcessSet
<1>9. CASE r.todo # <<>>
  <2>1. CASE r.reply.ok = FALSE
    BY <1>6, <1>9, <2>1 DEF Heard
  <2>2. CASE r.reply.ok = TRUE
    <3>1. \/ Len(r.todo) > 1 /\ process' = [process EXCEPT ![p].at = "send", ![p].todo = Tail(r.todo)]
          \/ Len(r.todo) = 1 /\ (Exits(p, 0) \/ Proceeds(p, "save"))
      BY <1>9, <2>2, Zenon DEF Heard
    <3> QED BY <1>7, <1>8, <1>9, <2>2, <3>1
  <2> QED BY <1>2, <2>1, <2>2
<1> QED BY <1>5, <1>9

\* A process that saves goes on.
LEMMA SaveGoesOn ==
  ASSUME CliTypes, AnswerInv, NEW p \in CliProcess, process[p].at \in {"save"} \cup Saving,
         NEW s \in Saving
  PROVE  AnswerSound([process[p] EXCEPT !.at = s])
<1> DEFINE r == [process[p] EXCEPT !.at = s]
<1>1. process[p] \in RunningRecord(made) /\ Underway(process[p])
  BY DEF Saving, CliTypes, RunsTyped, AnswerInv, AnswerSound
<1>2. r.at = s /\ r.todo = process[p].todo /\ r.line = process[p].line /\ r.changed = process[p].changed
  BY <1>1 DEF RunningRecord
<1> HIDE DEF r
<1>3. LeftOver(r)
  BY <1>1, <1>2 DEF Underway, LeftOver
<1>4. AnswerSound(r)
  BY <1>1, <1>2, <1>3 DEF AnswerSound, Underway, Saving
<1> QED BY <1>4 DEF r

LEMMA SavesSound ==
  ASSUME CliInv, CliTypes, AnswerInv, NEW p \in CliProcess, SaveBegin(p) \/ SaveWrite(p)
  PROVE  AnswerInv'
<1>1. PICK s \in Saving : process' = [process EXCEPT ![p] = [process[p] EXCEPT !.at = s]]
  BY DEF SaveBegin, SaveWrite, Proceeds, Saving
<1>2. process[p].at \in {"save"} \cup Saving
  BY DEF SaveBegin, SaveWrite, Stage, Saving
<1>3. AnswerSound([process[p] EXCEPT !.at = s])
  BY <1>2, SaveGoesOn
<1> QED BY <1>1, <1>3, ProcessSet

LEMMA SaveRenameSound ==
  ASSUME CliInv, CliTypes, AnswerInv, NEW p \in CliProcess, SaveRename(p)
  PROVE  AnswerInv'
<1>1. process[p].at = "rename" /\ process[p].at \in {"save"} \cup Saving
      /\ process[p].at \notin {"idle", "exited"}
  BY DEF SaveRename, Stage, Saving
<1>2. MustChange(process[p].line) => process[p].changed = TRUE
  BY <1>1 DEF AnswerInv, AnswerSound, Underway
<1>3. CASE Exits(p, 1)
  BY <1>1, <1>3, FailureSound
<1>4. CASE tempFile # NoFile
  <2>1. process' = [q \in CliProcess |->
          CASE q = p -> Ended(p, 0)
            [] Stage(q, "write-temp") -> [process[q] EXCEPT !.at = "write-cli"]
            [] Stage(q, "write-cli") -> [process[q] EXCEPT !.at = "write-lost"]
            [] OTHER -> process[q]]
    BY <1>4 DEF SaveRename
  <2>2. AnswerSound(Ended(p, 0))
    BY <1>1, <1>2, ExitSound
  <2>3. ASSUME NEW q \in CliProcess PROVE AnswerSound(process'[q])
    <3>1. CASE q = p
      <4>1. process'[p] = Ended(p, 0)
        BY <1>1, <2>1 DEF Stage
      <4> HIDE DEF Ended
      <4> QED BY <2>2, <3>1, <4>1
    <3>2. CASE q # p /\ process[q].at \in {"write-temp", "write-cli"}
      <4>1. /\ AnswerSound([process[q] EXCEPT !.at = "write-cli"])
            /\ AnswerSound([process[q] EXCEPT !.at = "write-lost"])
        BY <3>2, SaveGoesOn DEF Saving
      <4> QED BY <2>1, <3>2, <4>1 DEF Stage
    <3>3. CASE q # p /\ process[q].at \notin {"write-temp", "write-cli"}
      BY <2>1, <3>3 DEF Stage, AnswerInv
    <3> QED BY <3>1, <3>2, <3>3
  <2> QED BY <2>3 DEF AnswerInv
<1> QED BY <1>3, <1>4 DEF SaveRename

LEMMA AnswersKept == CliInv /\ CliTypes /\ AnswerInv /\ [CallsNext]_callVars => AnswerInv'
<1> SUFFICES ASSUME CliInv, CliTypes, AnswerInv, [CallsNext]_callVars PROVE AnswerInv'
  OBVIOUS
<1>1. ASSUME NEW p \in CliProcess, Stop(p) PROVE AnswerInv'
  BY <1>1, FailureSound DEF Stop, Running
<1>2. CASE UNCHANGED callVars
  BY <1>2 DEF callVars, AnswerInv
<1> QED BY <1>1, <1>2, StartSound, ServeSound, HeardSound, SavesSound, SaveRenameSound DEF CallsNext

\* A reply that is marked as a dry run has changed nothing, a command with --dry-run
\* changes nothing but for the two requests that do not know the flag, and a command
\* without it that succeeds has made its change: through every handler, route, method
\* and command of the tables (AnswersTrue).
THEOREM CommandsAnswerTruly == CallsSpec => []AnswersTrue
<1>1. CliTypes /\ AnswerInv => AnswersTrue
  <2> SUFFICES ASSUME CliTypes, AnswerInv, NEW p \in CliProcess
               PROVE  /\ Stage(p, "reply") =>
                           (process[p].reply.marked => ~process[p].reply.done /\ process[p].line.dry)
                      /\ Stage(p, "exited") =>
                           /\ process[p].dry /\ process[p].gap = {} => ~process[p].changed
                           /\ process[p].must /\ process[p].code = 0 => process[p].changed
    BY DEF AnswersTrue
  <2>1. CASE process[p].at = "reply"
    <3>1. process[p].todo # <<>> /\ process[p].reply \in process[p].todo[1].replies \cup {Unauthorized}
      BY <2>1 DEF AnswerInv, AnswerSound, Underway
    <3>2. CallTrue(process[p].todo[1], process[p].line.dry)
      BY <2>1, <3>1, NextCall
    <3>3. process[p].reply.marked = TRUE => process[p].reply.done = FALSE /\ process[p].line.dry
      BY <3>1, <3>2 DEF CallTrue, ReplyTrue, Unauthorized
    <3> QED BY <2>1, <3>3 DEF Stage
  <2>2. CASE process[p].at = "exited"
    BY <2>2 DEF AnswerInv, AnswerSound, Settled, Stage
  <2>3. CASE process[p].at \notin {"reply", "exited"}
    BY <2>3 DEF Stage
  <2> QED BY <2>1, <2>2, <2>3
<1> QED BY <1>1, CliStarts, CliKept, CliTypesStart, CliTypesKept, AnswersStart, AnswersKept, PTL
        DEF CallsSpec
=============================================================================
