--------------------------- MODULE Driver_proofs ---------------------------
(***************************************************************************)
(* The driver's transactions, the opening of a database file and the       *)
(* remask migration, for any number of processes, appends, savepoints and  *)
(* migrations.                                                             *)
(*                                                                         *)
(* Transactions: each open frame holds the callbacks of exactly the rows   *)
(* written between its savepoint and the next, so what unwinds or settles  *)
(* with a frame is what the frame's rows are; the exemption is held while  *)
(* and only while something is uncommitted, and the frame that holds the   *)
(* row it was armed by is the one that drops it.                           *)
(*                                                                         *)
(* Opening: the version is read and the migrations applied inside one      *)
(* write transaction, so what a process has still to apply is exactly what *)
(* follows the version it sees, never behind the durable one.              *)
(*                                                                         *)
(* Remask: the marker says that no row holds plaintext before any process  *)
(* reaches the scrub; each step of the scrub then empties one more place   *)
(* for good, because whatever writes afterwards writes masked text.        *)
(***************************************************************************)
EXTENDS JournalTransaction, SchemaOpen, PiiRemask, SequenceTheorems, TLAPS

-----------------------------------------------------------------------------
(* TRANSACTIONS.                                                           *)

\* Rows only the open transaction sees.
Uncommitted == ToSet(db.rows) \ ToSet(durable.rows)

\* Frame i holds the callbacks of exactly the uncommitted rows written between
\* its savepoint and the next.
FramesHold ==
  /\ \A i \in DOMAIN frames : \A h \in frames[i].after :
       /\ h \in Uncommitted
       /\ \A j \in DOMAIN saves : h \in ToSet(saves[j].rows) <=> i <= j
  /\ \A h \in Uncommitted : \E i \in DOMAIN frames : h \in frames[i].after

\* What a frame queues for its rows; a frame with rows of the batch drops the
\* exemption if it armed it, and otherwise cuts it back.
CallbacksOf(i) ==
  /\ \A h \in Handles : <<"settle", h>> \in frames[i].settles <=> h \in frames[i].after
  /\ \A h \in Handles : <<"drop", h>> \in frames[i].settles => h \in frames[i].after
  /\ exemption # None /\ frames[i].after # {} =>
       IF exemption.token \in frames[i].after
       THEN <<"drop", exemption.token>> \in frames[i].settles
       ELSE <<"restore", exemption.token>> \in frames[i].settles

CallbacksFollow == \A i \in DOMAIN frames : CallbacksOf(i)

\* The file, the committed rows, those at each savepoint and those visible now
\* are prefixes of one another, and a row is in them once.
RowsChain ==
  /\ \A i, j \in DOMAIN db.rows : db.rows[i] = db.rows[j] => i = j
  /\ \A h \in ToSet(db.rows) : h <= minted
  /\ minted >= 1
  /\ IsPrefix(file, durable.rows)
  /\ IsPrefix(durable.rows, db.rows)
  /\ \A j \in DOMAIN saves :
       IsPrefix(durable.rows, saves[j].rows) /\ IsPrefix(saves[j].rows, db.rows)
  /\ \A i, j \in DOMAIN saves : i <= j => IsPrefix(saves[i].rows, saves[j].rows)
  /\ ~InTransaction => saves = <<>> /\ db = durable

\* The token of a view with uncommitted rows is that of the exemption.
TokenTells(d) ==
  IF d.rows = durable.rows THEN d.token = durable.token
  ELSE exemption # None /\ exemption.token \in ToSet(d.rows) /\ d.token = exemption.token

\* The exemption is held exactly while something is uncommitted, and says what.
ExemptionHolds ==
  /\ exemption = None <=> db.rows = durable.rows
  /\ exemption # None =>
       /\ InTransaction /\ exemption.txId = txId /\ exemption.raw = durable.rows
       /\ exemption.minted = db.rows /\ file = durable.rows
       /\ exemption.token \notin ToSet(durable.rows)
  /\ TokenTells(db) /\ \A j \in DOMAIN saves : TokenTells(saves[j])

\* What is uncommitted, and what the file lags by, is of one transaction.
OneBatch ==
  /\ \A h \in Uncommitted : txOf[h] = txId
  /\ \A g, h \in ToSet(durable.rows) \ ToSet(file) : txOf[g] = txOf[h]

\* What a handle answers is so.
HandlesKnow ==
  \A h \in Handles :
    /\ handle[h] \in {"anchored", "unanchored"} => h \in ToSet(durable.rows)
    /\ handle[h] = "rolled-back" => h \notin ToSet(db.rows)
    /\ handle[h] = "in-flight" => h \in lost \/ h \in Uncommitted

TxInv == /\ TypeOK /\ RowsChain /\ FramesHold /\ CallbacksFollow /\ ExemptionHolds
         /\ OneBatch /\ HandlesKnow

-----------------------------------------------------------------------------
(* Sequences.                                                              *)

LEMMA PrefixIs ==
  ASSUME NEW S, NEW s \in Seq(S), NEW t \in Seq(S)
  PROVE  IsPrefix(s, t) <=> Len(s) <= Len(t) /\ \A i \in 1..Len(s) : s[i] = t[i]
BY DEF IsPrefix

LEMMA PrefixOrder ==
  ASSUME NEW S, NEW s \in Seq(S), NEW t \in Seq(S), IsPrefix(s, t)
  PROVE  /\ IsPrefix(s, s)
         /\ \A u \in Seq(S) : IsPrefix(t, u) => IsPrefix(s, u)
         /\ IsPrefix(t, s) => s = t
<1>1. IsPrefix(s, s)
  BY PrefixIs
<1>2. ASSUME NEW u \in Seq(S), IsPrefix(t, u) PROVE IsPrefix(s, u)
  <2>1. Len(s) <= Len(u)
    BY <1>2, PrefixIs
  <2>2. ASSUME NEW i \in 1..Len(s) PROVE s[i] = u[i]
    BY <1>2, PrefixIs
  <2>3. QED
    BY <2>1, <2>2, PrefixIs
<1>3. ASSUME IsPrefix(t, s) PROVE s = t
  <2>1. Len(s) = Len(t) /\ \A i \in 1..Len(s) : s[i] = t[i]
    BY <1>3, PrefixIs
  <2>2. QED
    BY <2>1
<1>4. QED
  BY <1>1, <1>2, <1>3

LEMMA PrefixSelf ==
  ASSUME NEW S, NEW s \in Seq(S)
  PROVE  IsPrefix(s, s)
BY PrefixIs

LEMMA PrefixSet ==
  ASSUME NEW S, NEW s \in Seq(S), NEW t \in Seq(S), IsPrefix(s, t)
  PROVE  ToSet(s) \subseteq ToSet(t)
<1>1. Len(s) <= Len(t) /\ \A i \in 1..Len(s) : s[i] = t[i]
  BY PrefixIs
<1>2. DOMAIN s = 1..Len(s) /\ DOMAIN t = 1..Len(t)
  OBVIOUS
<1>3. \A i \in DOMAIN s : i \in DOMAIN t /\ s[i] = t[i]
  BY <1>1, <1>2
<1>4. QED
  BY <1>3 DEF ToSet

\* A prefix that holds every element, when no element comes twice.
LEMMA WholePrefix ==
  ASSUME NEW S, NEW s \in Seq(S), NEW t \in Seq(S), IsPrefix(s, t),
         \A i, j \in DOMAIN t : t[i] = t[j] => i = j, ToSet(t) \subseteq ToSet(s)
  PROVE  s = t
<1>1. Len(s) \in Nat /\ Len(t) \in Nat /\ DOMAIN s = 1..Len(s) /\ DOMAIN t = 1..Len(t)
  OBVIOUS
<1>2. Len(s) <= Len(t) /\ \A i \in 1..Len(s) : s[i] = t[i]
  BY PrefixIs
<1>3. Len(s) = Len(t)
  <2>0. ~ (Len(s) < Len(t)) => Len(s) = Len(t)
    <3>1. Len(s) \in Nat /\ Len(t) \in Nat /\ Len(s) <= Len(t)
      BY <1>1, <1>2, Zenon
    <3>2. QED
      BY <3>1
  <2>1. SUFFICES ASSUME Len(s) < Len(t) PROVE FALSE
    BY <2>0
  <2> DEFINE k == Len(s) + 1
  <2>2. k \in DOMAIN t /\ k \notin DOMAIN s
    BY <1>1, <2>1
  <2>3. t[k] \in ToSet(s)
    BY <2>2 DEF ToSet
  <2>4. PICK i \in DOMAIN s : s[i] = t[k]
    BY <2>3, Zenon DEF ToSet
  <2>5. i \in DOMAIN t /\ t[i] = t[k]
    BY <1>1, <1>2, <2>1, <2>4
  <2>6. i = k
    BY <2>2, <2>5, Zenon
  <2>7. QED
    BY <2>2, <2>4, <2>6
<1>4. QED
  BY <1>1, <1>2, <1>3

LEMMA AppendIs ==
  ASSUME NEW S, NEW s \in Seq(S), NEW x \in S
  PROVE  /\ Append(s, x) \in Seq(S) /\ Len(Append(s, x)) = Len(s) + 1 /\ Len(s) \in Nat
         /\ DOMAIN s = 1..Len(s) /\ DOMAIN Append(s, x) = 1..(Len(s) + 1)
         /\ \A i \in 1..Len(s) : Append(s, x)[i] = s[i]
         /\ Append(s, x)[Len(s) + 1] = x
BY AppendProperties, LenProperties

LEMMA AppendSet ==
  ASSUME NEW S, NEW s \in Seq(S), NEW x \in S
  PROVE  /\ ToSet(Append(s, x)) = ToSet(s) \cup {x}
         /\ IsPrefix(s, Append(s, x))
<1> DEFINE a == Append(s, x)
<1>1. /\ a \in Seq(S) /\ Len(a) = Len(s) + 1 /\ Len(s) \in Nat
      /\ DOMAIN s = 1..Len(s) /\ DOMAIN a = 1..(Len(s) + 1)
      /\ \A i \in 1..Len(s) : a[i] = s[i]
      /\ a[Len(s) + 1] = x
  BY AppendIs
<1> HIDE DEF a
<1>2. IsPrefix(s, a)
  BY <1>1, PrefixIs
<1>3. \A i \in DOMAIN a : a[i] = x \/ (i \in DOMAIN s /\ a[i] = s[i])
  <2>1. SUFFICES ASSUME NEW i \in 1..(Len(s) + 1)
                 PROVE  a[i] = x \/ (i \in DOMAIN s /\ a[i] = s[i])
    BY <1>1
  <2>2. CASE i = Len(s) + 1
    BY <1>1, <2>2
  <2>3. CASE i \in 1..Len(s)
    BY <1>1, <2>3
  <2>4. QED
    BY <1>1, <2>2, <2>3
<1>4. \A i \in DOMAIN s : i \in DOMAIN a /\ a[i] = s[i]
  BY <1>1
<1>5. \E i \in DOMAIN a : a[i] = x
  BY <1>1
<1>6. ToSet(a) = ToSet(s) \cup {x}
  BY <1>3, <1>4, <1>5 DEF ToSet
<1>7. QED
  BY <1>2, <1>6 DEF a

LEMMA AppendDistinct ==
  ASSUME NEW S, NEW s \in Seq(S), NEW x \in S, x \notin ToSet(s),
         \A i, j \in DOMAIN s : s[i] = s[j] => i = j
  PROVE  \A i, j \in DOMAIN Append(s, x) : Append(s, x)[i] = Append(s, x)[j] => i = j
<1> DEFINE a == Append(s, x)
<1>1. /\ Len(s) \in Nat /\ DOMAIN s = 1..Len(s) /\ DOMAIN a = 1..(Len(s) + 1)
      /\ \A i \in 1..Len(s) : a[i] = s[i]
      /\ a[Len(s) + 1] = x
  BY AppendIs
<1>2. \A i \in DOMAIN s : s[i] # x
  BY DEF ToSet
<1> HIDE DEF a
<1>3. SUFFICES ASSUME NEW i \in 1..(Len(s) + 1), NEW j \in 1..(Len(s) + 1), a[i] = a[j]
               PROVE  i = j
  BY <1>1 DEF a
<1>4. CASE i \in DOMAIN s /\ j \in DOMAIN s
  BY <1>1, <1>3, <1>4
<1>5. CASE i \in DOMAIN s /\ j = Len(s) + 1
  BY <1>1, <1>2, <1>3, <1>5
<1>6. CASE i = Len(s) + 1 /\ j \in DOMAIN s
  BY <1>1, <1>2, <1>3, <1>6
<1>7. QED
  BY <1>1, <1>4, <1>5, <1>6

LEMMA FrontIs ==
  ASSUME NEW S, NEW s \in Seq(S), s # <<>>
  PROVE  /\ Front(s) \in Seq(S) /\ Len(Front(s)) = Len(s) - 1 /\ Len(s) \in Nat /\ Len(s) >= 1
         /\ DOMAIN s = 1..Len(s) /\ DOMAIN Front(s) = 1..(Len(s) - 1)
         /\ \A i \in 1..(Len(s) - 1) : Front(s)[i] = s[i]
         /\ Last(s) = s[Len(s)] /\ Last(s) \in S
<1>1. Len(s) \in Nat /\ Len(s) >= 1 /\ DOMAIN s = 1..Len(s) /\ \A i \in 1..Len(s) : s[i] \in S
  BY EmptySeq
<1>2. \A i \in 1..(Len(s) - 1) : s[i] \in S
  BY <1>1
<1>3. /\ Front(s) \in Seq(S) /\ Len(Front(s)) = Len(s) - 1
      /\ \A i \in 1..(Len(s) - 1) : Front(s)[i] = s[i]
  BY <1>1, <1>2, SubSeqProperties DEF Front
<1>4. DOMAIN Front(s) = 1..(Len(s) - 1)
  BY <1>3, LenProperties
<1>5. QED
  BY <1>1, <1>3, <1>4 DEF Last

LEMMA NoRows == ToSet(<<>>) = {}
BY DEF ToSet


-----------------------------------------------------------------------------
(* What the invariant says of the types.                                   *)

Frames == [after : SUBSET Handles, settles : SUBSET Callbacks]

LEMMA Typed ==
  ASSUME TypeOK
  PROVE  /\ saves \in Seq(Dbs) /\ DOMAIN saves = 1..Len(saves) /\ Len(saves) \in Nat
         /\ frames \in Seq(Frames) /\ DOMAIN frames = 1..(Len(saves) + 1)
         /\ Len(frames) = Len(saves) + 1 /\ frames # <<>>
         /\ durable.rows \in Rows /\ db.rows \in Rows /\ file \in Rows
         /\ \A j \in DOMAIN saves : saves[j] \in Dbs /\ saves[j].rows \in Rows
         /\ \A i \in DOMAIN frames :
              frames[i].after \in SUBSET Handles /\ frames[i].settles \in SUBSET Callbacks
<1> USE DEF TypeOK, Frames
<1>1. saves \in Seq(Dbs) /\ DOMAIN saves = 1..Len(saves) /\ Len(saves) \in Nat
  BY LenProperties
<1>2. frames \in Seq(Frames) /\ Len(frames) = Len(saves) + 1 /\ DOMAIN frames = 1..Len(frames)
  BY LenProperties
<1>3. frames # <<>>
  BY <1>1, <1>2
<1>4. durable.rows \in Rows /\ db.rows \in Rows /\ file \in Rows
  BY DEF Dbs
<1>5. ASSUME NEW j \in DOMAIN saves PROVE saves[j] \in Dbs /\ saves[j].rows \in Rows
  <2>1. saves[j] \in Dbs
    BY <1>1, ElementOfSeq
  <2>2. QED
    BY <2>1 DEF Dbs
<1>6. ASSUME NEW i \in DOMAIN frames
      PROVE  frames[i].after \in SUBSET Handles /\ frames[i].settles \in SUBSET Callbacks
  <2>1. frames[i] \in Frames
    BY <1>2, ElementOfSeq
  <2>2. QED
    BY <2>1 DEF Frames
<1>7. QED
  BY <1>1, <1>2, <1>3, <1>4, <1>5, <1>6

LEMMA NoFrames == NewFrame \in Frames /\ <<NewFrame>> \in Seq(Frames)
BY DEF NewFrame, Frames

LEMMA NoSaves == <<>> \in Seq(Dbs) /\ Len(<<>>) = 0 /\ DOMAIN <<>> = {}
BY EmptySeq

\* The rows of one connection: what is committed comes first, and unless the
\* exemption is held nothing else is there.
LEMMA Clean ==
  ASSUME TxInv, exemption = None
  PROVE  /\ db = durable /\ Uncommitted = {}
         /\ \A i \in DOMAIN frames : frames[i].after = {}
         /\ \A j \in DOMAIN saves : saves[j] = durable
<1> USE DEF TxInv
<1>1. db.rows = durable.rows /\ db.token = durable.token
  BY DEF ExemptionHolds, TokenTells
<1>2. db = durable
  BY <1>1 DEF TypeOK, Dbs
<1>3. Uncommitted = {}
  BY <1>2 DEF Uncommitted
<1>4. \A i \in DOMAIN frames : frames[i].after = {}
  BY <1>3 DEF FramesHold
<1>5. ASSUME NEW j \in DOMAIN saves PROVE saves[j] = durable
  <2>1. saves[j].rows = durable.rows /\ saves[j].token = durable.token
    BY DEF ExemptionHolds, TokenTells
  <2>2. saves[j] \in Dbs /\ durable \in Dbs
    BY Typed DEF TypeOK
  <2>3. QED
    BY <2>1, <2>2 DEF Dbs
<1>6. QED
  BY <1>2, <1>3, <1>4, <1>5

LEMMA Dirty ==
  ASSUME TxInv, exemption # None
  PROVE  /\ InTransaction /\ exemption \in Exemptions /\ exemption.token \in Uncommitted
         /\ db.token = exemption.token /\ file = durable.rows /\ Live /\ Tolerated
<1> USE DEF TxInv
<1>1. db.rows # durable.rows /\ exemption.token \in ToSet(db.rows) /\ db.token = exemption.token
  BY DEF ExemptionHolds, TokenTells
<1>2. exemption \in Exemptions
  BY DEF TypeOK
<1>3. Live /\ Tolerated
  BY <1>1 DEF Live, Tolerated, ExemptionHolds
<1>4. QED
  BY <1>1, <1>2, <1>3 DEF ExemptionHolds, Uncommitted

LEMMA EverythingIs ==
  ASSUME TxInv
  PROVE  /\ Everything.after = Uncommitted
         /\ \A h \in Handles : <<"settle", h>> \in Everything.settles <=> h \in Uncommitted
         /\ exemption # None => <<"drop", exemption.token>> \in Everything.settles
<1>1. Everything.after = Uncommitted
  BY DEF Everything, TxInv, FramesHold
<1>2. ASSUME NEW h \in Handles
      PROVE  <<"settle", h>> \in Everything.settles <=> h \in Uncommitted
  <2>1. <<"settle", h>> \in Everything.settles <=> h \in Everything.after
    BY DEF Everything, TxInv, CallbacksFollow, CallbacksOf
  <2>2. QED
    BY <1>1, <2>1
<1>3. ASSUME exemption # None PROVE <<"drop", exemption.token>> \in Everything.settles
  <2>1. exemption.token \in Everything.after
    BY <1>1, <1>3, Dirty
  <2>2. PICK i \in DOMAIN frames : exemption.token \in frames[i].after
    BY <2>1 DEF Everything
  <2>3. <<"drop", exemption.token>> \in frames[i].settles
    BY <1>3, <2>2 DEF TxInv, CallbacksFollow, CallbacksOf
  <2>4. QED
    BY <2>3 DEF Everything
<1>4. QED
  BY <1>1, <1>2, <1>3


-----------------------------------------------------------------------------
(* A transaction that ends, however it does.                               *)

LEMMA Ended ==
  ASSUME TxInv, TypeOK', Retire, db' = durable', durable' \in {db, durable}, exemption' = None,
         file' \in {file, durable'.rows}, UNCHANGED <<minted, txOf>>
  PROVE  RowsChain' /\ FramesHold' /\ CallbacksFollow' /\ ExemptionHolds' /\ OneBatch'
<1>1. /\ frames' = <<NewFrame>> /\ saves' = <<>> /\ txId' = 0
      /\ DOMAIN frames' = {1} /\ frames'[1].after = {} /\ frames'[1].settles = {}
      /\ DOMAIN saves' = {}
  BY DEF Retire, NewFrame
<1>2. Uncommitted' = {}
  BY DEF Uncommitted
<1>3. FramesHold' /\ CallbacksFollow'
  BY <1>1, <1>2 DEF FramesHold, CallbacksFollow, CallbacksOf
<1>4. ExemptionHolds'
  BY <1>1 DEF ExemptionHolds, TokenTells
<1>5. durable.rows \in Rows /\ db.rows \in Rows /\ file \in Rows
  BY Typed DEF TxInv
<1>6. IsPrefix(durable.rows, db.rows) /\ IsPrefix(file, durable.rows)
  BY DEF TxInv, RowsChain
<1>7. IsPrefix(durable.rows, durable.rows) /\ IsPrefix(db.rows, db.rows) /\ IsPrefix(file, db.rows)
  BY <1>5, <1>6, PrefixOrder, PrefixSelf DEF Rows
<1>8. ToSet(durable.rows) \subseteq ToSet(db.rows)
  BY <1>5, <1>6, PrefixSet DEF Rows
<1>9. RowsChain'
  <2>1. IsPrefix(file', durable'.rows) /\ IsPrefix(durable'.rows, db'.rows)
    BY <1>6, <1>7
  <2>2. /\ \A h \in ToSet(db'.rows) : h <= minted'
        /\ minted' >= 1
    BY <1>8 DEF TxInv, RowsChain
  <2>3. \A i, j \in DOMAIN db'.rows : db'.rows[i] = db'.rows[j] => i = j
    <3>1. CASE durable' = db
      BY <3>1 DEF TxInv, RowsChain
    <3>2. CASE durable' = durable
      <4>1. SUFFICES ASSUME NEW i \in DOMAIN durable.rows, NEW j \in DOMAIN durable.rows,
                            durable.rows[i] = durable.rows[j]
                     PROVE  i = j
        BY <3>2
      <4>2. \A k \in DOMAIN durable.rows : k \in DOMAIN db.rows /\ durable.rows[k] = db.rows[k]
        <5>1. /\ Len(durable.rows) <= Len(db.rows)
              /\ \A k \in 1..Len(durable.rows) : durable.rows[k] = db.rows[k]
          BY <1>5, <1>6, PrefixIs DEF Rows
        <5>2. /\ DOMAIN durable.rows = 1..Len(durable.rows) /\ DOMAIN db.rows = 1..Len(db.rows)
              /\ Len(durable.rows) \in Nat /\ Len(db.rows) \in Nat
          BY <1>5 DEF Rows
        <5>3. QED
          BY <5>1, <5>2
      <4>3. QED
        BY <4>1, <4>2 DEF TxInv, RowsChain
    <3>3. QED
      BY <3>1, <3>2
  <2>4. QED
    BY <1>1, <2>1, <2>2, <2>3 DEF RowsChain
<1>10. OneBatch'
  <2>1. \A g, h \in ToSet(durable'.rows) \ ToSet(file') : txOf[g] = txOf[h]
    <3>1. CASE file' = durable'.rows
      BY <3>1
    <3>2. CASE durable' = durable /\ file' = file
      BY <3>2 DEF TxInv, OneBatch
    <3>3. CASE durable' = db /\ file' = file
      <4>1. CASE exemption = None
        BY <3>3, <4>1, Clean DEF TxInv, OneBatch
      <4>2. CASE exemption # None
        <5>1. file = durable.rows
          BY <4>2, Dirty
        <5>2. ToSet(durable'.rows) \ ToSet(file') = Uncommitted
          BY <3>3, <5>1 DEF Uncommitted
        <5>3. QED
          BY <5>2 DEF TxInv, OneBatch
      <4>3. QED
        BY <4>1, <4>2
    <3>4. QED
      BY <3>1, <3>2, <3>3
  <2>2. QED
    BY <1>2, <2>1 DEF OneBatch
<1>11. QED
  BY <1>3, <1>4, <1>9, <1>10

LEMMA RetiredTypes ==
  ASSUME TypeOK, Retire
  PROVE  /\ saves' \in Seq(Dbs)
         /\ frames' \in Seq([after : SUBSET Handles, settles : SUBSET Callbacks])
         /\ Len(frames') = Len(saves') + 1 /\ txId' \in 0..MaxTx
<1>1. saves' \in Seq(Dbs) /\ Len(saves') = 0
  BY NoSaves DEF Retire
<1>2. frames' \in Seq(Frames) /\ Len(frames') = 1
  BY NoFrames DEF Retire
<1>3. txId' \in 0..MaxTx
  BY BoundsAssumption DEF Retire
<1>4. QED
  BY <1>1, <1>2, <1>3 DEF Frames

LEMMA LatchIs ==
  ASSUME TypeOK, NEW hs, NEW outcome \in Outcomes, handle' = Latch(hs, outcome)
  PROVE  /\ handle' \in [Handles -> Outcomes]
         /\ \A h \in Handles :
              handle'[h] = IF h \in hs /\ handle[h] = "in-flight" THEN outcome ELSE handle[h]
BY DEF TypeOK, Latch

LEMMA CommittedStays ==
  ASSUME TxInv
  PROVE  ToSet(durable.rows) \subseteq ToSet(db.rows)
BY Typed, PrefixSet DEF TxInv, RowsChain, Rows

LEMMA RollbackKeeps == ASSUME TxInv, Rollback PROVE TxInv'
<1>1. exemption' = None
  <2>1. CASE exemption = None
    BY <2>1 DEF Rollback, RolledBack
  <2>2. CASE exemption # None
    BY <2>2, EverythingIs DEF Rollback, RolledBack
  <2>3. QED
    BY <2>1, <2>2
<1>2. handle' = Latch(Uncommitted, "rolled-back")
  <2>1. {h \in Handles : <<"settle", h>> \in Everything.settles} = Uncommitted
    <3>1. Uncommitted \subseteq Handles
      BY EverythingIs, Typed DEF Everything, TxInv
    <3>2. QED
      BY <3>1, EverythingIs
  <2>2. QED
    BY <2>1 DEF Rollback, RolledBack
<1>3. handle' \in [Handles -> Outcomes]
      /\ \A h \in Handles :
           handle'[h] = IF h \in Uncommitted /\ handle[h] = "in-flight"
                        THEN "rolled-back" ELSE handle[h]
  BY <1>2, LatchIs DEF TxInv, Outcomes, Settled
<1>4. TypeOK'
  BY <1>1, <1>3, RetiredTypes DEF Rollback, TxInv, TypeOK
<1>5. RowsChain' /\ FramesHold' /\ CallbacksFollow' /\ ExemptionHolds' /\ OneBatch'
  BY <1>1, <1>4, Ended DEF Rollback
<1>6. HandlesKnow'
  <2>1. durable' = durable /\ db' = durable /\ lost' = lost
    BY DEF Rollback
  <2>2. QED
    BY <1>3, <2>1, CommittedStays DEF TxInv, HandlesKnow, Uncommitted
<1>7. QED
  BY <1>4, <1>5, <1>6 DEF TxInv

LEMMA MirroredIs ==
  ASSUME TxInv, NEW queued
  PROVE  Mirrored(queued, db.rows) \in {file, db.rows} /\ Mirrored(queued, db.rows) \in Rows
BY Typed DEF Mirrored, TxInv

LEMMA CommitKeeps == ASSUME TxInv, Commit PROVE TxInv'
<1> DEFINE outcome == IF file' = db.rows THEN "anchored" ELSE "unanchored"
<1>1. exemption' = None
  <2>1. exemption # None => Everything.after # {}
    BY Dirty, EverythingIs
  <2>2. QED
    BY <2>1 DEF Commit
<1>2. handle' = Latch(Uncommitted, outcome) /\ outcome \in Outcomes
  BY EverythingIs DEF Commit, Outcomes, Settled
<1>3. handle' \in [Handles -> Outcomes]
      /\ \A h \in Handles :
           handle'[h] = IF h \in Uncommitted /\ handle[h] = "in-flight" THEN outcome ELSE handle[h]
  BY <1>2, LatchIs DEF TxInv
<1>4. file' \in {file, db.rows} /\ file' \in Rows
  BY MirroredIs DEF Commit
<1>5. TypeOK'
  BY <1>1, <1>3, <1>4, RetiredTypes DEF Commit, TxInv, TypeOK
<1>6. RowsChain' /\ FramesHold' /\ CallbacksFollow' /\ ExemptionHolds' /\ OneBatch'
  BY <1>1, <1>4, <1>5, Ended DEF Commit
<1>7. HandlesKnow'
  <2>1. durable' = db /\ db' = db /\ lost' = lost
    BY DEF Commit
  <2>2. QED
    BY <1>3, <2>1, CommittedStays DEF TxInv, HandlesKnow, Uncommitted
<1>8. QED
  BY <1>5, <1>6, <1>7 DEF TxInv

LEMMA ThrowKeeps == ASSUME TxInv, CommitCallbackThrows PROVE TxInv'
<1>1. PICK unheard \in SUBSET Everything.after \ {{}} :
        /\ handle' = Latch(Everything.after \ unheard, "unanchored")
        /\ lost' = lost \cup unheard
  BY DEF CommitCallbackThrows
<1>2. unheard \subseteq Uncommitted /\ unheard \subseteq Handles
  BY EverythingIs, Typed DEF Everything, TxInv
<1>3. handle' = Latch(Uncommitted \ unheard, "unanchored")
  BY <1>1, EverythingIs
<1>4. handle' \in [Handles -> Outcomes]
      /\ \A h \in Handles :
           handle'[h] = IF h \in Uncommitted \ unheard /\ handle[h] = "in-flight"
                        THEN "unanchored" ELSE handle[h]
  BY <1>3, LatchIs DEF TxInv, Outcomes, Settled
<1>5. file' \in {file, db.rows} /\ file' \in Rows
  BY MirroredIs DEF CommitCallbackThrows
<1>6. TypeOK'
  <2>1. lost' \subseteq Handles
    BY <1>1, <1>2 DEF TxInv, TypeOK
  <2>2. exemption' = None
    BY DEF CommitCallbackThrows
  <2>3. QED
    BY <1>4, <1>5, <2>1, <2>2, RetiredTypes DEF CommitCallbackThrows, TxInv, TypeOK
<1>7. RowsChain' /\ FramesHold' /\ CallbacksFollow' /\ ExemptionHolds' /\ OneBatch'
  BY <1>5, <1>6, Ended DEF CommitCallbackThrows
<1>8. HandlesKnow'
  <2>1. durable' = db /\ db' = db
    BY DEF CommitCallbackThrows
  <2>2. QED
    BY <1>1, <1>4, <2>1, CommittedStays DEF TxInv, HandlesKnow, Uncommitted
<1>9. QED
  BY <1>6, <1>7, <1>8 DEF TxInv

LEMMA CrashKeeps == ASSUME TxInv, Crash \/ CommitThenCrash PROVE TxInv'
<1>1. durable' \in {db, durable} /\ Restart
  BY DEF Crash, CommitThenCrash
<1>2. handle' \in [Handles -> Outcomes]
      /\ \A h \in Handles :
           handle'[h] = IF h \in Handles /\ handle[h] = "in-flight" THEN "gone" ELSE handle[h]
  BY <1>1, LatchIs DEF Restart, TxInv, Outcomes
<1>3. TypeOK'
  BY <1>1, <1>2, RetiredTypes DEF Restart, TxInv, TypeOK
<1>4. RowsChain' /\ FramesHold' /\ CallbacksFollow' /\ ExemptionHolds' /\ OneBatch'
  BY <1>1, <1>3, Ended DEF Restart
<1>5. HandlesKnow'
  BY <1>1, <1>2, CommittedStays DEF Restart, TxInv, HandlesKnow, Uncommitted
<1>6. QED
  BY <1>3, <1>4, <1>5 DEF TxInv


-----------------------------------------------------------------------------
(* The other steps.                                                        *)

LEMMA JamKeeps == ASSUME TxInv, Jam \/ UNCHANGED vars PROVE TxInv'
<1>1. UNCHANGED <<durable, db, saves, frames, txId, txCount, exemption, handle, file, minted,
                  txOf, lost>> /\ jammed' \in BOOLEAN
  BY DEF Jam, vars, memory, TxInv, TypeOK
<1>2. TypeOK'
  BY <1>1 DEF TxInv, TypeOK
<1>3. RowsChain' /\ OneBatch' /\ HandlesKnow'
  BY <1>1 DEF TxInv, RowsChain, OneBatch, HandlesKnow, Uncommitted, InTransaction
<1>4. FramesHold' /\ CallbacksFollow' /\ ExemptionHolds'
  BY <1>1 DEF TxInv, FramesHold, CallbacksFollow, CallbacksOf, ExemptionHolds, Uncommitted,
       TokenTells, InTransaction
<1>5. QED
  BY <1>2, <1>3, <1>4 DEF TxInv

LEMMA BeginKeeps == ASSUME TxInv, Begin PROVE TxInv'
<1>1. UNCHANGED <<durable, db, saves, frames, exemption, handle, file, minted, txOf, lost>>
      /\ ~InTransaction
  BY DEF Begin
<1>2. exemption = None
  BY <1>1, Dirty
<1>3. TypeOK'
  <2>1. txCount' \in 0..MaxTx /\ txId' \in 0..MaxTx
    BY BoundsAssumption DEF Begin, TxInv, TypeOK
  <2>2. QED
    BY <2>1 DEF Begin, TxInv, TypeOK
<1>4. InTransaction'
  BY DEF Begin, InTransaction, TxInv, TypeOK
<1>5. RowsChain' /\ OneBatch' /\ HandlesKnow'
  BY <1>1, <1>2, <1>4, Clean DEF TxInv, RowsChain, OneBatch, HandlesKnow, Uncommitted
<1>6. FramesHold' /\ CallbacksFollow' /\ ExemptionHolds'
  BY <1>1, <1>2 DEF TxInv, FramesHold, CallbacksFollow, CallbacksOf, ExemptionHolds,
       Uncommitted, TokenTells
<1>7. QED
  BY <1>3, <1>5, <1>6 DEF TxInv

LEMMA SavepointKeeps == ASSUME TxInv, Savepoint PROVE TxInv'
<1> DEFINE n == Len(saves)
<1>1. /\ UNCHANGED <<durable, db, exemption, txId, txCount>>
      /\ UNCHANGED <<handle, file, jammed, minted, txOf, lost>>
      /\ saves' = Append(saves, db) /\ frames' = Append(frames, NewFrame) /\ InTransaction
  BY DEF Savepoint
<1>2. /\ saves \in Seq(Dbs) /\ DOMAIN saves = 1..n /\ n \in Nat
      /\ frames \in Seq(Frames) /\ DOMAIN frames = 1..(n + 1) /\ Len(frames) = n + 1
      /\ db \in Dbs /\ db.rows \in Seq(Handles) /\ durable.rows \in Seq(Handles)
  BY Typed DEF TxInv, TypeOK, Rows
<1>3. /\ saves' \in Seq(Dbs) /\ Len(saves') = n + 1 /\ DOMAIN saves' = 1..(n + 1)
      /\ saves'[n + 1] = db /\ \A j \in 1..n : saves'[j] = saves[j]
  BY <1>1, <1>2, AppendIs
<1>4. /\ frames' \in Seq(Frames) /\ Len(frames') = n + 2 /\ DOMAIN frames' = 1..(n + 2)
      /\ frames'[n + 2] = NewFrame /\ \A i \in 1..(n + 1) : frames'[i] = frames[i]
  <2>1. /\ frames' \in Seq(Frames) /\ Len(frames') = Len(frames) + 1
        /\ DOMAIN frames' = 1..(Len(frames) + 1)
        /\ frames'[Len(frames) + 1] = NewFrame /\ \A i \in 1..Len(frames) : frames'[i] = frames[i]
    BY <1>1, <1>2, NoFrames, AppendIs
  <2>2. QED
    BY <1>2, <2>1
<1> HIDE DEF n
<1>5. TypeOK'
  <2>1. Len(frames') = Len(saves') + 1
    BY <1>2, <1>3, <1>4
  <2>2. QED
    BY <1>1, <1>3, <1>4, <2>1 DEF TxInv, TypeOK, Frames
<1>6. \A j \in DOMAIN saves' : saves'[j] = db \/ (j \in DOMAIN saves /\ saves'[j] = saves[j])
  BY <1>2, <1>3
<1>7. RowsChain'
  <2>1. \A j \in DOMAIN saves' :
          IsPrefix(durable.rows, saves'[j].rows) /\ IsPrefix(saves'[j].rows, db.rows)
    <3>1. IsPrefix(db.rows, db.rows) /\ IsPrefix(durable.rows, db.rows)
      BY <1>2, PrefixSelf DEF TxInv, RowsChain
    <3>2. QED
      BY <1>6, <3>1 DEF TxInv, RowsChain
  <2>2. \A i, j \in DOMAIN saves' : i <= j => IsPrefix(saves'[i].rows, saves'[j].rows)
    <3>1. SUFFICES ASSUME NEW i \in DOMAIN saves', NEW j \in DOMAIN saves', i <= j
                   PROVE  IsPrefix(saves'[i].rows, saves'[j].rows)
      OBVIOUS
    <3>2. CASE j = n + 1
      BY <1>1, <1>3, <2>1, <3>2
    <3>3. CASE j \in 1..n
      <4>1. i \in DOMAIN saves /\ j \in DOMAIN saves /\ saves'[i] = saves[i] /\ saves'[j] = saves[j]
        BY <1>2, <1>3, <3>1, <3>3
      <4>2. QED
        BY <3>1, <4>1 DEF TxInv, RowsChain
    <3>4. QED
      BY <1>2, <1>3, <3>2, <3>3
  <2>3. InTransaction'
    BY <1>1 DEF InTransaction
  <2>4. QED
    BY <1>1, <2>1, <2>2, <2>3 DEF TxInv, RowsChain
<1>8. \A i \in DOMAIN frames' :
        frames'[i] = NewFrame \/ (i \in DOMAIN frames /\ frames'[i] = frames[i] /\ i <= n + 1)
  BY <1>2, <1>4
<1>9. FramesHold'
  <2>1. ASSUME NEW i \in DOMAIN frames', NEW h \in frames'[i].after
        PROVE  /\ h \in Uncommitted
               /\ \A j \in DOMAIN saves' : h \in ToSet(saves'[j].rows) <=> i <= j
    <3>1. i \in DOMAIN frames /\ frames'[i] = frames[i] /\ i <= n + 1 /\ h \in frames[i].after
      BY <1>8, <2>1 DEF NewFrame
    <3>2. h \in Uncommitted
      BY <3>1 DEF TxInv, FramesHold
    <3>3. ASSUME NEW j \in DOMAIN saves' PROVE h \in ToSet(saves'[j].rows) <=> i <= j
      <4>1. CASE j = n + 1
        BY <1>3, <3>1, <3>2, <4>1 DEF Uncommitted
      <4>2. CASE j \in 1..n
        <5>1. j \in DOMAIN saves /\ saves'[j] = saves[j]
          BY <1>2, <1>3, <4>2
        <5>2. QED
          BY <3>1, <5>1 DEF TxInv, FramesHold
      <4>3. QED
        BY <1>2, <1>3, <4>1, <4>2
    <3>4. QED
      BY <3>2, <3>3
  <2>2. \A i \in DOMAIN frames : i \in DOMAIN frames' /\ frames'[i] = frames[i]
    BY <1>2, <1>4
  <2>3. Uncommitted' = Uncommitted
    BY <1>1 DEF Uncommitted
  <2>4. \A h \in Uncommitted : \E i \in DOMAIN frames' : h \in frames'[i].after
    BY <2>2 DEF TxInv, FramesHold
  <2>5. QED
    BY <2>1, <2>3, <2>4 DEF FramesHold
<1>10. CallbacksFollow'
  <2>1. SUFFICES ASSUME NEW i \in DOMAIN frames' PROVE CallbacksOf(i)'
    BY DEF CallbacksFollow
  <2>2. CASE frames'[i] = NewFrame
    BY <2>2 DEF CallbacksOf, NewFrame
  <2>3. CASE i \in DOMAIN frames /\ frames'[i] = frames[i]
    BY <1>1, <2>3 DEF TxInv, CallbacksFollow, CallbacksOf
  <2>4. QED
    BY <1>8, <2>2, <2>3
<1>11. ExemptionHolds'
  BY <1>1, <1>6 DEF TxInv, ExemptionHolds, TokenTells, InTransaction
<1>12. OneBatch' /\ HandlesKnow'
  BY <1>1 DEF TxInv, OneBatch, HandlesKnow, Uncommitted
<1>13. QED
  BY <1>5, <1>7, <1>9, <1>10, <1>11, <1>12 DEF TxInv

\* The stack without its innermost level.
LEMMA Shorter ==
  ASSUME TxInv, saves # <<>>, saves' = Front(saves)
  PROVE  /\ Len(saves) \in Nat /\ Len(saves) >= 1 /\ saves' \in Seq(Dbs)
         /\ Len(saves') = Len(saves) - 1 /\ DOMAIN saves' = 1..(Len(saves) - 1)
         /\ \A j \in DOMAIN saves' : j \in DOMAIN saves /\ saves'[j] = saves[j]
         /\ DOMAIN saves = 1..Len(saves) /\ Len(saves) \in DOMAIN saves
         /\ Last(saves) = saves[Len(saves)] /\ Last(saves) \in Dbs
         /\ frames \in Seq(Frames) /\ DOMAIN frames = 1..(Len(saves) + 1)
         /\ Front(frames) \in Seq(Frames) /\ Len(Front(frames)) = Len(saves)
         /\ DOMAIN Front(frames) = 1..Len(saves)
         /\ \A i \in DOMAIN Front(frames) : i \in DOMAIN frames /\ Front(frames)[i] = frames[i]
         /\ Last(frames) = frames[Len(saves) + 1] /\ Last(frames) \in Frames
<1> DEFINE n == Len(saves)
<1>1. /\ saves \in Seq(Dbs) /\ frames \in Seq(Frames) /\ Len(frames) = n + 1 /\ frames # <<>>
      /\ DOMAIN frames = 1..(n + 1)
  BY Typed DEF TxInv
<1>2. /\ n \in Nat /\ n >= 1 /\ saves' \in Seq(Dbs) /\ Len(saves') = n - 1
      /\ DOMAIN saves = 1..n /\ DOMAIN saves' = 1..(n - 1)
      /\ \A j \in 1..(n - 1) : saves'[j] = saves[j]
      /\ Last(saves) = saves[n] /\ Last(saves) \in Dbs
  BY <1>1, FrontIs
<1>3. /\ Front(frames) \in Seq(Frames) /\ Len(Front(frames)) = Len(frames) - 1
      /\ DOMAIN Front(frames) = 1..(Len(frames) - 1)
      /\ \A i \in 1..(Len(frames) - 1) : Front(frames)[i] = frames[i]
      /\ Last(frames) = frames[Len(frames)] /\ Last(frames) \in Frames
  BY <1>1, FrontIs
<1> HIDE DEF n
<1>4. Len(frames) - 1 = n
  BY <1>1, <1>2
<1>5. \A j \in 1..(n - 1) : j \in 1..n
  BY <1>2
<1>6. \A i \in 1..n : i \in 1..(n + 1)
  BY <1>2
<1>7. n \in 1..n
  BY <1>2
<1>8. QED
  BY <1>1, <1>2, <1>3, <1>4, <1>5, <1>6, <1>7 DEF n

LEMMA MergeIs ==
  ASSUME NEW f \in Frames, NEW g \in Frames
  PROVE  /\ Merge(f, g) \in Frames
         /\ Merge(f, g).after = f.after \cup g.after
         /\ Merge(f, g).settles = f.settles \cup g.settles
BY DEF Merge, Frames

LEMMA ReleaseKeeps == ASSUME TxInv, Release PROVE TxInv'
<1> DEFINE n == Len(saves)
<1> DEFINE parent == Front(frames)
<1>1. /\ UNCHANGED <<durable, db, exemption, txId, txCount>>
      /\ UNCHANGED <<handle, file, jammed, minted, txOf, lost>>
      /\ saves # <<>> /\ saves' = Front(saves)
      /\ frames' = [parent EXCEPT ![Len(parent)] = Merge(@, Last(frames))]
  BY DEF Release
<1>2. /\ n \in Nat /\ n >= 1 /\ saves' \in Seq(Dbs) /\ Len(saves') = n - 1
      /\ DOMAIN saves' = 1..(n - 1)
      /\ \A j \in DOMAIN saves' : j \in DOMAIN saves /\ saves'[j] = saves[j]
      /\ DOMAIN saves = 1..n /\ Last(saves) = saves[n]
      /\ frames \in Seq(Frames) /\ DOMAIN frames = 1..(n + 1)
      /\ parent \in Seq(Frames) /\ Len(parent) = n /\ DOMAIN parent = 1..n
      /\ \A i \in DOMAIN parent : i \in DOMAIN frames /\ parent[i] = frames[i]
      /\ Last(frames) = frames[n + 1] /\ Last(frames) \in Frames
  BY <1>1, Shorter
<1> DEFINE merged == Merge(frames[n], frames[n + 1])
<1> HIDE DEF n, parent
<1>3. n \in 1..n /\ n \in 1..(n + 1) /\ n + 1 \in 1..(n + 1) /\ n \notin 1..(n - 1)
  BY <1>2
<1>4. frames[n] \in Frames /\ frames[n + 1] \in Frames
  BY <1>2, <1>3, ElementOfSeq
<1>5. /\ merged \in Frames /\ merged.after = frames[n].after \cup frames[n + 1].after
      /\ merged.settles = frames[n].settles \cup frames[n + 1].settles
  BY <1>4, MergeIs
<1> HIDE DEF merged
<1>6. frames' = [parent EXCEPT ![n] = merged]
  BY <1>1, <1>2, <1>3 DEF merged
<1>7. /\ frames' \in Seq(Frames) /\ Len(frames') = n /\ DOMAIN frames' = 1..n
      /\ \A i \in 1..n : frames'[i] = IF i = n THEN merged ELSE parent[i]
  <2>1. /\ frames' \in Seq(Frames) /\ Len(frames') = Len(parent)
        /\ \A i \in 1..Len(parent) : frames'[i] = IF i = n THEN merged ELSE parent[i]
    BY <1>2, <1>3, <1>5, <1>6, ExceptSeq
  <2>2. DOMAIN frames' = 1..Len(frames')
    BY <2>1, LenProperties
  <2>3. QED
    BY <1>2, <2>1, <2>2
<1>8. TypeOK'
  <2>1. Len(frames') = Len(saves') + 1
    BY <1>2, <1>7
  <2>2. QED
    BY <1>1, <1>2, <1>7, <2>1 DEF TxInv, TypeOK, Frames
<1>9. RowsChain' /\ ExemptionHolds'
  <2>1. InTransaction
    BY <1>1 DEF TxInv, RowsChain
  <2>2. QED
    BY <1>1, <1>2, <2>1 DEF TxInv, RowsChain, ExemptionHolds, TokenTells, InTransaction
\* Each frame is one of before, or the two innermost ones.
<1>10. \A i \in DOMAIN frames' :
        \/ i \in DOMAIN frames /\ frames'[i] = frames[i]
        \/ i = n /\ frames'[i] = merged
  BY <1>2, <1>7
<1>11. FramesHold'
  <2>1. ASSUME NEW i \in DOMAIN frames', NEW h \in frames'[i].after
        PROVE  /\ h \in Uncommitted
               /\ \A j \in DOMAIN saves' : h \in ToSet(saves'[j].rows) <=> i <= j
    <3>1. CASE i \in DOMAIN frames /\ h \in frames[i].after
      BY <1>2, <3>1 DEF TxInv, FramesHold
    <3>2. CASE i = n /\ h \in frames[n + 1].after
      <4>1. \A j \in DOMAIN saves : h \in ToSet(saves[j].rows) <=> n + 1 <= j
        BY <1>2, <1>3, <3>2 DEF TxInv, FramesHold
      <4>2. \A j \in DOMAIN saves' : ~ (n + 1 <= j) /\ ~ (i <= j)
        BY <1>2, <3>2
      <4>3. h \in Uncommitted
        BY <1>2, <1>3, <3>2 DEF TxInv, FramesHold
      <4>4. QED
        BY <1>2, <4>1, <4>2, <4>3
    <3>3. QED
      BY <1>2, <1>3, <1>5, <1>10, <2>1, <3>1, <3>2
  <2>2. ASSUME NEW i \in DOMAIN frames, NEW h \in frames[i].after
        PROVE  \E k \in DOMAIN frames' : h \in frames'[k].after
    <3>1. CASE i \in 1..(n - 1)
      <4>1. i \in DOMAIN frames' /\ frames'[i] = frames[i]
        BY <1>2, <1>7, <3>1
      <4>2. QED
        BY <2>2, <4>1
    <3>2. CASE i \in {n, n + 1}
      <4>1. n \in DOMAIN frames' /\ h \in frames'[n].after
        BY <1>3, <1>5, <1>7, <2>2, <3>2
      <4>2. QED
        BY <4>1
    <3>3. QED
      BY <1>2, <3>1, <3>2
  <2>3. Uncommitted' = Uncommitted
    BY <1>1 DEF Uncommitted
  <2>4. \A h \in Uncommitted : \E i \in DOMAIN frames' : h \in frames'[i].after
    BY <2>2 DEF TxInv, FramesHold
  <2>5. QED
    BY <2>1, <2>3, <2>4 DEF FramesHold
<1>12. CallbacksFollow'
  <2>1. SUFFICES ASSUME NEW i \in DOMAIN frames' PROVE CallbacksOf(i)'
    BY DEF CallbacksFollow
  <2>2. CASE i \in DOMAIN frames /\ frames'[i] = frames[i]
    BY <1>1, <2>2 DEF TxInv, CallbacksFollow, CallbacksOf
  <2>3. CASE i = n /\ frames'[i] = merged
    <3>1. n \in DOMAIN frames /\ n + 1 \in DOMAIN frames
      BY <1>2, <1>3
    <3>2. QED
      BY <1>1, <1>5, <2>3, <3>1 DEF TxInv, CallbacksFollow, CallbacksOf
  <2>4. QED
    BY <1>10, <2>2, <2>3
<1>13. OneBatch' /\ HandlesKnow'
  BY <1>1 DEF TxInv, OneBatch, HandlesKnow, Uncommitted
<1>14. QED
  BY <1>8, <1>9, <1>11, <1>12, <1>13 DEF TxInv


\* What of the transaction is left when its innermost savepoint is taken back.
LEMMA Remainder ==
  ASSUME TxInv, saves # <<>>
  PROVE  /\ Last(saves).rows \in Rows
         /\ \A h \in Last(frames).after : h \in Uncommitted /\ h \notin ToSet(Last(saves).rows)
         /\ \A h \in Uncommitted : h \in ToSet(Last(saves).rows) \/ h \in Last(frames).after
         /\ IsPrefix(durable.rows, Last(saves).rows) /\ IsPrefix(Last(saves).rows, db.rows)
         /\ Last(frames).after = {} => Last(saves).rows = db.rows
         /\ TokenTells(Last(saves))
<1> DEFINE n == Len(saves)
<1> DEFINE s == Last(saves)
<1> DEFINE f == Last(frames)
<1>1. /\ n \in Nat /\ n >= 1 /\ DOMAIN saves = 1..n /\ n \in DOMAIN saves /\ s = saves[n]
      /\ DOMAIN frames = 1..(n + 1) /\ f = frames[n + 1] /\ s.rows \in Seq(Handles)
      /\ db.rows \in Seq(Handles) /\ durable.rows \in Seq(Handles)
  <2>1. /\ saves \in Seq(Dbs) /\ frames \in Seq(Frames) /\ Len(frames) = n + 1 /\ frames # <<>>
        /\ DOMAIN frames = 1..(n + 1)
        /\ db.rows \in Seq(Handles) /\ durable.rows \in Seq(Handles)
    BY Typed DEF TxInv, Rows
  <2>2. n \in Nat /\ n >= 1 /\ DOMAIN saves = 1..n /\ s = saves[n] /\ s \in Dbs
    BY <2>1, FrontIs
  <2>3. f = frames[n + 1]
    BY <2>1 DEF Last
  <2>4. n \in 1..n
    BY <2>2
  <2>5. QED
    BY <2>1, <2>2, <2>3, <2>4 DEF Dbs, Rows
<1> HIDE DEF n, s, f
<1>2. n + 1 \in 1..(n + 1) /\ ~ (n + 1 <= n)
  BY <1>1
<1>3. \A h \in f.after : h \in Uncommitted /\ h \notin ToSet(s.rows)
  BY <1>1, <1>2 DEF TxInv, FramesHold
<1>4. \A h \in Uncommitted : h \in ToSet(s.rows) \/ h \in f.after
  <2>1. SUFFICES ASSUME NEW h \in Uncommitted, h \notin f.after PROVE h \in ToSet(s.rows)
    OBVIOUS
  <2>2. PICK i \in DOMAIN frames : h \in frames[i].after
    BY <2>1 DEF TxInv, FramesHold
  <2>3. i <= n
    <3>1. i \in 1..(n + 1) /\ i # n + 1
      BY <1>1, <2>1, <2>2
    <3>2. QED
      BY <1>1, <3>1
  <2>4. QED
    BY <1>1, <2>2, <2>3 DEF TxInv, FramesHold
<1>5. IsPrefix(durable.rows, s.rows) /\ IsPrefix(s.rows, db.rows) /\ TokenTells(s)
  BY <1>1 DEF TxInv, RowsChain, ExemptionHolds
<1>6. ASSUME f.after = {} PROVE s.rows = db.rows
  <2>1. ToSet(durable.rows) \subseteq ToSet(s.rows)
    BY <1>1, <1>5, PrefixSet
  <2>2. ToSet(db.rows) \subseteq ToSet(s.rows)
    BY <1>4, <1>6, <2>1 DEF Uncommitted
  <2>3. \A i, j \in DOMAIN db.rows : db.rows[i] = db.rows[j] => i = j
    BY DEF TxInv, RowsChain
  <2>4. QED
    BY <1>1, <1>5, <2>2, <2>3, WholePrefix
<1>7. QED
  BY <1>1, <1>3, <1>4, <1>5, <1>6 DEF s, f, Rows

LEMMA UnwindKeeps == ASSUME TxInv, Unwind PROVE TxInv'
<1> DEFINE n == Len(saves)
<1> DEFINE s == Last(saves)
<1> DEFINE f == Last(frames)
<1>1. /\ UNCHANGED <<durable, txId, txCount, file, jammed, minted, txOf, lost>>
      /\ saves # <<>> /\ saves' = Front(saves) /\ frames' = Front(frames) /\ db' = s
      /\ RolledBack(f, s)
  BY DEF Unwind
<1>2. /\ n \in Nat /\ n >= 1 /\ saves' \in Seq(Dbs) /\ Len(saves') = n - 1
      /\ DOMAIN saves' = 1..(n - 1)
      /\ \A j \in DOMAIN saves' : j \in DOMAIN saves /\ saves'[j] = saves[j]
      /\ DOMAIN saves = 1..n /\ s = saves[n] /\ s \in Dbs
      /\ DOMAIN frames = 1..(n + 1)
      /\ frames' \in Seq(Frames) /\ Len(frames') = n /\ DOMAIN frames' = 1..n
      /\ \A i \in DOMAIN frames' : i \in DOMAIN frames /\ frames'[i] = frames[i]
      /\ f = frames[n + 1] /\ f \in Frames
  BY <1>1, Shorter
<1>3. /\ s.rows \in Rows
      /\ \A h \in f.after : h \in Uncommitted /\ h \notin ToSet(s.rows)
      /\ \A h \in Uncommitted : h \in ToSet(s.rows) \/ h \in f.after
      /\ IsPrefix(durable.rows, s.rows) /\ IsPrefix(s.rows, db.rows)
      /\ f.after = {} => s.rows = db.rows
      /\ TokenTells(s)
  BY <1>1, Remainder
<1> HIDE DEF n, s, f
<1>4. n + 1 \in DOMAIN frames /\ n \in DOMAIN saves
  BY <1>2
<1>5. durable.rows \in Seq(Handles) /\ db.rows \in Seq(Handles) /\ s.rows \in Seq(Handles)
  BY <1>3, Typed DEF TxInv, Rows
<1>6. ToSet(durable.rows) \subseteq ToSet(s.rows) /\ ToSet(s.rows) \subseteq ToSet(db.rows)
  BY <1>3, <1>5, PrefixSet
<1>7. Uncommitted' = {h \in Uncommitted : h \in ToSet(s.rows)}
  BY <1>1, <1>6 DEF Uncommitted
\* The exemption goes with the savepoint that armed it, or stays and is exact.
<1>8. exemption = None => exemption' = None /\ s.rows = durable.rows
  BY <1>1, <1>2, <1>4, Clean DEF RolledBack
<1>9. /\ exemption = None => exemption' = None /\ s.rows = durable.rows
      /\ exemption # None /\ exemption.token \in f.after =>
           exemption' = None /\ s.rows = durable.rows
      /\ exemption # None /\ exemption.token \notin f.after =>
           /\ exemption' = [exemption EXCEPT !.minted = s.rows]
           /\ s.rows # durable.rows /\ exemption.token \in ToSet(s.rows)
           /\ s.token = exemption.token
  <2>1. CallbacksOf(n + 1)
    BY <1>4 DEF TxInv, CallbacksFollow
  <2>2. ASSUME exemption # None, exemption.token \in f.after
        PROVE  exemption' = None /\ s.rows = durable.rows
    <3>1. <<"drop", exemption.token>> \in f.settles
      BY <1>2, <2>1, <2>2 DEF CallbacksOf
    <3>2. exemption' = None
      BY <1>1, <2>2, <3>1 DEF RolledBack
    <3>3. exemption.token \notin ToSet(s.rows)
      BY <1>3, <2>2
    <3>4. QED
      BY <1>3, <3>2, <3>3 DEF TokenTells
  <2>3. ASSUME exemption # None, exemption.token \notin f.after
        PROVE  /\ exemption' = [exemption EXCEPT !.minted = s.rows]
               /\ s.rows # durable.rows /\ exemption.token \in ToSet(s.rows)
               /\ s.token = exemption.token
    <3>1. exemption.token \in Uncommitted /\ exemption \in Exemptions
      BY <2>3, Dirty
    <3>2. exemption.token \in ToSet(s.rows) /\ exemption.token \notin ToSet(durable.rows)
      BY <1>3, <2>3, <3>1 DEF Uncommitted
    <3>3. s.rows # durable.rows /\ s.token = exemption.token
      BY <1>3, <3>2 DEF TokenTells
    <3>4. <<"drop", exemption.token>> \notin f.settles
      <4>1. exemption.token \in Handles
        BY <3>1 DEF Exemptions
      <4>2. QED
        BY <1>2, <2>1, <2>3, <4>1 DEF CallbacksOf
    <3>5. CASE <<"restore", exemption.token>> \in f.settles
      BY <1>1, <2>3, <3>2, <3>3, <3>4, <3>5 DEF RolledBack
    <3>6. CASE <<"restore", exemption.token>> \notin f.settles
      <4>1. f.after = {}
        BY <1>2, <2>1, <2>3, <3>6 DEF CallbacksOf
      <4>2. exemption.minted = s.rows
        BY <1>3, <2>3, <4>1 DEF TxInv, ExemptionHolds
      <4>3. exemption' = exemption
        BY <1>1, <2>3, <3>4, <3>6 DEF RolledBack
      <4>4. [exemption EXCEPT !.minted = s.rows] = exemption
        BY <3>1, <4>2 DEF Exemptions
      <4>5. QED
        BY <3>2, <3>3, <4>3, <4>4
    <3>7. QED
      BY <3>5, <3>6
  <2>4. QED
    BY <1>8, <2>2, <2>3
<1>10. /\ exemption' \in {None} \cup Exemptions
       /\ exemption' # None =>
            /\ exemption # None /\ exemption'.token = exemption.token
            /\ exemption'.raw = exemption.raw /\ exemption'.txId = exemption.txId
            /\ exemption'.minted = s.rows
       /\ exemption' = None <=> s.rows = durable.rows
  <2>1. CASE exemption' = None
    <3>1. ASSUME exemption # None, exemption.token \notin f.after PROVE FALSE
      <4>1. exemption \in Exemptions
        BY <3>1, Dirty
      <4>2. [exemption EXCEPT !.minted = s.rows] \in Exemptions
        BY <1>5, <4>1 DEF Exemptions
      <4>3. QED
        BY <1>9, <2>1, <3>1, <4>2, NoneAssumption
    <3>2. QED
      BY <1>9, <2>1, <3>1
  <2>2. CASE exemption' # None
    <3>1. /\ exemption # None /\ exemption.token \notin f.after
          /\ exemption' = [exemption EXCEPT !.minted = s.rows]
      BY <1>9, <2>2
    <3>2. exemption \in Exemptions
      BY <3>1, Dirty
    <3>3. /\ exemption'.token = exemption.token /\ exemption'.raw = exemption.raw
          /\ exemption'.txId = exemption.txId /\ exemption'.minted = s.rows
          /\ exemption' \in Exemptions
      BY <1>5, <3>1, <3>2 DEF Exemptions
    <3>4. QED
      BY <1>9, <2>2, <3>1, <3>3
  <2>3. QED
    BY <2>1, <2>2
<1>11. handle' \in [Handles -> Outcomes]
       /\ \A h \in Handles :
            handle'[h] = IF h \in f.after /\ handle[h] = "in-flight"
                         THEN "rolled-back" ELSE handle[h]
  <2>1. {h \in Handles : <<"settle", h>> \in f.settles} = f.after
    <3>1. CallbacksOf(n + 1)
      BY <1>4 DEF TxInv, CallbacksFollow
    <3>2. QED
      BY <1>2, <3>1 DEF CallbacksOf, Frames
  <2>2. handle' = Latch(f.after, "rolled-back")
    BY <1>1, <2>1 DEF RolledBack
  <2>3. QED
    BY <2>2, LatchIs DEF TxInv, Outcomes, Settled
<1>12. TypeOK'
  <2>1. Len(frames') = Len(saves') + 1
    BY <1>2
  <2>2. QED
    BY <1>1, <1>2, <1>10, <1>11, <2>1 DEF TxInv, TypeOK, Frames
<1>13. RowsChain'
  <2>1. \A i, j \in DOMAIN s.rows : s.rows[i] = s.rows[j] => i = j
    <3>1. \A k \in DOMAIN s.rows : k \in DOMAIN db.rows /\ s.rows[k] = db.rows[k]
      BY <1>3, <1>5, PrefixIs
    <3>2. QED
      BY <3>1 DEF TxInv, RowsChain
  <2>2. \A h \in ToSet(s.rows) : h <= minted
    BY <1>6 DEF TxInv, RowsChain
  <2>3. \A j \in DOMAIN saves' :
          IsPrefix(durable.rows, saves'[j].rows) /\ IsPrefix(saves'[j].rows, s.rows)
    <3>1. SUFFICES ASSUME NEW j \in DOMAIN saves'
                   PROVE  IsPrefix(durable.rows, saves'[j].rows) /\ IsPrefix(saves'[j].rows, s.rows)
      OBVIOUS
    <3>2. j \in DOMAIN saves /\ saves'[j] = saves[j] /\ j <= n
      BY <1>2
    <3>3. QED
      BY <1>2, <1>4, <3>2 DEF TxInv, RowsChain
  <2>4. InTransaction /\ InTransaction'
    BY <1>1 DEF TxInv, RowsChain, InTransaction
  <2>5. \A i, j \in DOMAIN saves' : i <= j => IsPrefix(saves'[i].rows, saves'[j].rows)
    BY <1>2 DEF TxInv, RowsChain
  <2>6. QED
    BY <1>1, <1>3, <2>1, <2>2, <2>3, <2>4, <2>5 DEF TxInv, RowsChain
<1>14. FramesHold'
  <2>1. ASSUME NEW i \in DOMAIN frames', NEW h \in frames'[i].after
        PROVE  /\ h \in Uncommitted'
               /\ \A j \in DOMAIN saves' : h \in ToSet(saves'[j].rows) <=> i <= j
    <3>1. i \in DOMAIN frames /\ frames'[i] = frames[i] /\ i <= n /\ h \in frames[i].after
      BY <1>2, <2>1
    <3>2. h \in Uncommitted /\ \A j \in DOMAIN saves : h \in ToSet(saves[j].rows) <=> i <= j
      BY <3>1 DEF TxInv, FramesHold
    <3>3. h \in Uncommitted'
      BY <1>2, <1>4, <1>7, <3>1, <3>2
    <3>4. QED
      BY <1>2, <3>2, <3>3
  <2>2. ASSUME NEW h \in Uncommitted' PROVE \E i \in DOMAIN frames' : h \in frames'[i].after
    <3>1. h \in Uncommitted /\ h \notin f.after
      BY <1>3, <1>7, <2>2
    <3>2. PICK i \in DOMAIN frames : h \in frames[i].after
      BY <3>1 DEF TxInv, FramesHold
    <3>3. i \in 1..(n + 1) /\ i # n + 1
      BY <1>2, <3>1, <3>2
    <3>4. i \in DOMAIN frames'
      BY <1>2, <3>3
    <3>5. QED
      BY <1>2, <3>2, <3>4
  <2>3. QED
    BY <2>1, <2>2 DEF FramesHold
<1>15. CallbacksFollow'
  <2>1. SUFFICES ASSUME NEW i \in DOMAIN frames' PROVE CallbacksOf(i)'
    BY DEF CallbacksFollow
  <2>2. i \in DOMAIN frames /\ frames'[i] = frames[i]
    BY <1>2
  <2>3. CallbacksOf(i)
    BY <2>2 DEF TxInv, CallbacksFollow
  <2>4. QED
    BY <1>10, <2>2, <2>3 DEF CallbacksOf
<1>16. ExemptionHolds'
  <2>1. \A d : TokenTells(d) /\ (d.rows = durable.rows \/ exemption' # None) => TokenTells(d)'
    BY <1>1, <1>10 DEF TokenTells
  <2>2. \A j \in DOMAIN saves' : TokenTells(saves[j]) /\ saves'[j] = saves[j]
    BY <1>2 DEF TxInv, ExemptionHolds
  <2>3. ASSUME NEW j \in DOMAIN saves', exemption' = None PROVE saves[j].rows = durable.rows
    <3>1. j \in DOMAIN saves /\ j <= n
      BY <1>2
    <3>2. IsPrefix(saves[j].rows, s.rows) /\ IsPrefix(durable.rows, saves[j].rows)
      BY <1>2, <1>4, <3>1 DEF TxInv, RowsChain
    <3>3. s.rows = durable.rows /\ saves[j].rows \in Seq(Handles)
      BY <1>10, <2>3, <3>1, Typed DEF TxInv, Rows
    <3>4. QED
      BY <1>5, <3>2, <3>3, PrefixOrder
  <2>4. \A j \in DOMAIN saves' : TokenTells(saves[j])'
    BY <2>1, <2>2, <2>3
  <2>5. IF s.rows = durable.rows THEN s.token = durable.token
        ELSE exemption' # None /\ exemption'.token \in ToSet(s.rows) /\ s.token = exemption'.token
    BY <1>3, <1>10 DEF TokenTells
  <2>6. exemption' # None =>
       /\ InTransaction' /\ exemption'.txId = txId' /\ exemption'.raw = durable'.rows
       /\ exemption'.minted = db'.rows /\ file' = durable'.rows
       /\ exemption'.token \notin ToSet(durable'.rows)
    BY <1>1, <1>10 DEF TxInv, ExemptionHolds, InTransaction
  <2>7. TokenTells(db)'
    BY <1>1, <2>5 DEF TokenTells
  <2>8. \A j \in DOMAIN saves' : (TokenTells(saves[j]))'
    BY <2>2, <2>4 DEF TokenTells
  <2>9. exemption' = None <=> db'.rows = durable'.rows
    BY <1>1, <1>10
  <2>10. QED
    BY <2>2, <2>6, <2>7, <2>8, <2>9 DEF ExemptionHolds, TokenTells
<1>17. OneBatch'
  BY <1>1, <1>7 DEF TxInv, OneBatch
<1>18. HandlesKnow'
  <2>1. SUFFICES ASSUME NEW h \in Handles
        PROVE  /\ handle'[h] \in {"anchored", "unanchored"} => h \in ToSet(durable.rows)
               /\ handle'[h] = "rolled-back" => h \notin ToSet(s.rows)
               /\ handle'[h] = "in-flight" => h \in lost \/ h \in Uncommitted'
    BY <1>1 DEF HandlesKnow
  <2>2. CASE h \in f.after /\ handle[h] = "in-flight"
    BY <1>3, <1>11, <2>2
  <2>3. CASE ~ (h \in f.after /\ handle[h] = "in-flight")
    BY <1>3, <1>6, <1>7, <1>11, <2>3 DEF TxInv, HandlesKnow
  <2>4. QED
    BY <2>2, <2>3
<1>19. QED
  BY <1>12, <1>13, <1>14, <1>15, <1>16, <1>17, <1>18 DEF TxInv


\* The next handle is nobody's.
LEMMA Fresh ==
  ASSUME TxInv, minted < MaxAppends
  PROVE  /\ minted + 1 \in Handles /\ minted + 1 \in Nat /\ minted \in Nat
         /\ minted + 1 \notin ToSet(db.rows) /\ minted + 1 \notin ToSet(durable.rows)
         /\ \A j \in DOMAIN saves : minted + 1 \notin ToSet(saves[j].rows)
<1>1. minted \in Nat /\ minted >= 1 /\ MaxAppends \in Nat
  BY BoundsAssumption DEF TxInv, TypeOK, RowsChain
<1>2. minted + 1 \in Handles /\ minted + 1 \in Nat
  BY <1>1 DEF Handles
<1>3. minted + 1 \notin ToSet(db.rows)
  <2>1. ASSUME minted + 1 \in ToSet(db.rows) PROVE FALSE
    <3>1. minted + 1 <= minted
      BY <2>1 DEF TxInv, RowsChain
    <3>2. QED
      BY <1>1, <3>1
  <2>2. QED
    BY <2>1
<1>4. ToSet(durable.rows) \subseteq ToSet(db.rows)
  BY CommittedStays
<1>5. ASSUME NEW j \in DOMAIN saves PROVE ToSet(saves[j].rows) \subseteq ToSet(db.rows)
  <2>1. saves[j].rows \in Seq(Handles) /\ db.rows \in Seq(Handles)
    BY Typed DEF TxInv, Rows
  <2>2. IsPrefix(saves[j].rows, db.rows)
    BY DEF TxInv, RowsChain
  <2>3. QED
    BY <2>1, <2>2, PrefixSet
<1>6. QED
  BY <1>1, <1>2, <1>3, <1>4, <1>5

\* One row more in this connection's view.
LEMMA RowAdded ==
  ASSUME TxInv, minted < MaxAppends, minted' = minted + 1,
         db'.rows = Append(db.rows, minted + 1)
  PROVE  /\ db'.rows \in Rows /\ ToSet(db'.rows) = ToSet(db.rows) \cup {minted + 1}
         /\ IsPrefix(db.rows, db'.rows) /\ db'.rows # db.rows
         /\ IsPrefix(durable.rows, db'.rows) /\ db'.rows # durable.rows
         /\ \A i, j \in DOMAIN db'.rows : db'.rows[i] = db'.rows[j] => i = j
         /\ \A h \in ToSet(db'.rows) : h <= minted'
         /\ minted' >= 1 /\ minted' \in 0..MaxAppends
<1> DEFINE h == minted + 1
<1>1. /\ h \in Handles /\ h \in Nat /\ minted \in Nat
      /\ h \notin ToSet(db.rows) /\ h \notin ToSet(durable.rows)
  BY Fresh
<1>2. db.rows \in Seq(Handles) /\ durable.rows \in Seq(Handles)
  BY Typed DEF TxInv, Rows
<1>3. \A x \in ToSet(db.rows) : x <= minted
  BY DEF TxInv, RowsChain
<1>4. \A x \in ToSet(db.rows) : x \in Nat
  <2>1. \A i \in DOMAIN db.rows : db.rows[i] \in Handles
    BY <1>2
  <2>2. QED
    BY <2>1 DEF ToSet, Handles
<1> HIDE DEF h
<1>5. db'.rows = Append(db.rows, h) /\ minted' = h
  BY DEF h
<1>6. /\ db'.rows \in Seq(Handles) /\ ToSet(db'.rows) = ToSet(db.rows) \cup {h}
      /\ IsPrefix(db.rows, db'.rows)
  BY <1>1, <1>2, <1>5, AppendIs, AppendSet
<1>7. \A i, j \in DOMAIN db'.rows : db'.rows[i] = db'.rows[j] => i = j
  <2>1. \A i, j \in DOMAIN db.rows : db.rows[i] = db.rows[j] => i = j
    BY DEF TxInv, RowsChain
  <2>2. \A i, j \in DOMAIN Append(db.rows, h) :
          Append(db.rows, h)[i] = Append(db.rows, h)[j] => i = j
    BY <1>1, <1>2, <2>1, AppendDistinct, Zenon
  <2>3. QED
    BY <1>5, <2>2, Zenon
<1>8. IsPrefix(durable.rows, db'.rows)
  <2>1. IsPrefix(durable.rows, db.rows)
    BY DEF TxInv, RowsChain
  <2>2. QED
    BY <1>2, <1>6, <2>1, PrefixOrder
<1>9. \A x \in ToSet(db'.rows) : x <= minted'
  <2>1. h = minted + 1
    BY DEF h
  <2>2. SUFFICES ASSUME NEW x \in ToSet(db.rows) PROVE x <= h
    BY <1>1, <1>5, <1>6
  <2>3. x \in Nat /\ x <= minted
    BY <1>3, <1>4
  <2>4. QED
    BY <1>1, <2>1, <2>3
<1>10. minted' >= 1 /\ minted' \in 0..MaxAppends
  BY <1>1, <1>5 DEF Handles
<1>11. db'.rows # db.rows /\ db'.rows # durable.rows
  BY <1>1, <1>6
<1>12. QED
  BY <1>6, <1>7, <1>8, <1>9, <1>10, <1>11 DEF h, Rows

\* The callbacks queued with it.
LEMMA Queued ==
  ASSUME TxInv, NEW h \in Handles, NEW cb \in Callbacks, h \notin ToSet(db.rows),
         h \notin ToSet(durable.rows), \A j \in DOMAIN saves : h \notin ToSet(saves[j].rows),
         frames' = [frames EXCEPT ![Len(frames)] =
                      [after   |-> @.after \cup {h},
                       settles |-> @.settles \cup {<<"settle", h>>, cb}]],
         UNCHANGED <<durable, saves>>, ToSet(db'.rows) = ToSet(db.rows) \cup {h}
  PROVE  /\ frames' \in Seq(Frames) /\ Len(frames') = Len(saves') + 1
         /\ FramesHold' /\ Uncommitted' = Uncommitted \cup {h}
         /\ DOMAIN frames' = DOMAIN frames /\ Len(frames) \in DOMAIN frames
         /\ frames'[Len(frames)].after = frames[Len(frames)].after \cup {h}
         /\ frames'[Len(frames)].settles = frames[Len(frames)].settles \cup {<<"settle", h>>, cb}
         /\ \A i \in DOMAIN frames : i # Len(frames) => frames'[i] = frames[i]
<1> DEFINE n == Len(saves)
<1> DEFINE m == n + 1
<1>1. /\ DOMAIN saves = 1..n /\ n \in Nat /\ frames \in Seq(Frames) /\ Len(frames) = m
      /\ DOMAIN frames = 1..m
  BY Typed DEF TxInv
<1> DEFINE f == frames[m]
<1> DEFINE g == [after |-> f.after \cup {h}, settles |-> f.settles \cup {<<"settle", h>>, cb}]
<1>2. m \in 1..m /\ m \in Nat
  BY <1>1
<1>3. f \in Frames
  BY <1>1, <1>2, ElementOfSeq
<1>4. <<"settle", h>> \in Callbacks
  BY DEF Callbacks
<1>5. g \in Frames /\ g.after = f.after \cup {h} /\ g.settles = f.settles \cup {<<"settle", h>>, cb}
  BY <1>3, <1>4 DEF Frames
<1>6. frames' = [frames EXCEPT ![m] = g]
  BY <1>1
<1> HIDE DEF g, f, n
<1>7. /\ frames' \in Seq(Frames) /\ Len(frames') = m
      /\ \A i \in 1..m : frames'[i] = IF i = m THEN g ELSE frames[i]
  <2> HIDE DEF m
  <2>1. m \in 1..Len(frames)
    BY <1>1, <1>2
  <2>2. /\ [frames EXCEPT ![m] = g] \in Seq(Frames) /\ Len([frames EXCEPT ![m] = g]) = Len(frames)
        /\ \A i \in 1..Len(frames) : [frames EXCEPT ![m] = g][i] = IF i = m THEN g ELSE frames[i]
    BY <1>1, <1>5, <2>1, ExceptSeq
  <2>3. QED
    BY <1>1, <1>6, <2>2
<1>8. DOMAIN frames' = 1..m
  BY <1>7, LenProperties
<1>9. Uncommitted' = Uncommitted \cup {h}
  BY DEF Uncommitted
<1>10. FramesHold'
  <2>1. ASSUME NEW i \in DOMAIN frames', NEW x \in frames'[i].after
        PROVE  /\ x \in Uncommitted'
               /\ \A j \in DOMAIN saves' : x \in ToSet(saves'[j].rows) <=> i <= j
    <3>1. CASE x \in frames[i].after
      <4>1. i \in DOMAIN frames
        BY <1>1, <1>8
      <4>2. QED
        BY <1>9, <3>1, <4>1 DEF TxInv, FramesHold
    <3>2. CASE x \notin frames[i].after
      <4>1. i = m /\ x = h
        BY <1>5, <1>7, <1>8, <2>1, <3>2 DEF f
      <4>2. \A j \in DOMAIN saves : ~ (i <= j)
        BY <1>1, <4>1
      <4>3. QED
        BY <1>9, <4>1, <4>2
    <3>3. QED
      BY <3>1, <3>2
  <2>2. ASSUME NEW x \in Uncommitted' PROVE \E i \in DOMAIN frames' : x \in frames'[i].after
    <3>1. CASE x = h
      BY <1>2, <1>5, <1>7, <1>8, <3>1
    <3>2. CASE x \in Uncommitted
      <4>1. PICK i \in DOMAIN frames : x \in frames[i].after
        BY <3>2 DEF TxInv, FramesHold
      <4>2. i \in DOMAIN frames' /\ x \in frames'[i].after
        BY <1>1, <1>5, <1>7, <1>8, <4>1 DEF f
      <4>3. QED
        BY <4>2
    <3>3. QED
      BY <1>9, <2>2, <3>1, <3>2
  <2>3. QED
    BY <2>1, <2>2 DEF FramesHold
<1>11. Len(frames') = Len(saves') + 1
  BY <1>7 DEF n
<1>12. QED
  BY <1>1, <1>2, <1>5, <1>7, <1>8, <1>9, <1>10, <1>11 DEF f

\* The gate lets a file through that holds what is committed.
LEMMA GateIs ==
  ASSUME TxInv
  PROVE  /\ Live <=> exemption # None
         /\ ~jammed => GateOpens
         /\ GateOpens => HealedFile = durable.rows
<1>1. Live <=> exemption # None
  BY Dirty DEF Live
<1>2. durable.rows \in Seq(Handles) /\ file \in Seq(Handles)
  BY Typed DEF TxInv, Rows
<1>3. CASE exemption # None
  BY <1>3, Dirty DEF GateOpens, HealedFile, Heals
<1>4. CASE exemption = None
  <2>1. db = durable /\ ~Live
    BY <1>4, Clean DEF Live
  <2>2. IsPrefix(file, durable.rows)
    BY DEF TxInv, RowsChain
  <2>3. CASE file = db.rows
    <3>1. ~Heals /\ Current
      BY <2>1, <2>3, Zenon DEF Heals, Current, IsStrictPrefix
    <3>2. GateOpens /\ HealedFile = durable.rows
      BY <2>1, <2>3, <3>1, Zenon DEF GateOpens, HealedFile
    <3>3. QED
      BY <1>1, <3>2
  <2>4. CASE file # db.rows
    <3>1. IsStrictPrefix(file, db.rows)
      BY <2>1, <2>2, <2>4 DEF IsStrictPrefix
    <3>2. Heals <=> ~jammed
      BY <2>1, <3>1, Zenon DEF Heals
    <3>3. GateOpens <=> Heals
      BY <2>1, <2>4, Zenon DEF GateOpens, Tolerated, Current
    <3>4. HealedFile = IF Heals THEN durable.rows ELSE file
      BY <2>1 DEF HealedFile
    <3>5. QED
      BY <1>1, <3>2, <3>3, <3>4, Zenon
  <2>5. QED
    BY <2>3, <2>4
<1>5. QED
  BY <1>1, <1>3, <1>4

LEMMA AppendDeferredKeeps == ASSUME TxInv, AppendDeferred PROVE TxInv'
<1> DEFINE h == minted + 1
<1> DEFINE grown == Append(db.rows, h)
<1> DEFINE n == Len(frames)
<1>1. /\ InTransaction /\ minted < MaxAppends /\ GateOpens /\ minted' = h
      /\ handle' = [handle EXCEPT ![h] = "in-flight"] /\ txOf' = [txOf EXCEPT ![h] = txId]
      /\ file' = HealedFile /\ UNCHANGED <<durable, saves, txId, txCount, jammed, lost>>
  BY DEF AppendDeferred
<1>2. /\ h \in Handles /\ h \notin ToSet(db.rows) /\ h \notin ToSet(durable.rows)
      /\ \A j \in DOMAIN saves : h \notin ToSet(saves[j].rows)
  BY <1>1, Fresh
<1>3. file' = durable.rows /\ (Live <=> exemption # None)
  BY <1>1, GateIs
\* The exemption that is held afterwards, and the callback it brings.
<1>4. PICK cb \in Callbacks :
        /\ frames' = [frames EXCEPT ![n] = [after   |-> @.after \cup {h},
                                            settles |-> @.settles \cup {<<"settle", h>>, cb}]]
        /\ \/ /\ exemption # None /\ cb = <<"restore", exemption.token>>
              /\ db' = [db EXCEPT !.rows = grown]
              /\ exemption' = [exemption EXCEPT !.minted = grown]
           \/ /\ exemption = None /\ cb = <<"drop", h>>
              /\ db' = [rows |-> grown, token |-> h]
              /\ exemption' = [raw |-> db.rows, txId |-> txId, token |-> h, minted |-> grown]
  <2>1. CASE exemption # None
    <3>1. exemption.token \in Handles
      BY <2>1, Dirty DEF Exemptions
    <3>2. <<"restore", exemption.token>> \in Callbacks
      BY <3>1 DEF Callbacks
    <3>3. QED
      BY <1>3, <2>1, <3>2 DEF AppendDeferred
  <2>2. CASE exemption = None
    <3>1. <<"drop", h>> \in Callbacks
      BY <1>2 DEF Callbacks
    <3>2. QED
      BY <1>3, <2>2, <3>1 DEF AppendDeferred
  <2>3. QED
    BY <2>1, <2>2
<1>5. /\ db \in Dbs /\ db.rows \in Rows /\ durable.rows \in Rows
      /\ \A j \in DOMAIN saves : saves[j].rows \in Rows
  BY Typed DEF TxInv, TypeOK
<1> HIDE DEF h
<1>6. db'.rows = grown
  BY <1>4, <1>5 DEF Dbs
<1>7. /\ db'.rows \in Rows /\ ToSet(db'.rows) = ToSet(db.rows) \cup {h}
      /\ IsPrefix(db.rows, db'.rows)
      /\ IsPrefix(durable.rows, db'.rows) /\ db'.rows # durable.rows
      /\ \A i, j \in DOMAIN db'.rows : db'.rows[i] = db'.rows[j] => i = j
      /\ \A x \in ToSet(db'.rows) : x <= minted'
      /\ minted' >= 1 /\ minted' \in 0..MaxAppends
  <2> USE DEF h
  <2>1. QED
    BY <1>1, <1>6, RowAdded
<1> HIDE DEF grown
<1>8. /\ frames' \in Seq(Frames) /\ Len(frames') = Len(saves') + 1
      /\ FramesHold' /\ Uncommitted' = Uncommitted \cup {h}
      /\ DOMAIN frames' = DOMAIN frames /\ n \in DOMAIN frames
      /\ frames'[n].after = frames[n].after \cup {h}
      /\ frames'[n].settles = frames[n].settles \cup {<<"settle", h>>, cb}
      /\ \A i \in DOMAIN frames : i # n => frames'[i] = frames[i]
  BY <1>1, <1>2, <1>4, <1>7, Queued
<1> HIDE DEF n
\* It is exact, whether it was held before or is armed now.
<1>9. /\ exemption' \in Exemptions /\ exemption' # None
      /\ exemption'.txId = txId /\ exemption'.raw = durable.rows /\ exemption'.minted = db'.rows
      /\ exemption'.token \in ToSet(db'.rows) /\ exemption'.token \notin ToSet(durable.rows)
      /\ exemption'.token = db'.token
      /\ exemption # None => exemption'.token = exemption.token
      /\ exemption = None => exemption'.token = h
  <2>1. CASE exemption # None
    <3>1. /\ exemption \in Exemptions /\ exemption.token \in Uncommitted
          /\ db.token = exemption.token
      BY <2>1, Dirty
    <3>2. exemption.txId = txId /\ exemption.raw = durable.rows
      BY <2>1 DEF TxInv, ExemptionHolds
    <3>3. exemption' = [exemption EXCEPT !.minted = db'.rows] /\ db' = [db EXCEPT !.rows = grown]
      BY <1>4, <1>6, <2>1
    <3>4. /\ exemption' \in Exemptions /\ exemption'.txId = txId /\ exemption'.raw = durable.rows
          /\ exemption'.minted = db'.rows /\ exemption'.token = exemption.token
      BY <1>7, <3>1, <3>2, <3>3 DEF Exemptions, Rows
    <3>5. db'.token = db.token
      BY <1>5, <3>3 DEF Dbs
    <3>6. QED
      BY <1>7, <2>1, <3>1, <3>4, <3>5, NoneAssumption DEF Uncommitted
  <2>2. CASE exemption = None
    <3>1. db = durable
      BY <2>2, Clean
    <3>2. /\ exemption' = [raw |-> db.rows, txId |-> txId, token |-> h, minted |-> db'.rows]
          /\ db'.token = h
      BY <1>4, <1>6, <2>2
    <3>3. txId \in 1..MaxTx
      BY <1>1 DEF InTransaction, TxInv, TypeOK
    <3>4. exemption' \in Exemptions
      BY <1>2, <1>5, <1>7, <3>2, <3>3 DEF Exemptions, Rows
    <3>5. QED
      BY <1>2, <1>7, <2>2, <3>1, <3>2, <3>4, NoneAssumption
  <2>3. QED
    BY <2>1, <2>2
<1>10. TypeOK'
  <2>1. db' \in Dbs
    <3>1. CASE exemption # None
      BY <1>4, <1>5, <1>6, <1>7, <3>1 DEF Dbs
    <3>2. CASE exemption = None
      BY <1>2, <1>4, <1>6, <1>7, <3>2 DEF Dbs
    <3>3. QED
      BY <3>1, <3>2
  <2>2. handle' \in [Handles -> Outcomes]
    BY <1>1 DEF TxInv, TypeOK, Outcomes
  <2>3. txOf' \in [Handles -> 0..MaxTx]
    BY <1>1 DEF TxInv, TypeOK
  <2>4. QED
    BY <1>1, <1>3, <1>5, <1>7, <1>8, <1>9, <2>1, <2>2, <2>3 DEF TxInv, TypeOK, Frames
<1>11. RowsChain'
  <2>1. ASSUME NEW j \in DOMAIN saves
        PROVE  IsPrefix(durable.rows, saves[j].rows) /\ IsPrefix(saves[j].rows, db'.rows)
    <3>1. IsPrefix(durable.rows, saves[j].rows) /\ IsPrefix(saves[j].rows, db.rows)
      BY DEF TxInv, RowsChain
    <3>2. QED
      BY <1>5, <1>7, <3>1, PrefixOrder DEF Rows
  <2>2. IsPrefix(file', durable.rows)
    BY <1>3, <1>5, PrefixSelf DEF Rows
  <2>3. InTransaction'
    BY <1>1 DEF InTransaction
  <2>4. QED
    BY <1>1, <1>7, <2>1, <2>2, <2>3 DEF TxInv, RowsChain
<1>12. CallbacksFollow'
  <2>1. ASSUME NEW i \in DOMAIN frames, i # n PROVE CallbacksOf(i)'
    <3>1. frames'[i] = frames[i] /\ CallbacksOf(i)
      BY <1>8, <2>1 DEF TxInv, CallbacksFollow
    <3>2. CASE exemption # None
      BY <1>9, <3>1, <3>2 DEF CallbacksOf
    <3>3. CASE exemption = None
      <4>1. frames[i].after = {}
        BY <3>3, Clean
      <4>2. QED
        BY <3>1, <4>1 DEF CallbacksOf
    <3>4. QED
      BY <3>2, <3>3
  <2>2. ASSUME NEW i \in DOMAIN frames, i = n PROVE CallbacksOf(i)'
    <3>1. CallbacksOf(i)
      BY DEF TxInv, CallbacksFollow
    <3>2. CASE exemption # None
      <4>1. cb = <<"restore", exemption.token>> /\ exemption'.token = exemption.token
        BY <1>4, <1>9, <3>2
      <4>2. \A x \in Handles : <<"settle", x>> \in frames'[i].settles <=> x \in frames'[i].after
        BY <1>8, <2>2, <3>1, <4>1 DEF CallbacksOf
      <4>3. \A x \in Handles : <<"drop", x>> \in frames'[i].settles => x \in frames'[i].after
        BY <1>8, <2>2, <3>1, <4>1 DEF CallbacksOf
      <4>4. exemption.token # h
        BY <1>2, <3>2, Dirty DEF Uncommitted
      <4>5. IF exemption.token \in frames'[i].after
            THEN <<"drop", exemption.token>> \in frames'[i].settles
            ELSE <<"restore", exemption.token>> \in frames'[i].settles
        BY <1>8, <2>2, <3>1, <3>2, <4>1, <4>4 DEF CallbacksOf
      <4>6. QED
        BY <4>1, <4>2, <4>3, <4>5 DEF CallbacksOf
    <3>3. CASE exemption = None
      <4>1. cb = <<"drop", h>> /\ exemption'.token = h
        BY <1>4, <1>9, <3>3
      <4>2. \A x \in Handles : <<"settle", x>> \in frames'[i].settles <=> x \in frames'[i].after
        BY <1>8, <2>2, <3>1, <4>1 DEF CallbacksOf
      <4>3. \A x \in Handles : <<"drop", x>> \in frames'[i].settles => x \in frames'[i].after
        BY <1>8, <2>2, <3>1, <4>1 DEF CallbacksOf
      <4>4. h \in frames'[i].after /\ <<"drop", h>> \in frames'[i].settles
        BY <1>8, <2>2, <4>1
      <4>5. QED
        BY <4>1, <4>2, <4>3, <4>4 DEF CallbacksOf
    <3>4. QED
      BY <3>2, <3>3
  <2>3. QED
    BY <1>8, <2>1, <2>2 DEF CallbacksFollow
<1>13. ExemptionHolds'
  <2>1. TokenTells(db)'
    BY <1>1, <1>7, <1>9 DEF TokenTells
  <2>2. ASSUME NEW j \in DOMAIN saves' PROVE TokenTells(saves[j])'
    <3>1. TokenTells(saves[j])
      BY <1>1 DEF TxInv, ExemptionHolds
    <3>2. CASE exemption = None
      <4>1. saves[j] = durable
        BY <1>1, <3>2, Clean
      <4>2. QED
        BY <1>1, <4>1 DEF TokenTells
    <3>3. CASE exemption # None
      BY <1>1, <1>9, <3>1, <3>3 DEF TokenTells
    <3>4. QED
      BY <3>2, <3>3
  <2>3. exemption' # None /\ db'.rows # durable'.rows
    BY <1>1, <1>7, <1>9
  <2>4. /\ InTransaction' /\ exemption'.txId = txId' /\ exemption'.raw = durable'.rows
        /\ exemption'.minted = db'.rows /\ file' = durable'.rows
        /\ exemption'.token \notin ToSet(durable'.rows)
    BY <1>1, <1>3, <1>9 DEF InTransaction
  <2>5. QED
    BY <2>1, <2>2, <2>3, <2>4 DEF ExemptionHolds
<1>14. OneBatch'
  <2>1. ASSUME NEW x \in Uncommitted' PROVE txOf'[x] = txId'
    BY <1>1, <1>2, <1>8, <2>1 DEF TxInv, TypeOK, OneBatch
  <2>2. QED
    BY <1>1, <1>3, <2>1 DEF OneBatch
<1>15. HandlesKnow'
  <2>1. SUFFICES ASSUME NEW x \in Handles
        PROVE  /\ handle'[x] \in {"anchored", "unanchored"} => x \in ToSet(durable.rows)
               /\ handle'[x] = "rolled-back" => x \notin ToSet(db'.rows)
               /\ handle'[x] = "in-flight" => x \in lost \/ x \in Uncommitted'
    BY <1>1 DEF HandlesKnow
  <2>2. CASE x = h
    BY <1>1, <1>8, <2>2 DEF TxInv, TypeOK
  <2>3. CASE x # h
    BY <1>1, <1>7, <1>8, <2>3 DEF TxInv, TypeOK, HandlesKnow
  <2>4. QED
    BY <2>2, <2>3
<1>16. QED
  BY <1>8, <1>10, <1>11, <1>12, <1>13, <1>14, <1>15 DEF TxInv

LEMMA AppendAloneKeeps == ASSUME TxInv, AppendAlone PROVE TxInv'
<1> DEFINE h == minted + 1
<1> DEFINE grown == Append(db.rows, h)
<1>1. /\ ~InTransaction /\ minted < MaxAppends /\ txCount < MaxTx /\ GateOpens /\ minted' = h
      /\ db' = [db EXCEPT !.rows = grown] /\ durable' = db'
      /\ txOf' = [txOf EXCEPT ![h] = txCount + 1]
      /\ file' = IF jammed THEN file ELSE grown
      /\ handle' = [handle EXCEPT ![h] = IF jammed THEN "unanchored" ELSE "anchored"]
      /\ txCount' = txCount + 1 /\ exemption' = None
      /\ UNCHANGED <<saves, frames, txId, jammed, lost>>
  BY DEF AppendAlone
<1>2. exemption = None
  BY <1>1, Dirty
<1>3. /\ db = durable /\ Uncommitted = {} /\ saves = <<>>
      /\ \A i \in DOMAIN frames : frames[i].after = {}
  BY <1>1, <1>2, Clean DEF TxInv, RowsChain
<1>4. h \in Handles /\ h \notin ToSet(db.rows)
  BY <1>1, Fresh
<1>5. db \in Dbs /\ db.rows \in Rows /\ file \in Rows
  BY Typed DEF TxInv, TypeOK
<1> HIDE DEF h
<1>6. db'.rows = grown /\ db'.token = db.token
  BY <1>1, <1>5 DEF Dbs
<1>7. /\ db'.rows \in Rows /\ ToSet(db'.rows) = ToSet(db.rows) \cup {h}
      /\ IsPrefix(db.rows, db'.rows)
      /\ \A i, j \in DOMAIN db'.rows : db'.rows[i] = db'.rows[j] => i = j
      /\ \A x \in ToSet(db'.rows) : x <= minted'
      /\ minted' >= 1 /\ minted' \in 0..MaxAppends
  <2> USE DEF h
  <2>1. QED
    BY <1>1, <1>6, RowAdded
<1> HIDE DEF grown
\* While jammed the gate lets only a current file through.
<1>8. jammed => file = db.rows
  BY <1>1, <1>2, <1>3 DEF GateOpens, Tolerated, Current, Heals, Live
<1>9. TypeOK'
  <2>1. db' \in Dbs
    BY <1>1, <1>5, <1>6, <1>7 DEF Dbs
  <2>2. handle' \in [Handles -> Outcomes]
    BY <1>1 DEF TxInv, TypeOK, Outcomes, Settled
  <2>3. txCount' \in 0..MaxTx /\ txCount + 1 \in 0..MaxTx
    BY <1>1, BoundsAssumption DEF TxInv, TypeOK
  <2>4. txOf' \in [Handles -> 0..MaxTx]
    BY <1>1, <2>3 DEF TxInv, TypeOK
  <2>5. QED
    BY <1>1, <1>5, <1>6, <1>7, <2>1, <2>2, <2>3, <2>4 DEF TxInv, TypeOK
<1>10. RowsChain'
  <2>1. IsPrefix(file', durable'.rows) /\ IsPrefix(durable'.rows, db'.rows)
    <3>1. IsPrefix(db'.rows, db'.rows)
      BY <1>7, PrefixSelf DEF Rows
    <3>2. QED
      BY <1>1, <1>6, <1>7, <1>8, <3>1
  <2>2. DOMAIN saves' = {}
    BY <1>1, <1>3
  <2>3. QED
    BY <1>1, <1>3, <1>7, <2>1, <2>2 DEF RowsChain
<1>11. Uncommitted' = {}
  BY <1>1 DEF Uncommitted
<1>12. FramesHold'
  BY <1>1, <1>3, <1>11 DEF FramesHold
<1>13. CallbacksFollow'
  BY <1>1, <1>2 DEF TxInv, CallbacksFollow, CallbacksOf
<1>14. ExemptionHolds'
  BY <1>1, <1>3 DEF ExemptionHolds, TokenTells
<1>15. OneBatch'
  <2>1. ToSet(durable'.rows) \ ToSet(file') \subseteq {h}
    BY <1>1, <1>6, <1>7, <1>8
  <2>2. QED
    BY <1>11, <2>1 DEF OneBatch
<1>16. HandlesKnow'
  <2>1. SUFFICES ASSUME NEW x \in Handles
        PROVE  /\ handle'[x] \in {"anchored", "unanchored"} => x \in ToSet(db'.rows)
               /\ handle'[x] = "rolled-back" => x \notin ToSet(db'.rows)
               /\ handle'[x] = "in-flight" => x \in lost
    BY <1>1, <1>11 DEF HandlesKnow
  <2>2. CASE x = h
    BY <1>1, <1>7, <2>2 DEF TxInv, TypeOK
  <2>3. CASE x # h
    BY <1>1, <1>3, <1>7, <2>3 DEF TxInv, TypeOK, HandlesKnow
  <2>4. QED
    BY <2>2, <2>3
<1>17. QED
  BY <1>9, <1>10, <1>12, <1>13, <1>14, <1>15, <1>16 DEF TxInv

LEMMA AppendRefusedKeeps == ASSUME TxInv, AppendRefused PROVE TxInv'
<1>1. exemption' = exemption
  BY GateIs DEF AppendRefused
<1>2. UNCHANGED <<durable, db, saves, frames, txId, txCount, exemption, handle, file, jammed,
                  minted, txOf, lost>>
  BY <1>1 DEF AppendRefused
<1>3. TypeOK'
  BY <1>2 DEF TxInv, TypeOK
<1>4. RowsChain' /\ OneBatch' /\ HandlesKnow'
  BY <1>2 DEF TxInv, RowsChain, OneBatch, HandlesKnow, Uncommitted, InTransaction
<1>5. FramesHold' /\ CallbacksFollow' /\ ExemptionHolds'
  BY <1>2 DEF TxInv, FramesHold, CallbacksFollow, CallbacksOf, ExemptionHolds, Uncommitted,
              TokenTells, InTransaction
<1>6. QED
  BY <1>3, <1>4, <1>5 DEF TxInv

LEMMA TxStart == Init => TxInv
<1> SUFFICES ASSUME Init PROVE TxInv
  OBVIOUS
<1>1. /\ durable = [rows |-> <<1>>, token |-> None] /\ db = durable /\ saves = <<>>
      /\ frames = <<NewFrame>> /\ txId = 0 /\ txCount = 0 /\ exemption = None /\ file = <<1>>
      /\ minted = 1 /\ jammed = FALSE
      /\ handle = [h \in Handles |-> IF h = 1 THEN "anchored" ELSE "unused"]
      /\ txOf = [h \in Handles |-> 0] /\ lost = {}
  BY DEF Init
<1>2. 1 \in Handles /\ <<1>> \in Rows /\ DOMAIN <<1>> = {1} /\ ToSet(<<1>>) = {1}
  BY BoundsAssumption DEF Handles, Rows, ToSet
<1>3. TypeOK
  <2>1. saves \in Seq(Dbs) /\ Len(saves) = 0
    BY <1>1, NoSaves
  <2>2. frames \in Seq([after : SUBSET Handles, settles : SUBSET Callbacks]) /\ Len(frames) = 1
    BY <1>1, NoFrames DEF Frames
  <2>3. durable \in Dbs
    BY <1>1, <1>2 DEF Dbs
  <2>4. handle \in [Handles -> Outcomes]
    BY <1>1 DEF Outcomes, Settled
  <2>5. 0 \in 0..MaxTx /\ 1 \in 0..MaxAppends
    BY BoundsAssumption
  <2>6. txOf \in [Handles -> 0..MaxTx]
    BY <1>1, <2>5
  <2>7. Len(frames) = Len(saves) + 1
    BY <2>1, <2>2
  <2>8. QED
    BY <1>1, <1>2, <2>1, <2>2, <2>3, <2>4, <2>5, <2>6, <2>7 DEF TypeOK
<1>4. DOMAIN frames = {1} /\ frames[1].after = {} /\ frames[1].settles = {} /\ DOMAIN saves = {}
  BY <1>1 DEF NewFrame
<1>5. Uncommitted = {}
  BY <1>1 DEF Uncommitted
<1>6. RowsChain
  <2>1. IsPrefix(<<1>>, <<1>>)
    BY <1>2, PrefixSelf DEF Rows
  <2>2. QED
    BY <1>1, <1>2, <1>4, <2>1 DEF RowsChain
<1>7. FramesHold /\ CallbacksFollow
  BY <1>4, <1>5 DEF FramesHold, CallbacksFollow, CallbacksOf
<1>8. ExemptionHolds /\ OneBatch
  BY <1>1, <1>4, <1>5 DEF ExemptionHolds, OneBatch, TokenTells
<1>9. HandlesKnow
  BY <1>1, <1>2 DEF HandlesKnow
<1>10. QED
  BY <1>3, <1>6, <1>7, <1>8, <1>9 DEF TxInv

LEMMA TxStep == TxInv /\ [Next]_vars => TxInv'
<1> SUFFICES ASSUME TxInv, [Next]_vars PROVE TxInv'
  OBVIOUS
<1>1. CASE Begin
  BY <1>1, BeginKeeps
<1>2. CASE Savepoint
  BY <1>2, SavepointKeeps
<1>3. CASE Release
  BY <1>3, ReleaseKeeps
<1>4. CASE Unwind
  BY <1>4, UnwindKeeps
<1>5. CASE Rollback
  BY <1>5, RollbackKeeps
<1>6. CASE Commit
  BY <1>6, CommitKeeps
<1>7. CASE CommitCallbackThrows
  BY <1>7, ThrowKeeps
<1>8. CASE AppendDeferred
  BY <1>8, AppendDeferredKeeps
<1>9. CASE AppendAlone
  BY <1>9, AppendAloneKeeps
<1>10. CASE AppendRefused
  BY <1>10, AppendRefusedKeeps
<1>11. CASE Crash \/ CommitThenCrash
  BY <1>11, CrashKeeps
<1>12. CASE Jam \/ UNCHANGED vars
  BY <1>12, JamKeeps
<1>13. QED
  BY <1>1, <1>2, <1>3, <1>4, <1>5, <1>6, <1>7, <1>8, <1>9, <1>10, <1>11, <1>12 DEF Next

LEMMA AlwaysTxInv == Spec => []TxInv
BY TxStart, TxStep, PTL DEF Spec

\* A handle never says committed of a row that is not durable, nor rolled back of
\* one that is or may be, and knows once its transaction has settled (service.ts,
\* AppendHandle; sqlite.ts, settle and runSavepoint): for any nesting of savepoints.
THEOREM HandlesAreTruthful == Spec => []HandlesTellTheTruth
<1>1. TxInv => HandlesTellTheTruth
  <2> SUFFICES ASSUME TxInv PROVE HandlesTellTheTruth
    OBVIOUS
  <2>1. ToSet(durable.rows) \subseteq ToSet(db.rows)
    BY CommittedStays
  <2>2. Uncommitted # {} => InTransaction
    BY DEF TxInv, RowsChain, Uncommitted
  <2>3. QED
    BY <2>1, <2>2 DEF TxInv, HandlesKnow, HandlesTellTheTruth, Unsettled, Uncommitted
<1>2. QED
  BY AlwaysTxInv, <1>1, PTL

\* Nothing is published that a rollback could take back, a frozen file stops the
\* journal within one transaction, and no append of a batch is refused while the
\* file can be written (service.ts, exemptionIsLive and its tolerance).
THEOREM ExemptionStaysExact == Spec => []ExemptionIsExact
<1>1. TxInv => ExemptionIsExact
  BY GateIs DEF TxInv, RowsChain, OneBatch, ExemptionIsExact
<1>2. QED
  BY AlwaysTxInv, <1>1, PTL

-----------------------------------------------------------------------------
(* OPENING A FILE.                                                         *)

UpTo(k) == [i \in 1..k |-> i]

\* What is applied is what the version says, in the transaction and durably.
VersionTells ==
  /\ schema.applied = UpTo(schema.version)
  /\ durableSchema.applied = UpTo(durableSchema.version)
  /\ durableSchema.version <= schema.version
  /\ Unlocked => schema = durableSchema

\* One process migrates, and owes what follows the version.
OneMigrates ==
  \A p \in Starters :
    /\ doing[p] = "migrates" <=> migrator = p
    /\ doing[p] = "migrates" => pending[p] = PendingMigrations(schema.version, knows[p])

\* Attempts to switch that leave another.
Attempts == 0..(MaxTries - 1)

\* What has been done before each place of an opening.
PlacesTell ==
  \A p \in Starters :
    /\ doing[p] # "duplicate"
    /\ doing[p] \in {"creates meta", "begins", "migrates", "open"} => fileMode = "wal"
    /\ doing[p] \in {"begins", "migrates", "open"} => schema.meta /\ durableSchema.meta
    /\ doing[p] = "open" => knows[p] <= durableSchema.version
    /\ doing[p] \in {"opens", "switches", "rereads"} => tries[p] \in Attempts

SchemaInv == SchemaTypeOK /\ VersionTells /\ OneMigrates /\ PlacesTell

-----------------------------------------------------------------------------
(* The lists of versions.                                                  *)

LEMMA UpToGrows ==
  ASSUME NEW k \in Nat
  PROVE  Append(UpTo(k), k + 1) = UpTo(k + 1) /\ k + 1 \notin Range(UpTo(k))
<1>1. UpTo(k) \in Seq(Nat) /\ Len(UpTo(k)) = k
  BY DEF UpTo
<1>2. Append(UpTo(k), k + 1) = UpTo(k + 1)
  BY <1>1 DEF UpTo
<1>3. k + 1 \notin Range(UpTo(k))
  BY DEF UpTo, Range
<1>4. QED
  BY <1>2, <1>3

LEMMA UpToType ==
  ASSUME NEW k \in Versions
  PROVE  UpTo(k) \in Migrations
BY SchemaAssumption DEF UpTo, Migrations, Versions

LEMMA NoneIsList == <<>> \in Migrations
<1>1. <<>> \in [1..0 -> Versions] /\ 0 \in Versions
  BY SchemaAssumption DEF Versions
<1>2. QED
  BY <1>1 DEF Migrations

LEMMA Applies ==
  ASSUME NEW s \in Schemas, NEW v \in Versions, NEW a \in Migrations
  PROVE  [s EXCEPT !.version = v, !.applied = a] \in Schemas
BY DEF Schemas

LEMMA AttemptsCount ==
  /\ 0 \in Attempts
  /\ Attempts \subseteq 0..MaxTries
  /\ \A t \in Attempts : t + 1 \in 0..MaxTries /\ (t + 1 >= MaxTries \/ t + 1 \in Attempts)
BY SchemaAssumption DEF Attempts

LEMMA Transitive ==
  ASSUME NEW k \in Versions, NEW d \in Versions, NEW v \in Versions, k <= d, d <= v
  PROVE  k <= v
BY SchemaAssumption DEF Versions

LEMMA PendingType ==
  ASSUME NEW v \in Versions, NEW w \in Versions
  PROVE  PendingMigrations(v, w) \in Migrations
<1> DEFINE n == IF w > v THEN w - v ELSE 0
<1>1. n \in Versions /\ PendingMigrations(v, w) \in [1..n -> Versions]
  BY SchemaAssumption DEF PendingMigrations, Versions
<1>2. QED
  BY <1>1 DEF Migrations

LEMMA PendingIsNext ==
  ASSUME NEW v \in Versions, NEW w \in Versions
  PROVE  /\ PendingMigrations(v, w) = <<>> => w <= v
         /\ PendingMigrations(v, w) # <<>> =>
              /\ v + 1 \in Versions
              /\ Head(PendingMigrations(v, w)) = v + 1
              /\ Tail(PendingMigrations(v, w)) = PendingMigrations(v + 1, w)
<1> DEFINE n == IF w > v THEN w - v ELSE 0
<1>1. n \in Nat /\ v \in Nat /\ w \in Nat /\ w <= Latest
  BY SchemaAssumption DEF Versions
<1>2. PendingMigrations(v, w) = [i \in 1..n |-> v + i]
  BY DEF PendingMigrations
<1>3. PendingMigrations(v, w) \in Seq(Nat) /\ Len(PendingMigrations(v, w)) = n
  BY <1>1, <1>2
<1>4. PendingMigrations(v, w) = <<>> => w <= v
  BY <1>1, <1>3
<1>5. ASSUME PendingMigrations(v, w) # <<>>
      PROVE  /\ v + 1 \in Versions
             /\ Head(PendingMigrations(v, w)) = v + 1
             /\ Tail(PendingMigrations(v, w)) = PendingMigrations(v + 1, w)
  <2>1. n >= 1 /\ w > v
    BY <1>1, <1>3, <1>5
  <2>2. v + 1 \in Versions
    BY <1>1, <2>1, SchemaAssumption DEF Versions
  <2>3. Head(PendingMigrations(v, w)) = v + 1
    BY <1>1, <1>2, <1>3, <2>1
  <2>4. PendingMigrations(v + 1, w) = [i \in 1..(n - 1) |-> v + 1 + i]
    BY <1>1, <2>1 DEF PendingMigrations
  <2>5. Tail(PendingMigrations(v, w)) = [i \in 1..(n - 1) |-> v + 1 + i]
    BY <1>1, <1>2, <1>3, <2>1
  <2>6. QED
    BY <2>2, <2>3, <2>4, <2>5
<1>6. QED
  BY <1>4, <1>5

-----------------------------------------------------------------------------
(* The steps.                                                              *)

\* The migration that is next is never there yet: nobody trips over a peer's.
LEMMA ApplyGoesOn ==
  ASSUME SchemaInv, NEW p \in Starters, ApplyMigration(p)
  PROVE  /\ schema.version + 1 \in Versions
         /\ schema' = [schema EXCEPT !.version = schema.version + 1,
                                     !.applied = UpTo(schema.version + 1)]
         /\ pending' = [pending EXCEPT ![p] = PendingMigrations(schema.version + 1, knows[p])]
         /\ UNCHANGED <<fileMode, durableSchema, migrator, doing, knows, tries>>
         /\ migrator = p
<1>1. schema.version \in Versions /\ knows[p] \in Versions /\ schema.version \in Nat
  BY SchemaAssumption DEF SchemaInv, SchemaTypeOK, Schemas, Versions
<1>2. /\ pending[p] = PendingMigrations(schema.version, knows[p]) /\ pending[p] # <<>>
      /\ migrator = p
  BY DEF ApplyMigration, SchemaInv, OneMigrates
<1>3. /\ schema.version + 1 \in Versions
      /\ Head(pending[p]) = schema.version + 1
      /\ Tail(pending[p]) = PendingMigrations(schema.version + 1, knows[p])
  BY <1>1, <1>2, PendingIsNext
<1>4. /\ schema.applied = UpTo(schema.version)
      /\ Append(schema.applied, schema.version + 1) = UpTo(schema.version + 1)
      /\ schema.version + 1 \notin Range(schema.applied)
  BY <1>1, UpToGrows DEF SchemaInv, VersionTells
<1>5. /\ schema' = [schema EXCEPT !.version = schema.version + 1,
                                  !.applied = Append(@, schema.version + 1)]
      /\ pending' = [pending EXCEPT ![p] = Tail(@)]
      /\ UNCHANGED <<fileMode, durableSchema, migrator, doing, knows, tries>>
  BY <1>3, <1>4 DEF ApplyMigration
<1>6. QED
  BY <1>2, <1>3, <1>4, <1>5

LEMMA SchemaTypeStep == SchemaInv /\ [SchemaNext]_schemaVars => SchemaTypeOK'
<1> SUFFICES ASSUME SchemaInv, [SchemaNext]_schemaVars PROVE SchemaTypeOK'
  OBVIOUS
<1> USE SchemaAssumption DEF SchemaInv, SchemaTypeOK, Schemas, Doings, Goes, fileVars
<1>1. ASSUME NEW p \in Starters, Start(p) PROVE SchemaTypeOK'
  <2>1. PICK v \in Versions : knows' = [knows EXCEPT ![p] = v]
    BY <1>1 DEF Start
  <2>2. tries' \in [Starters -> 0..MaxTries]
    BY <1>1, AttemptsCount, Zenon DEF Start
  <2>3. knows' \in [Starters -> Versions] /\ doing' \in [Starters -> Doings]
    BY <1>1, <2>1 DEF Start
  <2>4. QED
    BY <1>1, <2>2, <2>3 DEF Start
<1>2. ASSUME NEW p \in Starters, ReadMode(p) PROVE SchemaTypeOK'
  BY <1>2 DEF ReadMode
<1>3. ASSUME NEW p \in Starters, SwitchToWal(p) PROVE SchemaTypeOK'
  BY <1>3 DEF SwitchToWal
<1>4. ASSUME NEW p \in Starters, SwitchRefused(p) PROVE SchemaTypeOK'
  BY <1>4 DEF SwitchRefused
<1>5. ASSUME NEW p \in Starters, SiblingSwitched(p) PROVE SchemaTypeOK'
  BY <1>5 DEF SiblingSwitched
<1>6. ASSUME NEW p \in Starters, TryAgain(p) PROVE SchemaTypeOK'
  <2>1. tries[p] + 1 \in 0..MaxTries
    BY <1>6, AttemptsCount, Zenon DEF TryAgain, PlacesTell
  <2>2. tries' \in [Starters -> 0..MaxTries]
    BY <1>6, <2>1, Zenon DEF TryAgain
  <2>3. QED
    BY <1>6, <2>2 DEF TryAgain
<1>7. ASSUME NEW p \in Starters, CreateMeta(p) PROVE SchemaTypeOK'
  BY <1>7 DEF CreateMeta
<1>8. ASSUME NEW p \in Starters, GiveUpWaiting(p) PROVE SchemaTypeOK'
  BY <1>8 DEF GiveUpWaiting
<1>9. ASSUME NEW p \in Starters, BeginMigrate(p) PROVE SchemaTypeOK'
  <2>1. PendingMigrations(schema.version, knows[p]) \in Migrations
    BY PendingType
  <2>2. QED
    BY <1>9, <2>1 DEF BeginMigrate, Begins
<1>10. ASSUME NEW p \in Starters, ApplyMigration(p) PROVE SchemaTypeOK'
  <2>1. UpTo(schema.version + 1) \in Migrations
    BY <1>10, ApplyGoesOn, UpToType DEF SchemaInv
  <2>2. PendingMigrations(schema.version + 1, knows[p]) \in Migrations
    BY <1>10, ApplyGoesOn, PendingType
  <2>3. schema' \in Schemas
    <3> HIDE DEF Schemas
    <3>1. schema \in Schemas
      OBVIOUS
    <3>2. /\ schema' = [schema EXCEPT !.version = schema.version + 1,
                                      !.applied = UpTo(schema.version + 1)]
          /\ schema.version + 1 \in Versions
      BY <1>10, ApplyGoesOn
    <3>3. QED
      BY <2>1, <3>1, <3>2, Applies, Zenon
  <2>4. pending' \in [Starters -> Migrations]
    <3>1. pending' = [pending EXCEPT ![p] = PendingMigrations(schema.version + 1, knows[p])]
      BY <1>10, ApplyGoesOn
    <3>2. QED
      BY <2>2, <3>1, Zenon
  <2>5. QED
    BY <1>10, <2>3, <2>4, ApplyGoesOn
<1>11. ASSUME NEW p \in Starters, CommitMigrate(p) PROVE SchemaTypeOK'
  BY <1>11 DEF CommitMigrate
<1>12. ASSUME NEW p \in Starters, Die(p) PROVE SchemaTypeOK'
  BY <1>12, NoneIsList DEF Die
<1>13. CASE UNCHANGED schemaVars
  BY <1>13 DEF schemaVars, fileVars
<1>14. QED
  BY <1>1, <1>2, <1>3, <1>4, <1>5, <1>6, <1>7, <1>8, <1>9, <1>10, <1>11, <1>12, <1>13
       DEF SchemaNext

LEMMA VersionStep == SchemaInv /\ [SchemaNext]_schemaVars => VersionTells'
<1> SUFFICES ASSUME SchemaInv, [SchemaNext]_schemaVars PROVE VersionTells'
  OBVIOUS
<1> USE SchemaAssumption DEF SchemaInv, SchemaTypeOK, VersionTells, OneMigrates, Schemas, Goes,
     fileVars, Unlocked
<1>1. ASSUME NEW p \in Starters, Start(p) PROVE VersionTells'
  BY <1>1 DEF Start
<1>2. ASSUME NEW p \in Starters, ReadMode(p) PROVE VersionTells'
  BY <1>2 DEF ReadMode
<1>3. ASSUME NEW p \in Starters, SwitchToWal(p) PROVE VersionTells'
  BY <1>3 DEF SwitchToWal
<1>4. ASSUME NEW p \in Starters, SwitchRefused(p) PROVE VersionTells'
  BY <1>4 DEF SwitchRefused
<1>5. ASSUME NEW p \in Starters, SiblingSwitched(p) PROVE VersionTells'
  BY <1>5 DEF SiblingSwitched
<1>6. ASSUME NEW p \in Starters, TryAgain(p) PROVE VersionTells'
  BY <1>6 DEF TryAgain
<1>7. ASSUME NEW p \in Starters, CreateMeta(p) PROVE VersionTells'
  BY <1>7 DEF CreateMeta
<1>8. ASSUME NEW p \in Starters, GiveUpWaiting(p) PROVE VersionTells'
  BY <1>8 DEF GiveUpWaiting
<1>9. ASSUME NEW p \in Starters, BeginMigrate(p) PROVE VersionTells'
  BY <1>9 DEF BeginMigrate, Begins
<1>10. ASSUME NEW p \in Starters, ApplyMigration(p) PROVE VersionTells'
  <2>1. /\ schema'.version = schema.version + 1 /\ schema'.applied = UpTo(schema.version + 1)
        /\ durableSchema' = durableSchema /\ migrator' = p
    BY <1>10, ApplyGoesOn
  <2>2. durableSchema.version <= schema.version + 1
    BY DEF Versions
  <2>3. QED
    BY <2>1, <2>2
<1>11. ASSUME NEW p \in Starters, CommitMigrate(p) PROVE VersionTells'
  <2>1. schema.version <= schema.version /\ durableSchema.version <= durableSchema.version
    BY DEF Versions
  <2>2. QED
    BY <1>11, <2>1 DEF CommitMigrate
<1>12. ASSUME NEW p \in Starters, Die(p) PROVE VersionTells'
  <2>1. schema.version <= schema.version /\ durableSchema.version <= durableSchema.version
    BY DEF Versions
  <2>2. QED
    BY <1>12, <2>1 DEF Die
<1>13. CASE UNCHANGED schemaVars
  BY <1>13 DEF schemaVars, fileVars
<1>14. QED
  BY <1>1, <1>2, <1>3, <1>4, <1>5, <1>6, <1>7, <1>8, <1>9, <1>10, <1>11, <1>12, <1>13
       DEF SchemaNext

LEMMA MigrateStep == SchemaInv /\ [SchemaNext]_schemaVars => OneMigrates'
<1> SUFFICES ASSUME SchemaInv, [SchemaNext]_schemaVars PROVE OneMigrates'
  OBVIOUS
<1> USE SchemaAssumption DEF SchemaInv, SchemaTypeOK, OneMigrates, Schemas, Doings, Goes,
     fileVars, Unlocked
<1>1. ASSUME NEW p \in Starters, Start(p) PROVE OneMigrates'
  BY <1>1 DEF Start
<1>2. ASSUME NEW p \in Starters, ReadMode(p) PROVE OneMigrates'
  BY <1>2 DEF ReadMode
<1>3. ASSUME NEW p \in Starters, SwitchToWal(p) PROVE OneMigrates'
  BY <1>3 DEF SwitchToWal
<1>4. ASSUME NEW p \in Starters, SwitchRefused(p) PROVE OneMigrates'
  BY <1>4 DEF SwitchRefused
<1>5. ASSUME NEW p \in Starters, SiblingSwitched(p) PROVE OneMigrates'
  BY <1>5 DEF SiblingSwitched
<1>6. ASSUME NEW p \in Starters, TryAgain(p) PROVE OneMigrates'
  BY <1>6 DEF TryAgain
<1>7. ASSUME NEW p \in Starters, CreateMeta(p) PROVE OneMigrates'
  BY <1>7 DEF CreateMeta
<1>8. ASSUME NEW p \in Starters, GiveUpWaiting(p) PROVE OneMigrates'
  BY <1>8 DEF GiveUpWaiting
<1>9. ASSUME NEW p \in Starters, BeginMigrate(p) PROVE OneMigrates'
  BY <1>9 DEF BeginMigrate, Begins
<1>10. ASSUME NEW p \in Starters, ApplyMigration(p) PROVE OneMigrates'
  <2>1. schema'.version = schema.version + 1
    BY <1>10, ApplyGoesOn
  <2>2. pending' = [pending EXCEPT ![p] = PendingMigrations(schema.version + 1, knows[p])]
    BY <1>10, ApplyGoesOn
  <2>3. pending'[p] = PendingMigrations(schema.version + 1, knows[p])
    BY <2>2, Zenon
  <2>4. pending'[p] = PendingMigrations(schema'.version, knows[p])
    BY <2>1, <2>3
  <2>5. QED
    BY <1>10, <2>4, ApplyGoesOn
<1>11. ASSUME NEW p \in Starters, CommitMigrate(p) PROVE OneMigrates'
  BY <1>11 DEF CommitMigrate
<1>12. ASSUME NEW p \in Starters, Die(p) PROVE OneMigrates'
  BY <1>12 DEF Die
<1>13. CASE UNCHANGED schemaVars
  BY <1>13 DEF schemaVars, fileVars
<1>14. QED
  BY <1>1, <1>2, <1>3, <1>4, <1>5, <1>6, <1>7, <1>8, <1>9, <1>10, <1>11, <1>12, <1>13
       DEF SchemaNext

LEMMA PlacesStep == SchemaInv /\ [SchemaNext]_schemaVars => PlacesTell'
<1> SUFFICES ASSUME SchemaInv, [SchemaNext]_schemaVars PROVE PlacesTell'
  OBVIOUS
<1> USE SchemaAssumption DEF SchemaInv, SchemaTypeOK, VersionTells, OneMigrates, PlacesTell,
     Schemas, Doings, Goes, fileVars, Unlocked
<1>1. ASSUME NEW p \in Starters, Start(p) PROVE PlacesTell'
  BY <1>1, AttemptsCount DEF Start
<1>2. ASSUME NEW p \in Starters, ReadMode(p) PROVE PlacesTell'
  BY <1>2 DEF ReadMode
<1>3. ASSUME NEW p \in Starters, SwitchToWal(p) PROVE PlacesTell'
  BY <1>3 DEF SwitchToWal
<1>4. ASSUME NEW p \in Starters, SwitchRefused(p) PROVE PlacesTell'
  BY <1>4 DEF SwitchRefused
<1>5. ASSUME NEW p \in Starters, SiblingSwitched(p) PROVE PlacesTell'
  BY <1>5 DEF SiblingSwitched
<1>6. ASSUME NEW p \in Starters, TryAgain(p) PROVE PlacesTell'
  <2>1. tries[p] + 1 >= MaxTries \/ tries[p] + 1 \in Attempts
    BY <1>6, AttemptsCount, Zenon DEF TryAgain
  <2>2. QED
    BY <1>6, <2>1 DEF TryAgain
<1>7. ASSUME NEW p \in Starters, CreateMeta(p) PROVE PlacesTell'
  BY <1>7 DEF CreateMeta
<1>8. ASSUME NEW p \in Starters, GiveUpWaiting(p) PROVE PlacesTell'
  BY <1>8 DEF GiveUpWaiting
<1>9. ASSUME NEW p \in Starters, BeginMigrate(p) PROVE PlacesTell'
  BY <1>9 DEF BeginMigrate, Begins
<1>10. ASSUME NEW p \in Starters, ApplyMigration(p) PROVE PlacesTell'
  <2>1. schema'.meta = schema.meta
    BY <1>10, ApplyGoesOn
  <2>2. QED
    BY <1>10, <2>1, ApplyGoesOn
<1>11. ASSUME NEW p \in Starters, CommitMigrate(p) PROVE PlacesTell'
  <2>1. knows[p] <= schema.version
    BY <1>11, PendingIsNext DEF CommitMigrate
  <2>2. \A q \in Starters : doing[q] = "open" => knows[q] <= schema.version
    BY Transitive
  <2>3. durableSchema' = schema /\ doing' = [doing EXCEPT ![p] = "open"]
        /\ UNCHANGED <<fileMode, schema, knows>>
    BY <1>11 DEF CommitMigrate
  <2>4. QED
    BY <1>11, <2>1, <2>2, <2>3 DEF CommitMigrate
<1>12. ASSUME NEW p \in Starters, Die(p) PROVE PlacesTell'
  BY <1>12 DEF Die
<1>13. CASE UNCHANGED schemaVars
  BY <1>13 DEF schemaVars, fileVars
<1>14. QED
  BY <1>1, <1>2, <1>3, <1>4, <1>5, <1>6, <1>7, <1>8, <1>9, <1>10, <1>11, <1>12, <1>13
       DEF SchemaNext

-----------------------------------------------------------------------------
(* The theorem.                                                            *)

LEMMA SchemaInitInv == SchemaInit => SchemaInv
<1> SUFFICES ASSUME SchemaInit PROVE SchemaInv
  OBVIOUS
<1> USE SchemaAssumption DEF SchemaInit, NoSchema
<1>1. 0 \in Versions /\ <<>> \in Migrations /\ <<>> = UpTo(0) /\ 0 <= 0
  BY NoneIsList DEF Versions, UpTo
<1>2. NoSchema \in Schemas
  BY <1>1 DEF Schemas
<1>3. tries \in [Starters -> 0..MaxTries] /\ \A p \in Starters : tries[p] \in Attempts
  BY AttemptsCount
<1>4. SchemaTypeOK
  BY <1>1, <1>2, <1>3 DEF SchemaTypeOK, Doings
<1>5. VersionTells /\ OneMigrates /\ PlacesTell
  BY <1>1, <1>3 DEF VersionTells, OneMigrates, PlacesTell, Unlocked
<1>6. QED
  BY <1>4, <1>5 DEF SchemaInv

\* The inductive invariant, from the lemmas above.
THEOREM AlwaysSchemaInv == SchemaSpec => []SchemaInv
<1>1. SchemaInv /\ [SchemaNext]_schemaVars => SchemaInv'
  BY SchemaTypeStep, VersionStep, MigrateStep, PlacesStep DEF SchemaInv
<1>2. QED
  BY SchemaInitInv, <1>1, PTL DEF SchemaSpec

\* Openings that race, of older and newer binaries, with crashes anywhere, apply
\* each migration once and in order, never trip over one that a peer applied,
\* and open a store that has all they know (drivers/sqlite.ts, migrate): for any
\* number of processes and migrations, and any number of attempts to switch.
THEOREM MigrationsApplyOnce == SchemaSpec => []MigratedOnce
<1>1. SchemaInv => MigratedOnce
  BY DEF SchemaInv, VersionTells, PlacesTell, MigratedOnce, UpTo
<1>2. QED
  BY AlwaysSchemaInv, <1>1, PTL

-----------------------------------------------------------------------------
(* THE REMASK MIGRATION.                                                   *)

\* Past the row pass no row holds plaintext, and no opening precedes it.
RowsAreMasked ==
  /\ ~RowsPending(marker) => ~live
  /\ \A p \in Openers : stage[p] \in Scrub \cup {"check", "open"} => ~RowsPending(marker)

\* What each step of the scrub has emptied when the next one runs.
Emptied(p) ==
  /\ stage[p] \in {"vacuum", "truncate", "verify", "stamp"} => ~segments
  /\ stage[p] \in {"truncate", "verify", "stamp"} => freed # "plain"
  /\ stage[p] \in {"verify", "stamp"} => ~dbFile /\ wal # "plain"

ScrubEmpties ==
  /\ \A p \in Openers : Emptied(p)
  /\ marker = "scrubbed" => ~segments /\ freed # "plain" /\ ~dbFile /\ wal # "plain"

\* A process that is alone stays so until another one opens, finds what it has
\* emptied as it left it, and ends with the final marker.
Undisturbed(p) ==
  alone[p] =>
    /\ \A q \in Openers \ {p} : ~Connected(q)
    /\ stage[p] \in {"truncate", "verify"} => freed = "none"
    /\ stage[p] = "verify" => wal = "empty"
    /\ stage[p] = "open" => marker = "scrubbed"

RemaskInv == RemaskTypeOK /\ RowsAreMasked /\ ScrubEmpties /\ \A p \in Openers : Undisturbed(p)

-----------------------------------------------------------------------------
(* The steps.                                                              *)

LEMMA RemaskTypeStep == RemaskTypeOK /\ [RemaskNext]_remaskVars => RemaskTypeOK'
<1> SUFFICES ASSUME RemaskTypeOK, [RemaskNext]_remaskVars PROVE RemaskTypeOK'
  OBVIOUS
<1> USE DEF RemaskTypeOK, Stages, Scrub, Commands, WritesFrames, Goto, Keep, bytes
<1>1. ASSUME NEW p \in Openers, NEW c \in Commands, Open(p, c) PROVE RemaskTypeOK'
  BY <1>1 DEF Open
<1>2. ASSUME NEW p \in Openers, Probe(p) PROVE RemaskTypeOK'
  BY <1>2 DEF Probe
<1>3. ASSUME NEW p \in Openers, RowPass(p) PROVE RemaskTypeOK'
  BY <1>3 DEF RowPass
<1>4. ASSUME NEW p \in Openers, Check(p) PROVE RemaskTypeOK'
  BY <1>4 DEF Check
<1>5. ASSUME NEW p \in Openers, RebuildMemoryFts(p) PROVE RemaskTypeOK'
  BY <1>5 DEF RebuildMemoryFts
<1>6. ASSUME NEW p \in Openers, Vacuum(p) PROVE RemaskTypeOK'
  BY <1>6 DEF Vacuum, AfterVacuum
<1>7. ASSUME NEW p \in Openers, CheckpointTruncate(p) PROVE RemaskTypeOK'
  <2>1. PlainIn \in BOOLEAN
    BY DEF PlainIn
  <2>2. dbFile' \in BOOLEAN
    BY <1>7, <2>1 DEF CheckpointTruncate
  <2>3. QED
    BY <1>7, <2>2 DEF CheckpointTruncate
<1>8. ASSUME NEW p \in Openers, Verify(p) PROVE RemaskTypeOK'
  BY <1>8 DEF Verify, Verified
<1>9. ASSUME NEW p \in Openers, Stamp(p) PROVE RemaskTypeOK'
  BY <1>9 DEF Stamp
<1>10. ASSUME NEW p \in Openers, ScrubThrows(p) PROVE RemaskTypeOK'
  BY <1>10 DEF ScrubThrows
<1>11. ASSUME NEW p \in Openers, MaskedWrite(p) PROVE RemaskTypeOK'
  BY <1>11 DEF MaskedWrite
<1>12. ASSUME NEW p \in Openers, Reseal(p) PROVE RemaskTypeOK'
  BY <1>12 DEF Reseal
<1>13. ASSUME NEW p \in Openers, CloseStore(p) PROVE RemaskTypeOK'
  <2>1. PlainIn \in BOOLEAN
    BY DEF PlainIn
  <2>2. dbFile' \in BOOLEAN
    BY <1>13, <2>1 DEF CloseStore
  <2>3. QED
    BY <1>13, <2>2 DEF CloseStore
<1>14. ASSUME NEW p \in Openers, CrashOpener(p) PROVE RemaskTypeOK'
  BY <1>14 DEF CrashOpener
<1>15. ASSUME BreakAnchor PROVE RemaskTypeOK'
  BY <1>15 DEF BreakAnchor
<1>16. ASSUME RestoreLegacyBackup PROVE RemaskTypeOK'
  BY <1>16 DEF RestoreLegacyBackup, Legacy
<1>17. CASE UNCHANGED remaskVars
  BY <1>17 DEF remaskVars
<1>18. QED
  BY <1>1, <1>2, <1>3, <1>4, <1>5, <1>6, <1>7, <1>8, <1>9, <1>10, <1>11, <1>12,
     <1>13, <1>14, <1>15, <1>16, <1>17 DEF RemaskNext

LEMMA RowsStep == RemaskInv /\ [RemaskNext]_remaskVars => RowsAreMasked'
<1> SUFFICES ASSUME RemaskInv, [RemaskNext]_remaskVars PROVE RowsAreMasked'
  OBVIOUS
<1> USE DEF RemaskInv, RemaskTypeOK, RowsAreMasked, RowsPending, Scrub, Connected, Goto, Keep,
     bytes
<1>1. ASSUME NEW p \in Openers, NEW c \in Commands, Open(p, c) PROVE RowsAreMasked'
  BY <1>1 DEF Open
<1>2. ASSUME NEW p \in Openers, Probe(p) PROVE RowsAreMasked'
  BY <1>2 DEF Probe
<1>3. ASSUME NEW p \in Openers, RowPass(p) PROVE RowsAreMasked'
  BY <1>3 DEF RowPass
<1>4. ASSUME NEW p \in Openers, Check(p) PROVE RowsAreMasked'
  BY <1>4 DEF Check
<1>5. ASSUME NEW p \in Openers, RebuildMemoryFts(p) PROVE RowsAreMasked'
  BY <1>5 DEF RebuildMemoryFts
<1>6. ASSUME NEW p \in Openers, Vacuum(p) PROVE RowsAreMasked'
  BY <1>6 DEF Vacuum, AfterVacuum
<1>7. ASSUME NEW p \in Openers, CheckpointTruncate(p) PROVE RowsAreMasked'
  BY <1>7 DEF CheckpointTruncate
<1>8. ASSUME NEW p \in Openers, Verify(p) PROVE RowsAreMasked'
  BY <1>8 DEF Verify, Verified
<1>9. ASSUME NEW p \in Openers, Stamp(p) PROVE RowsAreMasked'
  BY <1>9 DEF Stamp
<1>10. ASSUME NEW p \in Openers, ScrubThrows(p) PROVE RowsAreMasked'
  BY <1>10 DEF ScrubThrows
<1>11. ASSUME NEW p \in Openers, MaskedWrite(p) PROVE RowsAreMasked'
  BY <1>11 DEF MaskedWrite
<1>12. ASSUME NEW p \in Openers, Reseal(p) PROVE RowsAreMasked'
  BY <1>12 DEF Reseal
<1>13. ASSUME NEW p \in Openers, CloseStore(p) PROVE RowsAreMasked'
  BY <1>13 DEF CloseStore
<1>14. ASSUME NEW p \in Openers, CrashOpener(p) PROVE RowsAreMasked'
  BY <1>14 DEF CrashOpener
<1>15. ASSUME BreakAnchor PROVE RowsAreMasked'
  BY <1>15 DEF BreakAnchor
<1>16. ASSUME RestoreLegacyBackup PROVE RowsAreMasked'
  BY <1>16 DEF RestoreLegacyBackup, Legacy
<1>17. CASE UNCHANGED remaskVars
  BY <1>17 DEF remaskVars
<1>18. QED
  BY <1>1, <1>2, <1>3, <1>4, <1>5, <1>6, <1>7, <1>8, <1>9, <1>10, <1>11, <1>12,
     <1>13, <1>14, <1>15, <1>16, <1>17 DEF RemaskNext

LEMMA ScrubStep == RemaskInv /\ [RemaskNext]_remaskVars => ScrubEmpties'
<1> SUFFICES ASSUME RemaskInv, [RemaskNext]_remaskVars PROVE ScrubEmpties'
  OBVIOUS
<1> USE DEF RemaskInv, RemaskTypeOK, RowsAreMasked, RowsPending, ScrubEmpties, Emptied, Scrub,
     Connected, PlainIn, WritesFrames, Goto, Keep, bytes
<1>1. ASSUME NEW p \in Openers, NEW c \in Commands, Open(p, c) PROVE ScrubEmpties'
  BY <1>1 DEF Open
<1>2. ASSUME NEW p \in Openers, Probe(p) PROVE ScrubEmpties'
  BY <1>2 DEF Probe
<1>3. ASSUME NEW p \in Openers, RowPass(p) PROVE ScrubEmpties'
  BY <1>3 DEF RowPass
<1>4. ASSUME NEW p \in Openers, Check(p) PROVE ScrubEmpties'
  BY <1>4 DEF Check
<1>5. ASSUME NEW p \in Openers, RebuildMemoryFts(p) PROVE ScrubEmpties'
  BY <1>5 DEF RebuildMemoryFts
<1>6. ASSUME NEW p \in Openers, Vacuum(p) PROVE ScrubEmpties'
  BY <1>6 DEF Vacuum, AfterVacuum
<1>7. ASSUME NEW p \in Openers, CheckpointTruncate(p) PROVE ScrubEmpties'
  BY <1>7 DEF CheckpointTruncate
<1>8. ASSUME NEW p \in Openers, Verify(p) PROVE ScrubEmpties'
  BY <1>8 DEF Verify, Verified
<1>9. ASSUME NEW p \in Openers, Stamp(p) PROVE ScrubEmpties'
  BY <1>9 DEF Stamp
<1>10. ASSUME NEW p \in Openers, ScrubThrows(p) PROVE ScrubEmpties'
  BY <1>10 DEF ScrubThrows
<1>11. ASSUME NEW p \in Openers, MaskedWrite(p) PROVE ScrubEmpties'
  BY <1>11 DEF MaskedWrite
<1>12. ASSUME NEW p \in Openers, Reseal(p) PROVE ScrubEmpties'
  BY <1>12 DEF Reseal
<1>13. ASSUME NEW p \in Openers, CloseStore(p) PROVE ScrubEmpties'
  BY <1>13 DEF CloseStore
<1>14. ASSUME NEW p \in Openers, CrashOpener(p) PROVE ScrubEmpties'
  BY <1>14 DEF CrashOpener
<1>15. ASSUME BreakAnchor PROVE ScrubEmpties'
  BY <1>15 DEF BreakAnchor
<1>16. ASSUME RestoreLegacyBackup PROVE ScrubEmpties'
  BY <1>16 DEF RestoreLegacyBackup, Legacy
<1>17. CASE UNCHANGED remaskVars
  BY <1>17 DEF remaskVars
<1>18. QED
  BY <1>1, <1>2, <1>3, <1>4, <1>5, <1>6, <1>7, <1>8, <1>9, <1>10, <1>11, <1>12,
     <1>13, <1>14, <1>15, <1>16, <1>17 DEF RemaskNext

LEMMA AloneStep == RemaskInv /\ [RemaskNext]_remaskVars => (\A r \in Openers : Undisturbed(r))'
<1> SUFFICES ASSUME RemaskInv, [RemaskNext]_remaskVars PROVE (\A r \in Openers : Undisturbed(r))'
  OBVIOUS
<1> USE DEF RemaskInv, RemaskTypeOK, Undisturbed, Scrub, Connected, Others, PlainIn, Goto,
     Keep, bytes
<1>1. ASSUME NEW p \in Openers, NEW c \in Commands, Open(p, c)
      PROVE  (\A r \in Openers : Undisturbed(r))'
  BY <1>1 DEF Open
<1>2. ASSUME NEW p \in Openers, Probe(p) PROVE (\A r \in Openers : Undisturbed(r))'
  BY <1>2 DEF Probe
<1>3. ASSUME NEW p \in Openers, RowPass(p) PROVE (\A r \in Openers : Undisturbed(r))'
  BY <1>3 DEF RowPass
<1>4. ASSUME NEW p \in Openers, Check(p) PROVE (\A r \in Openers : Undisturbed(r))'
  BY <1>4 DEF Check
<1>5. ASSUME NEW p \in Openers, RebuildMemoryFts(p) PROVE (\A r \in Openers : Undisturbed(r))'
  BY <1>5 DEF RebuildMemoryFts
<1>6. ASSUME NEW p \in Openers, Vacuum(p) PROVE (\A r \in Openers : Undisturbed(r))'
  BY <1>6 DEF Vacuum, AfterVacuum
<1>7. ASSUME NEW p \in Openers, CheckpointTruncate(p) PROVE (\A r \in Openers : Undisturbed(r))'
  BY <1>7 DEF CheckpointTruncate
<1>8. ASSUME NEW p \in Openers, Verify(p) PROVE (\A r \in Openers : Undisturbed(r))'
  <2>1. ASSUME NEW r \in Openers, r # p PROVE Undisturbed(r)'
    BY <1>8, <2>1 DEF Verify
  <2>2. alone[p] => Verified(p)
    <3>1. freed # "plain" /\ ~dbFile
      BY <1>8 DEF Verify, ScrubEmpties, Emptied
    <3>2. QED
      BY <1>8, <3>1 DEF Verify, Verified
  <2>3. Undisturbed(p)'
    BY <1>8, <2>2 DEF Verify
  <2>4. QED
    BY <2>1, <2>3
<1>9. ASSUME NEW p \in Openers, Stamp(p) PROVE (\A r \in Openers : Undisturbed(r))'
  BY <1>9 DEF Stamp
<1>10. ASSUME NEW p \in Openers, ScrubThrows(p) PROVE (\A r \in Openers : Undisturbed(r))'
  BY <1>10 DEF ScrubThrows
<1>11. ASSUME NEW p \in Openers, MaskedWrite(p) PROVE (\A r \in Openers : Undisturbed(r))'
  BY <1>11 DEF MaskedWrite
<1>12. ASSUME NEW p \in Openers, Reseal(p) PROVE (\A r \in Openers : Undisturbed(r))'
  BY <1>12 DEF Reseal
<1>13. ASSUME NEW p \in Openers, CloseStore(p) PROVE (\A r \in Openers : Undisturbed(r))'
  BY <1>13 DEF CloseStore
<1>14. ASSUME NEW p \in Openers, CrashOpener(p) PROVE (\A r \in Openers : Undisturbed(r))'
  BY <1>14 DEF CrashOpener
<1>15. ASSUME BreakAnchor PROVE (\A r \in Openers : Undisturbed(r))'
  BY <1>15 DEF BreakAnchor
<1>16. ASSUME RestoreLegacyBackup PROVE (\A r \in Openers : Undisturbed(r))'
  BY <1>16 DEF RestoreLegacyBackup, Legacy
<1>17. CASE UNCHANGED remaskVars
  BY <1>17 DEF remaskVars
<1>18. QED
  BY <1>1, <1>2, <1>3, <1>4, <1>5, <1>6, <1>7, <1>8, <1>9, <1>10, <1>11, <1>12,
     <1>13, <1>14, <1>15, <1>16, <1>17 DEF RemaskNext

LEMMA RemaskInitInv == RemaskInit => RemaskInv
<1> SUFFICES ASSUME RemaskInit PROVE RemaskInv
  OBVIOUS
<1>1. RemaskTypeOK
  BY DEF RemaskInit, RemaskTypeOK, Stages, Commands
<1>2. RowsAreMasked /\ ScrubEmpties
  BY DEF RemaskInit, RowsAreMasked, RowsPending, ScrubEmpties, Emptied, Scrub
<1>3. \A p \in Openers : Undisturbed(p)
  BY DEF RemaskInit, Undisturbed
<1>4. QED
  BY <1>1, <1>2, <1>3 DEF RemaskInv

\* The inductive invariant, from the lemmas above.
THEOREM AlwaysRemaskInv == RemaskSpec => []RemaskInv
<1>1. RemaskInv /\ [RemaskNext]_remaskVars => RemaskInv'
  BY RemaskTypeStep, RowsStep, ScrubStep, AloneStep DEF RemaskInv
<1>2. QED
  BY RemaskInitInv, <1>1, PTL DEF RemaskSpec

\* A final marker means that plaintext is nowhere, and an opening that nobody
\* disturbs ends with it (store.ts, remaskState and scrubRemaskRemnants): for any
\* number of processes opening, writing, resealing, dying and closing.
THEOREM FinalMarkerIsTrue == RemaskSpec => []MarkerTellsTheTruth
<1>1. RemaskInv => MarkerTellsTheTruth
  <2> SUFFICES ASSUME RemaskInv PROVE MarkerTellsTheTruth
    OBVIOUS
  <2>1. ASSUME marker = "scrubbed" PROVE ~PlainIn /\ ~dbFile /\ wal # "plain"
    BY <2>1 DEF RemaskInv, RowsAreMasked, RowsPending, ScrubEmpties, PlainIn
  <2>2. ASSUME NEW p \in Openers, stage[p] = "open", alone[p] PROVE marker = "scrubbed"
    BY <2>2 DEF RemaskInv, Undisturbed
  <2>3. QED
    BY <2>1, <2>2 DEF MarkerTellsTheTruth
<1>2. QED
  BY AlwaysRemaskInv, <1>1, PTL

=============================================================================
