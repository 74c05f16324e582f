------------------------ MODULE JournalAnchor_proofs ------------------------
(***************************************************************************)
(* What the gate promises of the checkpoint file, for any processes and    *)
(* any number of rows and of faults.  All but the last section assume that *)
(* nobody runs seal(): the forced mirror of a reseal overwrites the file   *)
(* whatever it holds.  What holds with reseals too is that no lag is       *)
(* silent (Told, LagsAreTold, at the end).                                 *)
(*                                                                         *)
(* The argument without reseals: what a process has read of the database   *)
(* is an earlier state of it, and the gate's reads are its present state,  *)
(* because the gate holds the writer lock (OneWriter).  What a process has *)
(* read of the file, nobody else touching it, is still a prefix of what    *)
(* the file holds (KnowsFile): every compare-and-swap replaces a value by  *)
(* one that extends it (Extends), and all of them are prefixes of the      *)
(* rows, since a database can be restored only while no command runs.  So  *)
(* a file that anchored the rows when the gate read it still does at the   *)
(* commit (GateHolds), and each commit finds every earlier row witnessed.  *)
(***************************************************************************)
EXTENDS JournalAnchor, FiniteSetTheorems, TLAPS

-----------------------------------------------------------------------------
(* Sequences: prefixes, and the rows in a chain.                           *)

LEMMA PrefixIs ==
  ASSUME NEW S, NEW s \in Seq(S), NEW t \in Seq(S)
  PROVE  IsPrefix(s, t) <=> Len(s) <= Len(t) /\ \A i \in 1..Len(s) : s[i] = t[i]
BY DEF IsPrefix

LEMMA PrefixOrder ==
  ASSUME NEW S, NEW s \in Seq(S), NEW t \in Seq(S), IsPrefix(s, t)
  PROVE  /\ IsPrefix(s, s)
         /\ \A u \in Seq(S) : IsPrefix(t, u) => IsPrefix(s, u)
         /\ IsPrefix(t, s) => s = t
<1>1. IsPrefix(s, s)
  BY PrefixIs
<1>2. ASSUME NEW u \in Seq(S), IsPrefix(t, u) PROVE IsPrefix(s, u)
  <2>1. Len(s) <= Len(u)
    BY <1>2, PrefixIs
  <2>2. ASSUME NEW i \in 1..Len(s) PROVE s[i] = u[i]
    BY <1>2, PrefixIs
  <2>3. QED
    BY <2>1, <2>2, PrefixIs
<1>3. ASSUME IsPrefix(t, s) PROVE s = t
  <2>1. Len(s) = Len(t) /\ \A i \in 1..Len(s) : s[i] = t[i]
    BY <1>3, PrefixIs
  <2>2. QED
    BY <2>1
<1>4. QED
  BY <1>1, <1>2, <1>3

LEMMA PrefixSet ==
  ASSUME NEW S, NEW s \in Seq(S), NEW t \in Seq(S), IsPrefix(s, t)
  PROVE  ToSet(s) \subseteq ToSet(t)
<1>1. Len(s) <= Len(t) /\ \A i \in 1..Len(s) : s[i] = t[i]
  BY PrefixIs
<1>2. DOMAIN s = 1..Len(s) /\ DOMAIN t = 1..Len(t)
  OBVIOUS
<1>3. \A i \in DOMAIN s : i \in DOMAIN t /\ s[i] = t[i]
  BY <1>1, <1>2
<1>4. QED
  BY <1>3 DEF ToSet

LEMMA Grown ==
  ASSUME NEW s \in Chain, NEW x \in 1..MaxEntries
  PROVE  /\ Append(s, x) \in Chain /\ Append(s, x) # <<>>
         /\ IsPrefix(s, Append(s, x))
         /\ ToSet(Append(s, x)) = ToSet(s) \cup {x}
<1>1. /\ s \in Chain /\ Append(s, x) \in Chain /\ Len(Append(s, x)) = Len(s) + 1
      /\ \A i \in 1..Len(s) : Append(s, x)[i] = s[i]
      /\ Append(s, x)[Len(s) + 1] = x
  BY DEF Chain
<1>2. IsPrefix(s, Append(s, x)) /\ Append(s, x) # <<>>
  <2>1. Len(s) <= Len(s) + 1 /\ \A i \in 1..Len(s) : s[i] = Append(s, x)[i]
    BY <1>1
  <2>2. IsPrefix(s, Append(s, x))
    BY <1>1, <2>1, PrefixIs DEF Chain
  <2>3. Append(s, x) # <<>>
    BY <1>1
  <2>4. QED
    BY <2>2, <2>3
<1>3. DOMAIN Append(s, x) = 1..(Len(s) + 1) /\ DOMAIN s = 1..Len(s) /\ Len(s) \in Nat
  BY <1>1 DEF Chain
<1> DEFINE a == Append(s, x)
<1>4. \A i \in DOMAIN a : a[i] = x \/ (i \in DOMAIN s /\ a[i] = s[i])
  <2>1. SUFFICES ASSUME NEW i \in 1..(Len(s) + 1)
                 PROVE  a[i] = x \/ (i \in DOMAIN s /\ a[i] = s[i])
    BY <1>3
  <2>2. CASE i = Len(s) + 1
    BY <1>1, <2>2
  <2>3. CASE i \in 1..Len(s)
    BY <1>1, <1>3, <2>3
  <2>4. QED
    BY <1>3, <2>2, <2>3
<1>5. \A i \in DOMAIN s : i \in DOMAIN a /\ a[i] = s[i]
  BY <1>1, <1>3
<1>6. \E i \in DOMAIN a : a[i] = x
  BY <1>1, <1>3
<1> HIDE DEF a
<1>7. ToSet(a) = ToSet(s) \cup {x}
  BY <1>4, <1>5, <1>6 DEF ToSet
<1>8. QED
  BY <1>1, <1>2, <1>7 DEF a

LEMMA Cut ==
  ASSUME NEW S, NEW s \in Seq(S), NEW n \in 1..(Len(s) - 1)
  PROVE  /\ SubSeq(s, 1, n) \in Seq(S) /\ SubSeq(s, 1, n) # <<>>
         /\ IsPrefix(SubSeq(s, 1, n), s)
<1>1. SubSeq(s, 1, n) \in Seq(S) /\ Len(SubSeq(s, 1, n)) = n
      /\ \A i \in 1..n : SubSeq(s, 1, n)[i] = s[i]
  OBVIOUS
<1>2. n <= Len(s) /\ SubSeq(s, 1, n) # <<>>
  BY <1>1
<1>3. IsPrefix(SubSeq(s, 1, n), s)
  BY <1>1, <1>2, PrefixIs
<1>4. QED
  BY <1>1, <1>2, <1>3

LEMMA EmptyPrefix ==
  ASSUME NEW S, NEW s \in Seq(S), IsPrefix(s, <<>>)
  PROVE  s = <<>>
<1>1. Len(s) <= 0
  BY DEF IsPrefix
<1>2. QED
  BY <1>1

-----------------------------------------------------------------------------
(* The invariant.                                                          *)

\* The steps of verify() that rely on the rows read.
Informed == {"meta", "file", "version again", "heal", "heal threw", "read back", "committed"}

Stage(p) ==
  /\ \/ pc[p] = "idle" /\ mode[p] = "none"
     \/ pc[p] = "insert" /\ mode[p] = "gate"
     \/ pc[p] \in MirrorSteps \cup {"confirm", "confirm file"} /\ mode[p] = "receipt"
     \/ pc[p] \in VerifySteps /\ mode[p] \in {"gate", "receipt", "command"}
  /\ mode[p] = "gate" => minted < MaxEntries

OneWriter == \A p, q \in Procs : mode[p] = "gate" /\ mode[q] = "gate" => p = q

\* The checkpoint commits to the rows it was committed with.
CheckpointOfRows == meta = Absent \/ (meta = rows /\ rows # <<>>)

\* The file may be advanced from e to c.
Extends(e, c) == e = Absent \/ (Authentic(e) /\ IsPrefix(e, c))

\* What p holds of the database is an earlier state of it; for the gate, the
\* present one.
KnowsRows(p) ==
  /\ pc[p] = "idle" => seen[p].meta = Absent
  /\ seen[p].meta # Absent => seen[p].meta # <<>> /\ IsPrefix(seen[p].meta, rows)
  /\ mode[p] = "gate" /\ pc[p] \in Informed => seen[p].rows = rows
  /\ pc[p] \in {"heal", "heal threw", "read back"} => Live(p)
  /\ pc[p] \in {"mirror file", "guards", "swap", "confirm file"} => seen[p].meta # Absent
  /\ pc[p] \in {"heal", "swap"} => Extends(seen[p].ext, seen[p].meta)

\* The row a receipt is about is among the rows its confirmation goes by.
KnowsEntry(p) ==
  mode[p] = "receipt" =>
    /\ entry[p] \in ToSet(rows)
    /\ pc[p] \in Informed => entry[p] \in ToSet(seen[p].rows)
    /\ pc[p] = "confirm file" => entry[p] \in ToSet(seen[p].meta)

\* What p saw in the file has been in it and, where nobody else touches the
\* file, is still a prefix of what it holds.
KnowsFile(p) ==
  Authentic(seen[p].ext) =>
    /\ ToSet(seen[p].ext) \subseteq witnessed
    /\ FileUntouched => Authentic(ext) /\ IsPrefix(seen[p].ext, ext)

\* The file f is the anchor of the present rows.
Anchors(f) == f = rows \/ (rows = <<>> /\ f = Absent)

\* What the gate concludes from the file still holds when the entry commits.
GateHolds(p) ==
  /\ pc[p] = "insert" => ToSet(rows) \subseteq witnessed /\ (FileUntouched => Anchors(ext))
  /\ FileUntouched /\ mode[p] = "gate" /\ pc[p] = "version again" /\ Anchors(seen[p].ext)
       => ext = seen[p].ext

ProcInv(p) == Stage(p) /\ KnowsRows(p) /\ KnowsEntry(p) /\ KnowsFile(p) /\ GateHolds(p)

Journal ==
  /\ OneWriter /\ CheckpointOfRows
  /\ Authentic(ext) => ToSet(ext) \subseteq witnessed
  /\ \E x : ToSet(rows) \ witnessed \subseteq {x}
  /\ AnchoredIsWitnessed

Inv == TypeOK /\ Journal /\ \A p \in Procs : ProcInv(p)

Safe == Journal /\ \A p \in Procs : ProcInv(p)

\* Where a process can be, whatever the commands, and what the types of its next
\* step depend on.
Placed(p) ==
  /\ \/ pc[p] = "idle" /\ mode[p] = "none"
     \/ pc[p] = "insert" /\ mode[p] = "gate"
     \/ pc[p] \in MirrorSteps /\ mode[p] \in {"receipt", "seal receipt"}
     \/ pc[p] \in {"confirm", "confirm file"} /\ mode[p] \in {"receipt", "seal receipt", "seal"}
     \/ pc[p] \in VerifySteps /\ mode[p] \in Modes \ {"none"}
  /\ mode[p] = "gate" => minted < MaxEntries
  /\ mode[p] \in {"receipt", "seal receipt"} => entry[p] \in 1..MaxEntries
  /\ pc[p] \in {"heal", "heal threw", "read back"} => Live(p)
  /\ pc[p] \in {"mirror file", "guards", "swap", "confirm file"} => seen[p].meta # Absent

Typed == TypeOK /\ OneWriter /\ \A p \in Procs : Placed(p)

-----------------------------------------------------------------------------
(* What a step does to the file and to the other processes.               *)

LEMMA Special ==
  /\ \A c \in Chain : Authentic(c) /\ c # Absent /\ c # Forged /\ c # Unreadable
  /\ ~Authentic(Absent) /\ ~Authentic(Forged) /\ ~Authentic(Unreadable)
BY ConstantsAssumption DEF Authentic, Chain

LEMMA Types ==
  ASSUME TypeOK, NEW p \in Procs
  PROVE  /\ rows \in Chain /\ (meta \in Chain \/ meta = Absent)
         /\ (ext \in Chain \/ ext \in {Absent, Forged, Unreadable})
         /\ seen[p].rows \in Chain
         /\ (seen[p].meta \in Chain \/ seen[p].meta = Absent)
         /\ (seen[p].ext \in Chain \/ seen[p].ext \in {Absent, Forged})
BY DEF TypeOK

\* Only p moves.
Only(p) ==
  \A q \in Procs : q # p =>
    pc'[q] = pc[q] /\ mode'[q] = mode[q] /\ seen'[q] = seen[q] /\ entry'[q] = entry[q]

\* The program's way with the file.
FileMoves ==
  \/ UNCHANGED <<ext, witnessed>>
  \/ \E c \in Chain :
       /\ c # <<>> /\ IsPrefix(c, rows) /\ Extends(ext, c)
       /\ ext' = c /\ witnessed' = witnessed \cup ToSet(c)

LEMMA PrefixesOf ==
  ASSUME NEW s \in Chain, NEW t \in Chain
  PROVE  /\ IsPrefix(s, s)
         /\ IsPrefix(s, t) => ToSet(s) \subseteq ToSet(t)
         /\ IsPrefix(s, t) /\ IsPrefix(t, s) => s = t
         /\ \A u \in Chain : IsPrefix(s, t) /\ IsPrefix(t, u) => IsPrefix(s, u)
         /\ IsPrefix(s, <<>>) => s = <<>>
<1>1. s \in Seq(1..MaxEntries) /\ t \in Seq(1..MaxEntries)
  BY DEF Chain
<1>2. IsPrefix(s, s)
  BY <1>1, PrefixIs
<1>3. IsPrefix(s, t) => ToSet(s) \subseteq ToSet(t)
  BY <1>1, PrefixSet
<1>4. IsPrefix(s, t) /\ IsPrefix(t, s) => s = t
  BY <1>1, PrefixOrder
<1>5. \A u \in Chain : IsPrefix(s, t) /\ IsPrefix(t, u) => IsPrefix(s, u)
  BY <1>1, PrefixOrder DEF Chain
<1>6. IsPrefix(s, <<>>) => s = <<>>
  BY <1>1, EmptyPrefix
<1>7. QED
  BY <1>2, <1>3, <1>4, <1>5, <1>6

\* A prefix of the file stays one, and an anchor stays the anchor.
LEMMA FileOnlyGrows ==
  ASSUME TypeOK, FileMoves
  PROVE  /\ witnessed \subseteq witnessed'
         /\ ext' \in Chain \/ ext' = ext
         /\ Authentic(ext) => Authentic(ext') /\ ToSet(ext) \subseteq ToSet(ext')
         /\ \A s \in Chain : Authentic(ext) /\ IsPrefix(s, ext) => IsPrefix(s, ext')
         /\ Anchors(ext) => ext' = ext
<1>1. CASE UNCHANGED <<ext, witnessed>>
  BY <1>1
<1>2. ASSUME NEW c \in Chain, c # <<>>, IsPrefix(c, rows), Extends(ext, c),
             ext' = c, witnessed' = witnessed \cup ToSet(c)
      PROVE  /\ witnessed \subseteq witnessed'
             /\ ext' \in Chain \/ ext' = ext
             /\ Authentic(ext) => Authentic(ext') /\ ToSet(ext) \subseteq ToSet(ext')
             /\ \A s \in Chain : Authentic(ext) /\ IsPrefix(s, ext) => IsPrefix(s, ext')
             /\ Anchors(ext) => ext' = ext
  <2>1. rows \in Chain /\ Authentic(c) /\ (Authentic(ext) => ext \in Chain)
    BY Special DEF TypeOK, Authentic
  <2>2. Authentic(ext) => IsPrefix(ext, c)
    BY <1>2, Special DEF Extends
  <2>3. Authentic(ext) => ToSet(ext) \subseteq ToSet(c)
    BY <2>1, <2>2, PrefixesOf
  <2>4. \A s \in Chain : Authentic(ext) /\ IsPrefix(s, ext) => IsPrefix(s, c)
    BY <2>1, <2>2, PrefixesOf
  <2>5. ext = rows => c = ext
    BY <1>2, <2>1, <2>2, PrefixesOf, Special
  <2>6. rows # <<>>
    BY <1>2, <2>1, PrefixesOf
  <2>7. QED
    BY <1>2, <2>1, <2>3, <2>4, <2>5, <2>6 DEF Anchors
<1>3. QED
  BY <1>1, <1>2 DEF FileMoves

LEMMA OthersStay ==
  ASSUME Inv, NEW q \in Procs,
         pc'[q] = pc[q], mode'[q] = mode[q], seen'[q] = seen[q], entry'[q] = entry[q],
         UNCHANGED db, FileMoves, (FileUntouched' <=> FileUntouched)
  PROVE  ProcInv(q)'
<1>1. TypeOK /\ ProcInv(q) /\ (FileUntouched' <=> FileUntouched) /\ UNCHANGED <<rows, meta, minted>>
  BY DEF Inv, db, FileUntouched
<1>2. Stage(q)'
  BY <1>1 DEF ProcInv, Stage
<1>3. KnowsRows(q)'
  BY <1>1 DEF ProcInv, KnowsRows, Extends, Live, Authentic
<1>4. KnowsEntry(q)'
  BY <1>1 DEF ProcInv, KnowsEntry
<1>5. KnowsFile(q)'
  <2>1. SUFFICES ASSUME Authentic(seen[q].ext)
        PROVE  /\ ToSet(seen[q].ext) \subseteq witnessed'
               /\ FileUntouched => Authentic(ext)' /\ IsPrefix(seen[q].ext, ext')
    BY <1>1 DEF KnowsFile, Authentic
  <2>2. seen[q].ext \in Chain
    BY <1>1, <2>1, Types, Special
  <2>3. /\ ToSet(seen[q].ext) \subseteq witnessed
        /\ FileUntouched => Authentic(ext) /\ IsPrefix(seen[q].ext, ext)
    BY <1>1, <2>1 DEF ProcInv, KnowsFile
  <2>4. QED
    BY <1>1, <2>2, <2>3, FileOnlyGrows DEF Authentic
<1>6. GateHolds(q)'
  BY <1>1, FileOnlyGrows DEF ProcInv, GateHolds, Anchors
<1>7. QED
  BY <1>2, <1>3, <1>4, <1>5, <1>6 DEF ProcInv

LEMMA SafeIf ==
  ASSUME Inv, NEW p \in Procs, Only(p), UNCHANGED db, FileMoves, (FileUntouched' <=> FileUntouched),
         mode'[p] = "gate" => mode[p] = "gate" \/ WriterFree,
         FileUntouched => \A e \in vouched' \ vouched : Authentic(ext) /\ e \in ToSet(ext),
         ProcInv(p)'
  PROVE  Safe'
<1>1. TypeOK /\ Journal /\ (FileUntouched' <=> FileUntouched) /\ UNCHANGED <<rows, meta>>
  BY DEF Inv, db, FileUntouched
<1>2. \A q \in Procs : ProcInv(q)'
  BY OthersStay DEF Only
<1>3. OneWriter'
  BY <1>1 DEF Journal, OneWriter, Only, WriterFree
<1>4. CheckpointOfRows'
  BY <1>1 DEF Journal, CheckpointOfRows
<1>5. Authentic(ext)' => ToSet(ext') \subseteq witnessed'
  BY <1>1 DEF Journal, FileMoves, Authentic
<1>6. \E x : ToSet(rows') \ witnessed' \subseteq {x}
  <2>1. PICK x : ToSet(rows) \ witnessed \subseteq {x}
    BY <1>1 DEF Journal
  <2>2. ToSet(rows') \ witnessed' \subseteq {x}
    BY <1>1, <2>1, FileOnlyGrows
  <2>3. QED
    BY <2>2
<1>7. AnchoredIsWitnessed'
  <2>1. SUFFICES ASSUME FileUntouched, NEW e \in vouched'
                 PROVE  Authentic(ext)' /\ e \in ToSet(ext')
    BY <1>1 DEF AnchoredIsWitnessed
  <2>2. Authentic(ext) /\ e \in ToSet(ext)
    BY <1>1, <2>1 DEF Journal, AnchoredIsWitnessed
  <2>3. QED
    BY <1>1, <2>2, FileOnlyGrows DEF Authentic
<1>8. QED
  BY <1>2, <1>3, <1>4, <1>5, <1>6, <1>7 DEF Safe, Journal

-----------------------------------------------------------------------------
(* How a process moves.                                                    *)

LEMMA InvFacts ==
  ASSUME Inv, NEW p \in Procs
  PROVE  /\ TypeOK /\ Journal /\ Stage(p) /\ KnowsRows(p) /\ KnowsEntry(p)
         /\ KnowsFile(p) /\ GateHolds(p)
BY DEF Inv, ProcInv

LEMMA NothingIs == Nothing.meta = Absent /\ Nothing.ext = Absent
BY DEF Nothing

LEMMA TurnIs ==
  ASSUME TypeOK, NEW p \in Procs, NEW next, NEW why, NEW pass, Turn(p, next, why, pass)
  PROVE  /\ pc'[p] = next /\ mode'[p] = why /\ seen'[p] = Nothing
         /\ \A q \in Procs : q # p =>
              pc'[q] = pc[q] /\ mode'[q] = mode[q] /\ seen'[q] = seen[q]
BY DEF TypeOK, Turn, Goto

\* A process that has forgotten what it read, and starts again or stops.
LEMMA AfreshIsSafe ==
  ASSUME Inv, NEW p \in Procs, NEW next, NEW why, NEW pass, Turn(p, next, why, pass),
         \/ next = "idle" /\ why = "none"
         \/ next = "version" /\ why \in {"gate", "receipt", "command"},
         why = "gate" => minted < MaxEntries /\ (mode[p] = "gate" \/ WriterFree),
         why = "receipt" => mode[p] = "receipt" /\ entry'[p] = entry[p],
         \A q \in Procs : q # p => entry'[q] = entry[q],
         UNCHANGED <<db, ext, witnessed>>, (FileUntouched' <=> FileUntouched),
         FileUntouched => \A e \in vouched' \ vouched : Authentic(ext) /\ e \in ToSet(ext)
  PROVE  Safe'
<1>1. /\ pc'[p] = next /\ mode'[p] = why /\ seen'[p] = Nothing
      /\ \A q \in Procs : q # p =>
           pc'[q] = pc[q] /\ mode'[q] = mode[q] /\ seen'[q] = seen[q]
  BY TurnIs DEF Inv
<1>2. seen'[p].meta = Absent /\ seen'[p].ext = Absent
  BY <1>1, NothingIs
<1>3. UNCHANGED <<rows, meta, minted>>
  BY DEF db
<1>4. Stage(p)'
  BY <1>1, <1>3 DEF Stage, VerifySteps
<1>5. KnowsRows(p)'
  BY <1>1, <1>2 DEF KnowsRows, Informed
<1>6. KnowsEntry(p)'
  BY <1>1, <1>3, InvFacts DEF KnowsEntry, Informed
<1>7. KnowsFile(p)'
  BY <1>2 DEF KnowsFile, Authentic
<1>8. GateHolds(p)'
  BY <1>1 DEF GateHolds
<1>9. QED
  BY <1>1, <1>4, <1>5, <1>6, <1>7, <1>8, SafeIf DEF ProcInv, Only, FileMoves

LEMMA ReportIsSafe ==
  ASSUME Inv, NEW p \in Procs, NEW what, Report(p, what), UNCHANGED <<db, ext, witnessed>>,
         (FileUntouched' <=> FileUntouched),
         FileUntouched => \A e \in vouched' \ vouched : Authentic(ext) /\ e \in ToSet(ext)
  PROVE  Safe'
<1>1. Turn(p, "idle", "none", 0)
  BY DEF Report
<1>2. \A q \in Procs : q # p => entry'[q] = entry[q]
  BY DEF Report, Inv, TypeOK
<1>3. QED
  BY <1>1, <1>2, AfreshIsSafe

LEMMA FailIsSafe ==
  ASSUME Inv, NEW p \in Procs, pc[p] \in VerifySteps, Fail(p)
  PROVE  Safe'
<1>1. mode[p] # "seal receipt"
  BY InvFacts DEF Stage
<1>2. PICK what : Report(p, what)
  BY <1>1 DEF Fail, Verdict
<1>3. UNCHANGED <<db, ext, witnessed, vouched>> /\ (FileUntouched' <=> FileUntouched)
  BY DEF Fail, Verdict, files, hurts, FileUntouched
<1>4. QED
  BY <1>2, <1>3, ReportIsSafe

LEMMA UnsettledIsSafe ==
  ASSUME Inv, NEW p \in Procs, pc[p] \in VerifySteps, Unsettled(p)
  PROVE  Safe'
<1>1. CASE Fail(p)
  BY <1>1, FailIsSafe
<1>2. CASE /\ Turn(p, "version", mode[p], attempt[p] + 1)
           /\ UNCHANGED <<db, files, hurts, outcome, entry, vouched>>
  <2>1. mode[p] \in {"gate", "receipt", "command"} /\ (mode[p] = "gate" => minted < MaxEntries)
    BY InvFacts DEF Stage, VerifySteps, MirrorSteps
  <2>2. UNCHANGED <<db, ext, witnessed, entry, vouched>> /\ (FileUntouched' <=> FileUntouched)
    BY <1>2 DEF files, hurts, FileUntouched
  <2>3. QED
    BY <1>2, <2>1, <2>2, AfreshIsSafe
<1>3. QED
  BY <1>1, <1>2 DEF Unsettled

\* The gate goes on to insert where the file anchors the rows; a receipt says
\* anchored where the file holds its row.
LEMMA PassIsSafe ==
  ASSUME Inv, NEW p \in Procs, pc[p] \in VerifySteps \cup {"confirm file"}, Pass(p),
         mode[p] = "gate" => /\ ToSet(rows) \subseteq witnessed
                             /\ FileUntouched => Anchors(ext),
         mode[p] = "receipt" => (FileUntouched => Authentic(ext) /\ entry[p] \in ToSet(ext))
  PROVE  Safe'
<1>1. mode[p] # "seal receipt"
  BY InvFacts DEF Stage
<1>2. UNCHANGED <<db, ext, witnessed>> /\ (FileUntouched' <=> FileUntouched)
  BY DEF Pass, Verdict, files, hurts, FileUntouched
<1>3. FileUntouched => \A e \in vouched' \ vouched : Authentic(ext) /\ e \in ToSet(ext)
  BY <1>1 DEF Pass, Verdict
<1>4. CASE mode[p] = "gate" /\ Turn(p, "insert", "gate", 0) /\ UNCHANGED <<outcome, entry>>
  <2>1. /\ pc'[p] = "insert" /\ mode'[p] = "gate" /\ seen'[p] = Nothing
        /\ \A q \in Procs : q # p =>
             pc'[q] = pc[q] /\ mode'[q] = mode[q] /\ seen'[q] = seen[q]
    BY <1>4, TurnIs DEF Inv
  <2>2. seen'[p].meta = Absent /\ seen'[p].ext = Absent
    BY <2>1, NothingIs
  <2>3. UNCHANGED <<rows, meta, minted, ext, witnessed>> /\ (FileUntouched' <=> FileUntouched)
    BY <1>2 DEF db, FileUntouched
  <2>4. Stage(p)'
    BY <1>4, <2>1, <2>3, InvFacts DEF Stage
  <2>5. KnowsRows(p)' /\ KnowsEntry(p)'
    BY <2>1, <2>2 DEF KnowsRows, KnowsEntry, Informed
  <2>6. KnowsFile(p)'
    BY <2>2 DEF KnowsFile, Authentic
  <2>7. GateHolds(p)'
    BY <1>4, <2>1, <2>3 DEF GateHolds, Anchors
  <2>8. QED
    BY <1>2, <1>3, <1>4, <2>1, <2>4, <2>5, <2>6, <2>7, SafeIf DEF ProcInv, Only, FileMoves
<1>5. CASE \E what : Report(p, what)
  BY <1>2, <1>3, <1>5, ReportIsSafe
<1>6. QED
  BY <1>1, <1>4, <1>5 DEF Pass, Verdict

\* A step after which p has read something, or nothing, and moves on.
LEMMA OnwardIsSafe ==
  ASSUME Inv, NEW p \in Procs, NEW next, pc' = [pc EXCEPT ![p] = next],
         \A q \in Procs : q # p => seen'[q] = seen[q],
         UNCHANGED <<db, mode, entry, vouched>>, (FileUntouched' <=> FileUntouched), FileMoves,
         Stage(p)', KnowsRows(p)', KnowsEntry(p)', KnowsFile(p)', GateHolds(p)'
  PROVE  Safe'
<1>1. Only(p)
  BY DEF Only, Inv, TypeOK
<1>2. QED
  BY <1>1, SafeIf DEF ProcInv

LEMMA LearnIs ==
  ASSUME Inv, NEW p \in Procs, NEW field \in {"version", "rows", "meta", "ext"}, NEW value,
         NEW next, Learn(p, field, value, next)
  PROVE  /\ pc' = [pc EXCEPT ![p] = next] /\ pc'[p] = next
         /\ \A q \in Procs : q # p => seen'[q] = seen[q]
         /\ seen'[p] = [seen[p] EXCEPT ![field] = value]
         /\ UNCHANGED <<db, ext, witnessed, mode, entry, vouched>>
         /\ (FileUntouched' <=> FileUntouched)
         /\ UNCHANGED <<rows, meta, minted>> /\ FileMoves
BY DEF Learn, Goto, Inv, TypeOK, files, hurts, db, FileMoves, FileUntouched

LEMMA ContinueIs ==
  ASSUME Inv, NEW p \in Procs, NEW next, Continue(p, next)
  PROVE  /\ pc' = [pc EXCEPT ![p] = next] /\ pc'[p] = next
         /\ UNCHANGED <<db, ext, witnessed, mode, seen, entry, vouched>>
         /\ (FileUntouched' <=> FileUntouched)
         /\ UNCHANGED <<rows, meta, minted>> /\ FileMoves
BY DEF Continue, Goto, Inv, TypeOK, files, hurts, db, FileMoves, FileUntouched

-----------------------------------------------------------------------------
(* Commands and verifyPass().                                              *)

LEMMA CommandIsSafe ==
  ASSUME Inv, NEW p \in Procs, AppendBegin(p) \/ VerifyCommand(p)
  PROVE  Safe'
<1>1. UNCHANGED <<db, ext, witnessed, entry, vouched>> /\ (FileUntouched' <=> FileUntouched)
  BY DEF AppendBegin, VerifyCommand, files, hurts, FileUntouched
<1>2. CASE AppendBegin(p)
  <2>1. Turn(p, "version", "gate", 1) /\ WriterFree /\ minted < MaxEntries
    BY <1>2 DEF AppendBegin, StartVerify
  <2>2. QED
    BY <1>1, <2>1, AfreshIsSafe
<1>3. CASE VerifyCommand(p)
  <2>1. Turn(p, "version", "command", 1)
    BY <1>3 DEF VerifyCommand, StartVerify
  <2>2. QED
    BY <1>1, <2>1, AfreshIsSafe
<1>4. QED
  BY <1>2, <1>3

LEMMA InsertIsSafe ==
  ASSUME Inv, NEW p \in Procs, Insert(p)
  PROVE  Safe'
<1> DEFINE new == minted + 1
<1>1. /\ TypeOK /\ Journal /\ mode[p] = "gate" /\ minted < MaxEntries /\ new \in 1..MaxEntries
      /\ ToSet(rows) \subseteq witnessed
  <2>1. /\ TypeOK /\ Journal /\ Stage(p) /\ GateHolds(p) /\ pc[p] = "insert"
    BY InvFacts DEF Insert
  <2>2. mode[p] = "gate" /\ minted < MaxEntries /\ ToSet(rows) \subseteq witnessed
    BY <2>1 DEF Stage, GateHolds, MirrorSteps, VerifySteps
  <2>3. minted \in 0..MaxEntries
    BY <2>1 DEF TypeOK
  <2>4. new \in 1..MaxEntries
    BY <2>2, <2>3, ConstantsAssumption
  <2>5. QED
    BY <2>1, <2>2, <2>4
<1>2. /\ rows' = Append(rows, new) /\ meta' = NextMeta /\ entry' = [entry EXCEPT ![p] = new]
      /\ Turn(p, "mirror", "receipt", 0)
      /\ UNCHANGED <<ext, witnessed, vouched>> /\ (FileUntouched' <=> FileUntouched)
  BY DEF Insert, Commit, files, hurts, FileUntouched
<1>3. /\ pc'[p] = "mirror" /\ mode'[p] = "receipt" /\ seen'[p] = Nothing
      /\ \A q \in Procs : q # p =>
           pc'[q] = pc[q] /\ mode'[q] = mode[q] /\ seen'[q] = seen[q]
  BY <1>1, <1>2, TurnIs
<1>4. /\ entry'[p] = new /\ \A q \in Procs : q # p => entry'[q] = entry[q]
  BY <1>1, <1>2 DEF TypeOK
<1>5. rows \in Chain
  BY <1>1 DEF TypeOK
<1>6. /\ rows' \in Chain /\ rows' # <<>> /\ IsPrefix(rows, rows')
      /\ ToSet(rows') = ToSet(rows) \cup {new}
  <2> HIDE DEF new
  <2>1. /\ Append(rows, new) \in Chain /\ Append(rows, new) # <<>>
        /\ IsPrefix(rows, Append(rows, new))
        /\ ToSet(Append(rows, new)) = ToSet(rows) \cup {new}
    BY <1>1, <1>5, Grown
  <2>2. QED
    BY <1>2, <2>1
<1> HIDE DEF new
<1>7. ASSUME NEW q \in Procs PROVE ProcInv(q)'
  <2>1. CASE q = p
    <3>1. seen'[p].meta = Absent /\ seen'[p].ext = Absent
      BY <1>3, NothingIs
    <3>2. Stage(p)'
      BY <1>3 DEF Stage, MirrorSteps
    <3>3. KnowsRows(p)'
      BY <1>3, <3>1 DEF KnowsRows, Informed
    <3>4. KnowsEntry(p)'
      BY <1>3, <1>4, <1>6 DEF KnowsEntry, Informed
    <3>5. KnowsFile(p)' /\ GateHolds(p)'
      BY <1>3, <3>1 DEF KnowsFile, GateHolds, Authentic
    <3>6. QED
      BY <2>1, <3>2, <3>3, <3>4, <3>5 DEF ProcInv
  <2>2. CASE q # p
    <3>1. mode[q] # "gate"
      BY <1>1, <2>2 DEF Journal, OneWriter
    <3>2. /\ pc'[q] = pc[q] /\ mode'[q] = mode[q] /\ seen'[q] = seen[q] /\ entry'[q] = entry[q]
          /\ Stage(q) /\ KnowsRows(q) /\ KnowsEntry(q) /\ KnowsFile(q)
      BY <1>3, <1>4, <2>2, InvFacts
    <3>3. Stage(q)'
      BY <3>1, <3>2 DEF Stage
    <3>4. seen[q].meta # Absent => IsPrefix(seen[q].meta, rows')
      <4>1. seen[q].meta # Absent => seen[q].meta \in Chain /\ IsPrefix(seen[q].meta, rows)
        BY <1>1, <3>2, Types DEF KnowsRows
      <4>2. rows \in Chain
        BY <1>1 DEF TypeOK
      <4>3. QED
        BY <1>6, <4>1, <4>2, PrefixesOf
    <3>5. KnowsRows(q)'
      BY <3>1, <3>2, <3>4 DEF KnowsRows, Live, Extends, Authentic
    <3>6. KnowsEntry(q)' /\ KnowsFile(q)'
      BY <1>2, <1>6, <3>2 DEF KnowsEntry, KnowsFile, Authentic
    <3>7. GateHolds(q)'
      BY <3>1, <3>2 DEF GateHolds, Stage, MirrorSteps, VerifySteps
    <3>8. QED
      BY <3>3, <3>5, <3>6, <3>7 DEF ProcInv
  <2>3. QED
    BY <2>1, <2>2
<1>8. OneWriter'
  BY <1>1, <1>3 DEF Journal, OneWriter
<1>9. CheckpointOfRows'
  <2>1. meta = Absent \/ meta = rows
    BY <1>1 DEF Journal, CheckpointOfRows
  <2>2. meta' = rows' \/ meta' = Absent
    BY <1>2, <2>1 DEF NextMeta, new
  <2>3. QED
    BY <1>6, <2>2 DEF CheckpointOfRows
<1>10. Authentic(ext)' => ToSet(ext') \subseteq witnessed'
  BY <1>1, <1>2 DEF Journal, Authentic
<1>11. \E x : ToSet(rows') \ witnessed' \subseteq {x}
  BY <1>1, <1>2, <1>6
<1>12. AnchoredIsWitnessed'
  BY <1>1, <1>2 DEF Journal, AnchoredIsWitnessed, Authentic
<1>13. QED
  BY <1>7, <1>8, <1>9, <1>10, <1>11, <1>12 DEF Safe, Journal

LEMMA ReadDatabaseIsSafe ==
  ASSUME Inv, NEW p \in Procs, ReadVersion(p) \/ ReadRows(p) \/ ReadMeta(p)
  PROVE  Safe'
<1>1. /\ TypeOK /\ Journal /\ Stage(p) /\ KnowsRows(p) /\ KnowsEntry(p)
      /\ KnowsFile(p) /\ GateHolds(p)
  BY InvFacts
<1>2. seen[p] \in [version : Chain \cup {Absent}, rows : Chain,
                   meta : Chain \cup {Absent}, ext : Chain \cup {Absent, Forged}]
  BY <1>1 DEF TypeOK
<1>3. CASE ReadVersion(p)
  <2>1. Learn(p, "version", meta, "rows") /\ pc[p] = "version"
    BY <1>3 DEF ReadVersion
  <2>2. /\ pc' = [pc EXCEPT ![p] = "rows"] /\ pc'[p] = "rows"
        /\ \A q \in Procs : q # p => seen'[q] = seen[q]
        /\ seen'[p] = [seen[p] EXCEPT !["version"] = meta]
        /\ UNCHANGED <<db, ext, witnessed, mode, entry, vouched>>
        /\ (FileUntouched' <=> FileUntouched)
        /\ UNCHANGED <<rows, meta, minted>> /\ FileMoves
    BY <2>1, LearnIs
  <2>3. seen'[p].meta = seen[p].meta /\ seen'[p].ext = seen[p].ext
    BY <1>2, <2>2
  <2>4. Stage(p)'
    BY <1>1, <2>1, <2>2 DEF Stage, MirrorSteps, VerifySteps
  <2>5. KnowsRows(p)' /\ KnowsEntry(p)'
    BY <1>1, <2>2, <2>3 DEF KnowsRows, KnowsEntry, Informed
  <2>6. KnowsFile(p)' /\ GateHolds(p)'
    BY <1>1, <2>2, <2>3 DEF KnowsFile, GateHolds, Authentic
  <2>7. QED
    BY <2>2, <2>4, <2>5, <2>6, OnwardIsSafe
<1>4. CASE ReadRows(p)
  <2>1. Learn(p, "rows", rows, "meta") /\ pc[p] = "rows"
    BY <1>4 DEF ReadRows
  <2>2. /\ pc' = [pc EXCEPT ![p] = "meta"] /\ pc'[p] = "meta"
        /\ \A q \in Procs : q # p => seen'[q] = seen[q]
        /\ seen'[p] = [seen[p] EXCEPT !["rows"] = rows]
        /\ UNCHANGED <<db, ext, witnessed, mode, entry, vouched>>
        /\ (FileUntouched' <=> FileUntouched)
        /\ UNCHANGED <<rows, meta, minted>> /\ FileMoves
    BY <2>1, LearnIs
  <2>3. seen'[p].meta = seen[p].meta /\ seen'[p].ext = seen[p].ext /\ seen'[p].rows = rows
    BY <1>2, <2>2
  <2>4. Stage(p)'
    BY <1>1, <2>1, <2>2 DEF Stage, MirrorSteps, VerifySteps
  <2>5. KnowsRows(p)' /\ KnowsEntry(p)'
    BY <1>1, <2>2, <2>3 DEF KnowsRows, KnowsEntry, Informed
  <2>6. KnowsFile(p)' /\ GateHolds(p)'
    BY <1>1, <2>2, <2>3 DEF KnowsFile, GateHolds, Authentic
  <2>7. QED
    BY <2>2, <2>4, <2>5, <2>6, OnwardIsSafe
<1>5. CASE pc[p] = "meta" /\ Unsettled(p)
  BY <1>5, UnsettledIsSafe DEF VerifySteps
<1>6. CASE pc[p] = "meta" /\ Learn(p, "meta", meta, "file")
  <2>1. Learn(p, "meta", meta, "file") /\ pc[p] = "meta"
    BY <1>6
  <2>2. /\ pc' = [pc EXCEPT ![p] = "file"] /\ pc'[p] = "file"
        /\ \A q \in Procs : q # p => seen'[q] = seen[q]
        /\ seen'[p] = [seen[p] EXCEPT !["meta"] = meta]
        /\ UNCHANGED <<db, ext, witnessed, mode, entry, vouched>>
        /\ (FileUntouched' <=> FileUntouched)
        /\ UNCHANGED <<rows, meta, minted>> /\ FileMoves
    BY <2>1, LearnIs
  <2>3. seen'[p].meta = meta /\ seen'[p].ext = seen[p].ext /\ seen'[p].rows = seen[p].rows
    BY <1>2, <2>2
  <2>4. Stage(p)'
    BY <1>1, <2>1, <2>2 DEF Stage, MirrorSteps, VerifySteps
  <2>5. meta # Absent => meta # <<>> /\ IsPrefix(meta, rows)
    BY <1>1, PrefixesOf DEF Journal, CheckpointOfRows, TypeOK
  <2>6. KnowsRows(p)' /\ KnowsEntry(p)'
    BY <1>1, <2>1, <2>2, <2>3, <2>5 DEF KnowsRows, KnowsEntry, Informed
  <2>7. KnowsFile(p)' /\ GateHolds(p)'
    BY <1>1, <2>2, <2>3 DEF KnowsFile, GateHolds, Authentic
  <2>8. QED
    BY <2>2, <2>4, <2>6, <2>7, OnwardIsSafe
<1>7. QED
  BY <1>3, <1>4, <1>5, <1>6 DEF ReadMeta

LEMMA ReadFileIsSafe ==
  ASSUME Inv, NEW p \in Procs, ReadFile(p)
  PROVE  Safe'
<1>1. /\ TypeOK /\ Journal /\ Stage(p) /\ KnowsRows(p) /\ KnowsEntry(p)
      /\ KnowsFile(p) /\ GateHolds(p) /\ pc[p] = "file"
  BY InvFacts DEF ReadFile
<1>2. CASE Fail(p)
  BY <1>1, <1>2, FailIsSafe DEF VerifySteps
<1>3. CASE Learn(p, "ext", ext, "version again")
  <2>1. /\ pc' = [pc EXCEPT ![p] = "version again"] /\ pc'[p] = "version again"
        /\ \A q \in Procs : q # p => seen'[q] = seen[q]
        /\ seen'[p] = [seen[p] EXCEPT !["ext"] = ext]
        /\ UNCHANGED <<db, ext, witnessed, mode, entry, vouched>>
        /\ (FileUntouched' <=> FileUntouched)
        /\ UNCHANGED <<rows, meta, minted>> /\ FileMoves
    BY <1>3, LearnIs
  <2>2. seen[p] \in [version : Chain \cup {Absent}, rows : Chain,
                     meta : Chain \cup {Absent}, ext : Chain \cup {Absent, Forged}]
    BY <1>1 DEF TypeOK
  <2>3. seen'[p].meta = seen[p].meta /\ seen'[p].rows = seen[p].rows /\ seen'[p].ext = ext
    BY <2>1, <2>2
  <2>4. Stage(p)'
    BY <1>1, <2>1 DEF Stage, MirrorSteps, VerifySteps
  <2>5. KnowsRows(p)' /\ KnowsEntry(p)'
    BY <1>1, <2>1, <2>3 DEF KnowsRows, KnowsEntry, Informed
  <2>6. KnowsFile(p)'
    <3>1. Authentic(ext) => ext \in Chain /\ ToSet(ext) \subseteq witnessed
      BY <1>1, Types, Special DEF Journal
    <3>2. QED
      BY <2>1, <2>3, <3>1, PrefixesOf DEF KnowsFile, Authentic
  <2>7. GateHolds(p)'
    BY <2>1, <2>3 DEF GateHolds
  <2>8. QED
    BY <2>1, <2>4, <2>5, <2>6, <2>7, OnwardIsSafe
<1>4. QED
  BY <1>2, <1>3 DEF ReadFile

LEMMA LadderIsSafe ==
  ASSUME Inv, NEW p \in Procs, ReadVersionAgain(p)
  PROVE  Safe'
<1>1. /\ TypeOK /\ Journal /\ Stage(p) /\ KnowsRows(p) /\ KnowsEntry(p)
      /\ KnowsFile(p) /\ GateHolds(p) /\ pc[p] = "version again"
  BY InvFacts DEF ReadVersionAgain
<1>2. pc[p] \in VerifySteps /\ pc[p] \in Informed
  BY <1>1 DEF VerifySteps, Informed
<1>3. CASE Unsettled(p) \/ Fail(p)
  BY <1>2, <1>3, UnsettledIsSafe, FailIsSafe
<1>4. CASE Pristine(p) /\ Pass(p)
  <2>1. seen[p].rows = <<>> /\ seen[p].ext = Absent
    BY <1>4 DEF Pristine
  <2>2. mode[p] = "gate" => rows = <<>> /\ (FileUntouched => ext = Absent)
    BY <1>1, <1>2, <2>1 DEF KnowsRows, GateHolds, Anchors
  <2>3. ToSet(<<>>) = {}
    BY DEF ToSet
  <2>4. mode[p] # "receipt"
    BY <1>1, <1>2, <2>1, <2>3 DEF KnowsEntry
  <2>5. QED
    BY <1>2, <1>4, <2>2, <2>3, <2>4, PassIsSafe DEF Anchors
<1>5. CASE Matches(p) /\ Pass(p)
  <2>1. /\ seen[p].ext = seen[p].rows /\ seen[p].rows \in Chain /\ Authentic(seen[p].ext)
    BY <1>1, <1>5, Types, Special DEF Matches, Live
  <2>2. ToSet(seen[p].ext) \subseteq witnessed
        /\ (FileUntouched => Authentic(ext) /\ IsPrefix(seen[p].ext, ext))
    BY <1>1, <2>1 DEF KnowsFile
  <2>3. mode[p] = "gate" => /\ ToSet(rows) \subseteq witnessed
                            /\ FileUntouched => Anchors(ext)
    BY <1>1, <1>2, <2>1, <2>2 DEF KnowsRows, GateHolds, Anchors
  <2>4. mode[p] = "receipt" => (FileUntouched => Authentic(ext) /\ entry[p] \in ToSet(ext))
    <3>1. SUFFICES ASSUME mode[p] = "receipt", FileUntouched
                   PROVE  Authentic(ext) /\ entry[p] \in ToSet(ext)
      OBVIOUS
    <3>2. entry[p] \in ToSet(seen[p].ext)
      BY <1>1, <1>2, <2>1, <3>1 DEF KnowsEntry
    <3>3. ext \in Chain /\ IsPrefix(seen[p].ext, ext) /\ Authentic(ext)
      BY <1>1, <2>2, <3>1, Types, Special
    <3>4. QED
      BY <2>1, <3>2, <3>3, PrefixesOf
  <2>5. QED
    BY <1>2, <1>5, <2>3, <2>4, PassIsSafe
<1>6. CASE Live(p) /\ Behind(p) /\ Continue(p, "heal")
  <2>1. /\ pc' = [pc EXCEPT ![p] = "heal"] /\ pc'[p] = "heal"
        /\ UNCHANGED <<db, ext, witnessed, mode, seen, entry, vouched>>
        /\ (FileUntouched' <=> FileUntouched)
        /\ UNCHANGED <<rows, meta, minted>> /\ FileMoves
    BY <1>6, ContinueIs
  <2>2. Stage(p)'
    BY <1>1, <2>1 DEF Stage, MirrorSteps, VerifySteps
  <2>3. Extends(seen[p].ext, seen[p].meta)
    BY <1>6 DEF Behind, Live, Extends, IsStrictPrefix
  <2>4. KnowsRows(p)' /\ KnowsEntry(p)'
    BY <1>1, <1>6, <2>1, <2>3 DEF KnowsRows, KnowsEntry, Informed, Live, Extends, Authentic
  <2>5. KnowsFile(p)' /\ GateHolds(p)'
    BY <1>1, <2>1 DEF KnowsFile, GateHolds, Authentic
  <2>6. QED
    BY <2>1, <2>2, <2>4, <2>5, OnwardIsSafe
<1>7. QED
  BY <1>3, <1>4, <1>5, <1>6 DEF ReadVersionAgain

\* What replaceCheckpoint() does to the file when it is to advance it.
LEMMA SwapMoves ==
  ASSUME Inv, NEW p \in Procs, seen[p].meta # Absent, Extends(seen[p].ext, seen[p].meta),
         ext \in {seen[p].ext, seen[p].meta}, Swap(seen[p].meta)
  PROVE  FileMoves
<1>1. /\ seen[p].meta \in Chain /\ seen[p].meta # <<>> /\ IsPrefix(seen[p].meta, rows)
  BY InvFacts, Types DEF KnowsRows
<1>2. Extends(ext, seen[p].meta)
  BY <1>1, PrefixesOf, Special DEF Extends
<1>3. QED
  BY <1>1, <1>2 DEF FileMoves, Swap

LEMMA HealIsSafe ==
  ASSUME Inv, NEW p \in Procs, Heal(p) \/ HealThrew(p)
  PROVE  Safe'
<1>1. /\ TypeOK /\ Journal /\ Stage(p) /\ KnowsRows(p) /\ KnowsEntry(p)
      /\ KnowsFile(p) /\ GateHolds(p) /\ pc[p] \in {"heal", "heal threw"}
  BY InvFacts DEF Heal, HealThrew
<1>2. pc[p] \in VerifySteps /\ pc[p] \in Informed
  BY <1>1 DEF VerifySteps, Informed
<1>3. Live(p) /\ seen[p].meta # Absent
  BY <1>1, Types, Special DEF KnowsRows, Live
<1>4. CASE Unsettled(p) \/ Fail(p)
  BY <1>2, <1>4, UnsettledIsSafe, FailIsSafe
<1>5. ASSUME NEW next \in {"heal threw", "read back"}, pc' = [pc EXCEPT ![p] = next],
             UNCHANGED <<db, mode, seen, entry, vouched>>,
             (FileUntouched' <=> FileUntouched), FileMoves
      PROVE  Safe'
  <2>1. pc'[p] = next /\ (FileUntouched' <=> FileUntouched) /\ UNCHANGED <<rows, meta, minted>>
    BY <1>1, <1>5 DEF TypeOK, FileUntouched, db
  <2>2. Stage(p)'
    BY <1>1, <1>2, <1>5, <2>1 DEF Stage, MirrorSteps, VerifySteps
  <2>3. KnowsRows(p)' /\ KnowsEntry(p)'
    BY <1>1, <1>2, <1>3, <1>5, <2>1 DEF KnowsRows, KnowsEntry, Informed, Live
  <2>4. KnowsFile(p)'
    <3>1. Authentic(seen[p].ext) =>
            /\ seen[p].ext \in Chain /\ ToSet(seen[p].ext) \subseteq witnessed
            /\ FileUntouched => Authentic(ext) /\ IsPrefix(seen[p].ext, ext)
      BY <1>1, Types, Special DEF KnowsFile
    <3>2. QED
      BY <1>1, <1>5, <2>1, <3>1, FileOnlyGrows DEF KnowsFile, Authentic
  <2>5. GateHolds(p)'
    BY <1>5, <2>1 DEF GateHolds
  <2>6. QED
    BY <1>5, <2>2, <2>3, <2>4, <2>5, OnwardIsSafe
<1>6. CASE Continue(p, "heal threw") \/ Continue(p, "read back")
  BY <1>5, <1>6, ContinueIs
<1>7. CASE /\ pc[p] = "heal" /\ ext \in {seen[p].ext, seen[p].meta}
           /\ Swap(seen[p].meta) /\ Goto(p, "read back")
           /\ UNCHANGED <<db, hurts, mode, seen, attempt, outcome, entry, vouched>>
  <2>1. Extends(seen[p].ext, seen[p].meta)
    BY <1>1, <1>7 DEF KnowsRows
  <2>2. FileMoves
    BY <1>3, <1>7, <2>1, SwapMoves
  <2>3. QED
    BY <1>5, <1>7, <2>2 DEF Goto, hurts, FileUntouched
<1>8. QED
  BY <1>4, <1>6, <1>7 DEF Heal, HealThrew

LEMMA ReadBackIsSafe ==
  ASSUME Inv, NEW p \in Procs, ReadBack(p) \/ ReadCommitted(p)
  PROVE  Safe'
<1>1. /\ TypeOK /\ Journal /\ Stage(p) /\ KnowsRows(p) /\ KnowsEntry(p)
      /\ KnowsFile(p) /\ GateHolds(p) /\ pc[p] \in {"read back", "committed"}
  BY InvFacts DEF ReadBack, ReadCommitted
<1>2. pc[p] \in VerifySteps /\ pc[p] \in Informed
  BY <1>1 DEF VerifySteps, Informed
<1>3. CASE Unsettled(p) \/ Fail(p)
  BY <1>2, <1>3, UnsettledIsSafe, FailIsSafe
<1>4. CASE pc[p] = "read back" /\ ext = seen[p].meta /\ Pass(p)
  <2>1. ext = seen[p].rows /\ ext \in Chain /\ Authentic(ext)
    BY <1>1, <1>4, Types, Special DEF KnowsRows, Live
  <2>2. ToSet(ext) \subseteq witnessed
    BY <1>1, <2>1 DEF Journal
  <2>3. mode[p] = "gate" => ext = rows
    BY <1>1, <1>2, <2>1 DEF KnowsRows
  <2>4. mode[p] = "receipt" => entry[p] \in ToSet(ext)
    BY <1>1, <1>2, <2>1 DEF KnowsEntry
  <2>5. QED
    BY <1>2, <1>4, <2>1, <2>2, <2>3, <2>4, PassIsSafe DEF Anchors
<1>5. CASE pc[p] = "read back" /\ Learn(p, "ext", ext, "committed")
  <2>1. /\ pc' = [pc EXCEPT ![p] = "committed"] /\ pc'[p] = "committed"
        /\ \A q \in Procs : q # p => seen'[q] = seen[q]
        /\ seen'[p] = [seen[p] EXCEPT !["ext"] = ext]
        /\ UNCHANGED <<db, ext, witnessed, mode, entry, vouched>>
        /\ (FileUntouched' <=> FileUntouched)
        /\ UNCHANGED <<rows, meta, minted>> /\ FileMoves
    BY <1>5, LearnIs
  <2>2. seen[p] \in [version : Chain \cup {Absent}, rows : Chain,
                     meta : Chain \cup {Absent}, ext : Chain \cup {Absent, Forged}]
    BY <1>1 DEF TypeOK
  <2>3. seen'[p].meta = seen[p].meta /\ seen'[p].rows = seen[p].rows /\ seen'[p].ext = ext
    BY <2>1, <2>2
  <2>4. Stage(p)'
    BY <1>1, <1>2, <2>1 DEF Stage, MirrorSteps, VerifySteps
  <2>5. KnowsRows(p)' /\ KnowsEntry(p)'
    BY <1>1, <1>2, <2>1, <2>3 DEF KnowsRows, KnowsEntry, Informed
  <2>6. KnowsFile(p)'
    <3>1. Authentic(ext) => ext \in Chain /\ ToSet(ext) \subseteq witnessed
      BY <1>1, Types, Special DEF Journal
    <3>2. QED
      BY <2>1, <2>3, <3>1, PrefixesOf DEF KnowsFile, Authentic
  <2>7. GateHolds(p)'
    BY <2>1, <2>3 DEF GateHolds
  <2>8. QED
    BY <2>1, <2>4, <2>5, <2>6, <2>7, OnwardIsSafe
<1>6. QED
  BY <1>3, <1>4, <1>5 DEF ReadBack, ReadCommitted

-----------------------------------------------------------------------------
(* mirrorExternal() and its confirmation.                                  *)

\* A step of the mirror that leaves the file alone.
LEMMA MirrorOnward ==
  ASSUME Inv, NEW p \in Procs, pc[p] \in MirrorSteps \cup {"confirm"}, NEW next,
         next \in {"confirm", "guards", "swap"}, Continue(p, next),
         next # "confirm" => seen[p].meta # Absent,
         next = "swap" => Extends(seen[p].ext, seen[p].meta)
  PROVE  Safe'
<1>1. /\ TypeOK /\ Journal /\ Stage(p) /\ KnowsRows(p) /\ KnowsEntry(p)
      /\ KnowsFile(p) /\ GateHolds(p)
  BY InvFacts
<1>2. /\ pc' = [pc EXCEPT ![p] = next] /\ pc'[p] = next
      /\ UNCHANGED <<db, ext, witnessed, mode, seen, entry, vouched>>
      /\ (FileUntouched' <=> FileUntouched)
      /\ UNCHANGED <<rows, meta, minted>> /\ FileMoves
  BY ContinueIs
<1>3. Stage(p)'
  BY <1>1, <1>2 DEF Stage, MirrorSteps, VerifySteps
<1>4. mode[p] = "receipt" /\ mode'[p] = "receipt"
  BY <1>1, <1>2 DEF Stage, MirrorSteps, VerifySteps
<1>5. KnowsRows(p)' /\ KnowsEntry(p)'
  BY <1>1, <1>2, <1>4 DEF KnowsRows, KnowsEntry, Informed, Extends, Authentic
<1>6. KnowsFile(p)' /\ GateHolds(p)'
  BY <1>1, <1>2 DEF KnowsFile, GateHolds, Authentic
<1>7. QED
  BY <1>2, <1>3, <1>5, <1>6, OnwardIsSafe

\* A step of the mirror or of its confirmation that reads a checkpoint.
LEMMA MirrorLearns ==
  ASSUME Inv, NEW p \in Procs, pc[p] \in MirrorSteps \cup {"confirm"},
         NEW field \in {"meta", "ext"}, NEW value, NEW next, Learn(p, field, value, next),
         \/ field = "meta" /\ value = meta /\ meta # Absent
            /\ next \in {"mirror file", "confirm file"}
         \/ field = "ext" /\ value = ext /\ next = "guards" /\ seen[p].meta # Absent
  PROVE  Safe'
<1>1. /\ TypeOK /\ Journal /\ Stage(p) /\ KnowsRows(p) /\ KnowsEntry(p)
      /\ KnowsFile(p) /\ GateHolds(p)
  BY InvFacts
<1>2. /\ pc' = [pc EXCEPT ![p] = next] /\ pc'[p] = next
      /\ \A q \in Procs : q # p => seen'[q] = seen[q]
      /\ seen'[p] = [seen[p] EXCEPT ![field] = value]
      /\ UNCHANGED <<db, ext, witnessed, mode, entry, vouched>>
      /\ (FileUntouched' <=> FileUntouched)
      /\ UNCHANGED <<rows, meta, minted>> /\ FileMoves
  <2>1. field \in {"version", "rows", "meta", "ext"}
    OBVIOUS
  <2>2. QED
    BY <2>1, LearnIs
<1>3. seen[p] \in [version : Chain \cup {Absent}, rows : Chain,
                   meta : Chain \cup {Absent}, ext : Chain \cup {Absent, Forged}]
  BY <1>1 DEF TypeOK
<1>4. mode[p] = "receipt" /\ mode'[p] = "receipt" /\ entry'[p] = entry[p]
  BY <1>1, <1>2 DEF Stage, MirrorSteps, VerifySteps
<1>5. Stage(p)'
  BY <1>2, <1>4 DEF Stage, MirrorSteps, VerifySteps
<1>6. CASE field = "meta"
  <2>1. seen'[p].meta = meta /\ seen'[p].ext = seen[p].ext
    BY <1>2, <1>3, <1>6
  <2>2. meta = rows /\ meta # <<>> /\ IsPrefix(meta, rows)
    BY <1>1, <1>6, PrefixesOf DEF Journal, CheckpointOfRows, TypeOK
  <2>3. KnowsRows(p)'
    BY <1>2, <1>4, <1>6, <2>1, <2>2 DEF KnowsRows, Informed
  <2>4. KnowsEntry(p)'
    BY <1>1, <1>2, <1>4, <1>6, <2>1, <2>2 DEF KnowsEntry, Informed
  <2>5. KnowsFile(p)' /\ GateHolds(p)'
    BY <1>1, <1>2, <1>4, <1>6, <2>1 DEF KnowsFile, GateHolds, Authentic
  <2>6. QED
    BY <1>2, <1>5, <2>3, <2>4, <2>5, OnwardIsSafe
<1>7. CASE field = "ext"
  <2>1. seen'[p].meta = seen[p].meta /\ seen'[p].ext = ext
    BY <1>2, <1>3, <1>7
  <2>2. KnowsRows(p)' /\ KnowsEntry(p)'
    BY <1>1, <1>2, <1>4, <1>7, <2>1 DEF KnowsRows, KnowsEntry, Informed
  <2>3. KnowsFile(p)'
    <3>1. Authentic(ext) => ext \in Chain /\ ToSet(ext) \subseteq witnessed
      BY <1>1, Types, Special DEF Journal
    <3>2. QED
      BY <1>2, <2>1, <3>1, PrefixesOf DEF KnowsFile, Authentic
  <2>4. GateHolds(p)'
    BY <1>2, <1>4, <1>7 DEF GateHolds
  <2>5. QED
    BY <1>2, <1>5, <2>2, <2>3, <2>4, OnwardIsSafe
<1>8. QED
  BY <1>6, <1>7

LEMMA MirrorIsSafe ==
  ASSUME Inv, NEW p \in Procs, MirrorAndConfirm(p)
  PROVE  Safe'
<1>1. /\ TypeOK /\ Journal /\ Stage(p) /\ KnowsRows(p) /\ KnowsEntry(p)
      /\ KnowsFile(p) /\ GateHolds(p)
  BY InvFacts
<1>2. pc[p] \in MirrorSteps \cup {"confirm", "confirm file"} /\ mode[p] = "receipt"
  BY <1>1 DEF MirrorAndConfirm, MirrorMeta, MirrorFile, MirrorGuards, MirrorSwap, ConfirmMeta,
              ConfirmFile, Stage, MirrorSteps, VerifySteps
<1>3. ~Forced(p)
  BY <1>2 DEF Forced
<1>4. CASE MirrorMeta(p)
  <2>1. CASE Continue(p, "confirm")
    BY <1>4, <2>1, MirrorOnward DEF MirrorMeta, MirrorSteps
  <2>2. CASE Authentic(meta) /\ Learn(p, "meta", meta, "mirror file")
    BY <1>4, <2>2, MirrorLearns DEF MirrorMeta, MirrorSteps, Authentic
  <2>3. QED
    BY <1>4, <2>1, <2>2 DEF MirrorMeta
<1>5. CASE MirrorFile(p)
  <2>1. CASE Continue(p, "confirm")
    BY <1>5, <2>1, MirrorOnward DEF MirrorFile, MirrorSteps
  <2>2. CASE Learn(p, "ext", ext, "guards")
    BY <1>1, <1>5, <2>2, MirrorLearns DEF MirrorFile, MirrorSteps, KnowsRows
  <2>3. QED
    BY <1>3, <1>5, <2>1, <2>2 DEF MirrorFile
<1>6. CASE MirrorGuards(p)
  <2>1. CASE Continue(p, "confirm")
    BY <1>6, <2>1, MirrorOnward DEF MirrorGuards, MirrorSteps
  <2>2. CASE Continue(p, "swap") /\ Extends(seen[p].ext, seen[p].meta)
    BY <1>1, <1>6, <2>2, MirrorOnward DEF MirrorGuards, MirrorSteps, KnowsRows
  <2>3. QED
    BY <1>6, <2>1, <2>2 DEF MirrorGuards, Extends
<1>7. CASE MirrorSwap(p)
  <2>1. CASE Continue(p, "confirm")
    BY <1>7, <2>1, MirrorOnward DEF MirrorSwap, MirrorSteps
  <2>2. CASE /\ ext \in {seen[p].ext, seen[p].meta}
             /\ Swap(seen[p].meta) /\ Goto(p, "confirm")
             /\ UNCHANGED <<db, hurts, mode, seen, attempt, outcome, entry, vouched>>
    <3>1. seen[p].meta # Absent /\ Extends(seen[p].ext, seen[p].meta) /\ pc[p] = "swap"
      BY <1>1, <1>7 DEF MirrorSwap, KnowsRows
    <3>2. FileMoves
      BY <2>2, <3>1, SwapMoves
    <3>3. /\ pc' = [pc EXCEPT ![p] = "confirm"] /\ pc'[p] = "confirm"
          /\ (FileUntouched' <=> FileUntouched)
          /\ UNCHANGED <<rows, meta, minted>> /\ (FileUntouched' <=> FileUntouched)
      BY <1>1, <2>2 DEF Goto, TypeOK, hurts, db, FileUntouched
    <3>4. Stage(p)'
      BY <1>2, <2>2, <3>3 DEF Stage
    <3>5. KnowsRows(p)' /\ KnowsEntry(p)'
      BY <1>1, <2>2, <3>3 DEF KnowsRows, KnowsEntry, Informed
    <3>6. KnowsFile(p)'
      <4>1. Authentic(seen[p].ext) =>
              /\ seen[p].ext \in Chain /\ ToSet(seen[p].ext) \subseteq witnessed
              /\ FileUntouched => Authentic(ext) /\ IsPrefix(seen[p].ext, ext)
        BY <1>1, Types, Special DEF KnowsFile
      <4>2. QED
        BY <1>1, <2>2, <3>2, <3>3, <4>1, FileOnlyGrows DEF KnowsFile, Authentic
    <3>7. GateHolds(p)'
      BY <3>3 DEF GateHolds
    <3>8. QED
      BY <2>2, <3>2, <3>3, <3>4, <3>5, <3>6, <3>7, OnwardIsSafe
  <2>3. QED
    BY <1>3, <1>7, <2>1, <2>2 DEF MirrorSwap
<1>8. CASE AskVerify(p)
  <2>1. Turn(p, "version", "receipt", 1) /\ UNCHANGED <<db, ext, witnessed, entry, vouched>>
        /\ (FileUntouched' <=> FileUntouched)
    BY <1>2, <1>8 DEF AskVerify, StartVerify, files, hurts, FileUntouched
  <2>2. QED
    BY <1>2, <2>1, AfreshIsSafe
<1>9. CASE pc[p] = "confirm" /\ meta # Absent /\ Learn(p, "meta", meta, "confirm file")
  BY <1>9, MirrorLearns
<1>10. CASE pc[p] = "confirm file" /\ ext = seen[p].meta /\ Pass(p)
  <2>1. Authentic(ext) /\ entry[p] \in ToSet(ext)
    BY <1>1, <1>2, <1>10, Types, Special DEF KnowsRows, KnowsEntry
  <2>2. QED
    BY <1>2, <1>10, <2>1, PassIsSafe
<1>11. QED
  BY <1>4, <1>5, <1>6, <1>7, <1>8, <1>9, <1>10 DEF MirrorAndConfirm, ConfirmMeta, ConfirmFile

-----------------------------------------------------------------------------
(* The environment.                                                        *)

LEMMA CrashIsSafe ==
  ASSUME Inv, NEW p \in Procs, Crash(p)
  PROVE  Safe'
<1>1. Report(p, "none") /\ UNCHANGED <<db, ext, witnessed, jammed, vouched>>
  BY DEF Crash, files
<1>2. hurt' = hurt \cup {"crash"}
  BY DEF Crash, Fault
<1>3. (FileUntouched' <=> FileUntouched)
  BY <1>2 DEF FileUntouched
<1>4. QED
  BY <1>1, <1>3, ReportIsSafe

LEMMA RestoreIsSafe ==
  ASSUME Inv, Restore
  PROVE  Safe'
<1>1. /\ TypeOK /\ Journal /\ UNCHANGED <<minted, ext, witnessed, local>>
      /\ \A p \in Procs : pc[p] = "idle"
      /\ (FileUntouched' <=> FileUntouched)
  BY DEF Restore, Fault, Inv, files, FileUntouched
<1>2. PICK n \in 1..(Len(rows) - 1) : rows' = SubSeq(rows, 1, n) /\ meta' = rows'
  BY DEF Restore
<1>3. rows \in Seq(1..MaxEntries)
  BY <1>1 DEF TypeOK, Chain
<1>4. rows' \in Seq(1..MaxEntries) /\ rows' # <<>> /\ IsPrefix(rows', rows)
  BY <1>2, <1>3, Cut
<1>5. ToSet(rows') \subseteq ToSet(rows)
  BY <1>3, <1>4, PrefixSet
<1>6. ASSUME NEW p \in Procs PROVE ProcInv(p)'
  <2>1. /\ Stage(p) /\ KnowsRows(p) /\ KnowsFile(p) /\ pc[p] = "idle"
        /\ UNCHANGED <<pc, mode, seen, entry>>
    BY <1>1, InvFacts DEF local
  <2>2. mode[p] = "none" /\ seen[p].meta = Absent
    BY <2>1 DEF Stage, KnowsRows, MirrorSteps, VerifySteps
  <2>3. Stage(p)' /\ KnowsEntry(p)' /\ GateHolds(p)'
    BY <2>1, <2>2 DEF Stage, KnowsEntry, GateHolds
  <2>4. KnowsRows(p)'
    BY <2>1, <2>2 DEF KnowsRows, Informed
  <2>5. KnowsFile(p)'
    BY <1>1, <2>1 DEF KnowsFile, Authentic
  <2>6. QED
    BY <2>3, <2>4, <2>5 DEF ProcInv
<1>7. OneWriter' /\ CheckpointOfRows'
  BY <1>1, <1>2, <1>4 DEF Journal, OneWriter, CheckpointOfRows, local
<1>8. Authentic(ext)' => ToSet(ext') \subseteq witnessed'
  BY <1>1 DEF Journal, Authentic
<1>9. \E x : ToSet(rows') \ witnessed' \subseteq {x}
  BY <1>1, <1>5 DEF Journal
<1>10. AnchoredIsWitnessed'
  BY <1>1 DEF Journal, AnchoredIsWitnessed, Authentic, local
<1>11. QED
  BY <1>6, <1>7, <1>8, <1>9, <1>10 DEF Safe, Journal

LEMMA DamageIsSafe ==
  ASSUME Inv, Damage
  PROVE  Safe'
<1>1. /\ TypeOK /\ Journal /\ UNCHANGED <<rows, meta, minted, witnessed, local>>
      /\ ~FileUntouched' /\ ~Authentic(ext)'
  BY Special DEF Damage, Fault, Inv, db, FileUntouched, Authentic
<1>2. ASSUME NEW p \in Procs PROVE ProcInv(p)'
  <2>1. /\ Stage(p) /\ KnowsRows(p) /\ KnowsEntry(p) /\ KnowsFile(p) /\ GateHolds(p)
        /\ UNCHANGED <<pc, mode, seen, entry>>
    BY <1>1, InvFacts DEF local
  <2>2. Stage(p)' /\ KnowsEntry(p)'
    BY <1>1, <2>1 DEF Stage, KnowsEntry
  <2>3. KnowsRows(p)'
    BY <1>1, <2>1 DEF KnowsRows, Live, Extends, Authentic
  <2>4. KnowsFile(p)' /\ GateHolds(p)'
    BY <1>1, <2>1 DEF KnowsFile, GateHolds, Authentic
  <2>5. QED
    BY <2>2, <2>3, <2>4 DEF ProcInv
<1>3. OneWriter' /\ CheckpointOfRows'
  BY <1>1 DEF Journal, OneWriter, CheckpointOfRows, local
<1>4. \E x : ToSet(rows') \ witnessed' \subseteq {x}
  BY <1>1 DEF Journal
<1>5. AnchoredIsWitnessed'
  BY <1>1 DEF AnchoredIsWitnessed
<1>6. QED
  BY <1>1, <1>2, <1>3, <1>4, <1>5 DEF Safe, Journal

-----------------------------------------------------------------------------
(* Types.                                                                  *)

LocalsTyped ==
  /\ pc \in [Procs -> PCs] /\ mode \in [Procs -> Modes]
  /\ seen \in [Procs -> [version : Chain \cup {Absent}, rows : Chain,
                         meta : Chain \cup {Absent}, ext : Chain \cup {Absent, Forged}]]
  /\ attempt \in [Procs -> 0..HealConflictAttempts]
  /\ outcome \in [Procs -> Outcomes] /\ entry \in [Procs -> 0..MaxEntries]
  /\ vouched \subseteq 1..MaxEntries

SharedTyped ==
  /\ rows \in Chain /\ meta \in Chain \cup {Absent}
  /\ ext \in Chain \cup {Absent, Forged, Unreadable} /\ jammed \in BOOLEAN
  /\ minted \in 0..MaxEntries /\ witnessed \subseteq 1..MaxEntries
  /\ start \in AllStarts /\ faults \in 0..MaxFaults /\ hurt \subseteq AllFaults

LEMMA TypeParts == TypeOK <=> LocalsTyped /\ SharedTyped
BY DEF TypeOK, LocalsTyped, SharedTyped

LEMMA ChainSet == ASSUME NEW c \in Chain PROVE ToSet(c) \subseteq 1..MaxEntries
<1> DEFINE S == 1..MaxEntries
<1> HIDE DEF S
<1>1. c \in Seq(S)
  BY DEF Chain, S
<1>2. \A i \in DOMAIN c : c[i] \in S
  BY <1>1
<1>3. ToSet(c) \subseteq S
  BY <1>2 DEF ToSet
<1>4. QED
  BY <1>3 DEF S

LEMMA SomeOutcomes ==
  /\ "none" \in Outcomes
  /\ \A m \in DOMAIN Good : Good[m] \in Outcomes
  /\ \A m \in DOMAIN Bad : Bad[m] \in Outcomes
BY DEF Outcomes

LEMMA TurnTyped ==
  ASSUME LocalsTyped, NEW p \in Procs, NEW next \in PCs, NEW why \in Modes,
         NEW pass \in 0..HealConflictAttempts, Turn(p, next, why, pass)
  PROVE  /\ pc' \in [Procs -> PCs] /\ mode' \in [Procs -> Modes]
         /\ seen' \in [Procs -> [version : Chain \cup {Absent}, rows : Chain,
                                 meta : Chain \cup {Absent}, ext : Chain \cup {Absent, Forged}]]
         /\ attempt' \in [Procs -> 0..HealConflictAttempts]
<1>1. Nothing \in [version : Chain \cup {Absent}, rows : Chain,
                   meta : Chain \cup {Absent}, ext : Chain \cup {Absent, Forged}]
  BY DEF Nothing, Chain
<1>2. QED
  BY <1>1 DEF LocalsTyped, Turn, Goto

LEMMA ReportTyped ==
  ASSUME LocalsTyped, NEW p \in Procs, NEW what \in Outcomes, Report(p, what),
         vouched' \subseteq 1..MaxEntries
  PROVE  LocalsTyped'
<1>1. Turn(p, "idle", "none", 0)
  BY DEF Report
<1>2. "idle" \in PCs /\ "none" \in Modes /\ 0 \in 0..HealConflictAttempts
  BY DEF PCs, Modes, HealConflictAttempts
<1>3. outcome' \in [Procs -> Outcomes] /\ entry' \in [Procs -> 0..MaxEntries]
  BY ConstantsAssumption DEF LocalsTyped, Report
<1>4. QED
  BY <1>1, <1>2, <1>3, TurnTyped DEF LocalsTyped

LEMMA StartTyped ==
  ASSUME LocalsTyped, NEW p \in Procs, NEW why \in Modes, StartVerify(p, why),
         UNCHANGED <<entry, vouched>>
  PROVE  LocalsTyped'
<1>1. Turn(p, "version", why, 1)
  BY DEF StartVerify
<1>2. "version" \in PCs /\ 1 \in 0..HealConflictAttempts
  BY DEF PCs, VerifySteps, HealConflictAttempts
<1>3. outcome' \in [Procs -> Outcomes]
  BY SomeOutcomes DEF LocalsTyped, StartVerify
<1>4. QED
  BY <1>1, <1>2, <1>3, TurnTyped DEF LocalsTyped

LEMMA LearnTyped ==
  ASSUME LocalsTyped, NEW p \in Procs, NEW field, NEW value, NEW next \in PCs,
         Learn(p, field, value, next),
         \/ field \in {"version", "meta"} /\ value \in Chain \cup {Absent}
         \/ field = "rows" /\ value \in Chain
         \/ field = "ext" /\ value \in Chain \cup {Absent, Forged}
  PROVE  LocalsTyped'
<1> DEFINE R == [version : Chain \cup {Absent}, rows : Chain,
                 meta : Chain \cup {Absent}, ext : Chain \cup {Absent, Forged}]
<1>1. seen[p] \in R /\ seen \in [Procs -> R]
  BY DEF LocalsTyped
<1>2. [seen[p] EXCEPT ![field] = value] \in R
  <2>1. CASE field = "version" /\ value \in Chain \cup {Absent}
    BY <1>1, <2>1
  <2>2. CASE field = "meta" /\ value \in Chain \cup {Absent}
    BY <1>1, <2>2
  <2>3. CASE field = "rows" /\ value \in Chain
    BY <1>1, <2>3
  <2>4. CASE field = "ext" /\ value \in Chain \cup {Absent, Forged}
    BY <1>1, <2>4
  <2>5. QED
    BY <2>1, <2>2, <2>3, <2>4
<1>3. seen' = [seen EXCEPT ![p] = [seen[p] EXCEPT ![field] = value]]
  BY <1>1 DEF Learn
<1> HIDE DEF R
<1>4. seen' \in [Procs -> R]
  BY <1>1, <1>2, <1>3
<1>5. pc' \in [Procs -> PCs] /\ UNCHANGED <<mode, attempt, outcome, entry, vouched>>
  BY DEF LocalsTyped, Learn, Goto
<1>6. QED
  BY <1>4, <1>5 DEF LocalsTyped, R

LEMMA GotoTyped ==
  ASSUME LocalsTyped, NEW p \in Procs, NEW next \in PCs, Goto(p, next),
         UNCHANGED <<mode, seen, attempt, outcome, entry, vouched>>
  PROVE  LocalsTyped'
BY DEF LocalsTyped, Goto

LEMMA InvTyped == Inv => Typed
<1> SUFFICES ASSUME Inv PROVE Typed
  OBVIOUS
<1>1. TypeOK /\ OneWriter
  BY DEF Inv, Journal
<1>2. ASSUME NEW p \in Procs PROVE Placed(p)
  <2>1. Stage(p) /\ KnowsRows(p) /\ KnowsEntry(p)
    BY InvFacts
  <2>2. mode[p] = "receipt" => entry[p] \in 1..MaxEntries
    BY <1>1, <2>1, ChainSet DEF KnowsEntry, TypeOK
  <2>3. QED
    BY <2>1, <2>2 DEF Placed, Stage, KnowsRows, Modes
<1>3. QED
  BY <1>1, <1>2 DEF Typed

LEMMA VerdictTyped ==
  ASSUME Typed, NEW p \in Procs, NEW ok \in BOOLEAN, Verdict(p, ok)
  PROVE  LocalsTyped'
<1>1. LocalsTyped /\ vouched \subseteq 1..MaxEntries
  BY TypeParts DEF Typed, LocalsTyped
<1>2. vouched' \subseteq 1..MaxEntries
  <2>1. mode[p] \in {"receipt", "seal receipt"} => entry[p] \in 1..MaxEntries
    BY DEF Typed, Placed
  <2>2. \/ vouched' = vouched
        \/ mode[p] \in {"receipt", "seal receipt"} /\ vouched' = vouched \cup {entry[p]}
    BY <1>1 DEF Verdict
  <2>3. QED
    BY <1>1, <2>1, <2>2
<1>3. CASE \/ Turn(p, "insert", "gate", 0) /\ UNCHANGED <<outcome, entry>>
           \/ Turn(p, "confirm", "seal", 0) /\ UNCHANGED <<outcome, entry>>
  <2>1. /\ {"insert", "confirm"} \subseteq PCs /\ {"gate", "seal"} \subseteq Modes
        /\ 0 \in 0..HealConflictAttempts
    BY DEF PCs, Modes, HealConflictAttempts
  <2>2. QED
    BY <1>1, <1>2, <1>3, <2>1, TurnTyped DEF LocalsTyped
<1>4. CASE \E m \in DOMAIN Good : Report(p, Good[m])
  BY <1>1, <1>2, <1>4, ReportTyped, SomeOutcomes
<1>5. CASE \E m \in DOMAIN Bad : Report(p, Bad[m])
  BY <1>1, <1>2, <1>5, ReportTyped, SomeOutcomes
<1>6. QED
  BY <1>1, <1>3, <1>4, <1>5 DEF Verdict

LEMMA UnsettledTyped ==
  ASSUME Typed, NEW p \in Procs, Unsettled(p)
  PROVE  LocalsTyped'
<1>1. LocalsTyped /\ mode[p] \in Modes /\ attempt[p] \in 0..HealConflictAttempts
  BY TypeParts DEF Typed, TypeOK
<1>2. CASE Fail(p)
  BY <1>2, VerdictTyped DEF Fail
<1>3. CASE /\ attempt[p] < HealConflictAttempts
           /\ Turn(p, "version", mode[p], attempt[p] + 1)
           /\ UNCHANGED <<db, files, hurts, outcome, entry, vouched>>
  <2>1. "version" \in PCs
    BY DEF PCs, VerifySteps
  <2>2. attempt[p] + 1 \in 0..HealConflictAttempts
    BY <1>1, <1>3 DEF HealConflictAttempts
  <2>3. QED
    BY <1>1, <1>3, <2>1, <2>2, TurnTyped DEF LocalsTyped
<1>4. QED
  BY <1>2, <1>3 DEF Unsettled

\* Steps of a process that leave the database and the file as they are.
LEMMA SharedStays ==
  ASSUME TypeOK, UNCHANGED <<db, files, hurts>>
  PROVE  SharedTyped'
BY TypeParts DEF SharedTyped, db, files, hurts

LEMMA SwapTyped ==
  ASSUME Typed, NEW p \in Procs, seen[p].meta # Absent, Swap(seen[p].meta), UNCHANGED <<db, hurts>>
  PROVE  SharedTyped'
<1>1. TypeOK /\ SharedTyped /\ seen[p].meta \in Chain
  BY TypeParts, Types DEF Typed
<1>2. ToSet(seen[p].meta) \subseteq 1..MaxEntries
  BY <1>1, ChainSet
<1>3. QED
  BY <1>1, <1>2 DEF SharedTyped, Swap, db, hurts

LEMMA VerifyPassTyped ==
  ASSUME Typed, NEW p \in Procs, VerifyPass(p)
  PROVE  LocalsTyped' /\ SharedTyped'
<1>1. /\ TypeOK /\ LocalsTyped /\ SharedTyped /\ Placed(p)
  BY TypeParts DEF Typed
<1>2. {"rows", "meta", "file", "version again", "heal", "heal threw", "read back", "committed"}
        \subseteq PCs
  BY DEF PCs, VerifySteps
<1>3. CASE Unsettled(p) \/ Pass(p) \/ Fail(p)
  <2>1. UNCHANGED <<db, files, hurts>>
    BY <1>3 DEF Unsettled, Pass, Fail, Verdict
  <2>2. LocalsTyped'
    BY <1>3, UnsettledTyped, VerdictTyped DEF Pass, Fail
  <2>3. QED
    BY <1>1, <2>1, <2>2, SharedStays
<1>4. CASE \/ Learn(p, "version", meta, "rows") \/ Learn(p, "meta", meta, "file")
           \/ Learn(p, "rows", rows, "meta")
  <2>1. UNCHANGED <<db, files, hurts>>
    BY <1>4 DEF Learn
  <2>2. LocalsTyped'
    BY <1>1, <1>2, <1>4, LearnTyped DEF SharedTyped
  <2>3. QED
    BY <1>1, <2>1, <2>2, SharedStays
<1>5. CASE ext # Unreadable /\ (Learn(p, "ext", ext, "version again")
                                \/ Learn(p, "ext", ext, "committed"))
  <2>1. UNCHANGED <<db, files, hurts>>
    BY <1>5 DEF Learn
  <2>2. ext \in Chain \cup {Absent, Forged}
    BY <1>1, <1>5 DEF SharedTyped
  <2>3. LocalsTyped'
    BY <1>1, <1>2, <1>5, <2>2, LearnTyped
  <2>4. QED
    BY <1>1, <2>1, <2>3, SharedStays
<1>6. CASE Continue(p, "heal") \/ Continue(p, "heal threw") \/ Continue(p, "read back")
  <2>1. UNCHANGED <<db, files, hurts, mode, seen, attempt, outcome, entry, vouched>>
    BY <1>6 DEF Continue
  <2>2. LocalsTyped'
    BY <1>1, <1>2, <1>6, <2>1, GotoTyped DEF Continue
  <2>3. QED
    BY <1>1, <2>1, <2>2, SharedStays
<1>7. CASE /\ pc[p] = "heal" /\ Swap(seen[p].meta) /\ Goto(p, "read back")
           /\ UNCHANGED <<db, hurts, mode, seen, attempt, outcome, entry, vouched>>
  <2>1. seen[p].meta # Absent
    BY <1>1, <1>7, Types, Special DEF Placed, Live
  <2>2. LocalsTyped'
    BY <1>1, <1>2, <1>7, GotoTyped
  <2>3. QED
    BY <1>7, <2>1, <2>2, SwapTyped
<1>8. CASE ReadVersion(p) \/ ReadRows(p) \/ ReadMeta(p) \/ ReadFile(p)
  BY <1>3, <1>4, <1>5, <1>8 DEF ReadVersion, ReadRows, ReadMeta, ReadFile
<1>9. CASE ReadVersionAgain(p)
  BY <1>3, <1>6, <1>9 DEF ReadVersionAgain
<1>10. CASE Heal(p) \/ HealThrew(p)
  BY <1>3, <1>6, <1>7, <1>10 DEF Heal, HealThrew
<1>11. CASE ReadBack(p) \/ ReadCommitted(p)
  BY <1>3, <1>5, <1>11 DEF ReadBack, ReadCommitted
<1>12. QED
  BY <1>8, <1>9, <1>10, <1>11 DEF VerifyPass

LEMMA MirrorTyped ==
  ASSUME Typed, NEW p \in Procs, MirrorAndConfirm(p)
  PROVE  LocalsTyped' /\ SharedTyped'
<1>1. TypeOK /\ LocalsTyped /\ SharedTyped /\ Placed(p) /\ mode[p] \in Modes
  BY TypeParts DEF Typed, TypeOK
<1>2. {"mirror file", "guards", "swap", "confirm", "confirm file"} \subseteq PCs
  BY DEF PCs, MirrorSteps
<1>3. CASE Learn(p, "meta", meta, "mirror file") \/ Learn(p, "meta", meta, "confirm file")
  <2>1. UNCHANGED <<db, files, hurts>>
    BY <1>3 DEF Learn
  <2>2. LocalsTyped'
    BY <1>1, <1>2, <1>3, LearnTyped DEF SharedTyped
  <2>3. QED
    BY <1>1, <2>1, <2>2, SharedStays
<1>4. CASE ext # Unreadable /\ (Learn(p, "ext", ext, "swap") \/ Learn(p, "ext", ext, "guards"))
  <2>1. UNCHANGED <<db, files, hurts>>
    BY <1>4 DEF Learn
  <2>2. ext \in Chain \cup {Absent, Forged}
    BY <1>1, <1>4 DEF SharedTyped
  <2>3. LocalsTyped'
    BY <1>1, <1>2, <1>4, <2>2, LearnTyped
  <2>4. QED
    BY <1>1, <2>1, <2>3, SharedStays
<1>5. CASE Continue(p, "confirm") \/ Continue(p, "swap")
  <2>1. UNCHANGED <<db, files, hurts, mode, seen, attempt, outcome, entry, vouched>>
    BY <1>5 DEF Continue
  <2>2. LocalsTyped'
    BY <1>1, <1>2, <1>5, <2>1, GotoTyped DEF Continue
  <2>3. QED
    BY <1>1, <2>1, <2>2, SharedStays
<1>6. CASE /\ pc[p] = "swap" /\ Swap(seen[p].meta) /\ Goto(p, "confirm")
           /\ UNCHANGED <<db, hurts, mode, seen, attempt, outcome, entry, vouched>>
  <2>1. seen[p].meta # Absent
    BY <1>1, <1>6 DEF Placed
  <2>2. LocalsTyped'
    BY <1>1, <1>2, <1>6, GotoTyped
  <2>3. QED
    BY <1>6, <2>1, <2>2, SwapTyped
<1>7. CASE AskVerify(p)
  <2>1. UNCHANGED <<db, files, hurts, entry, vouched>> /\ StartVerify(p, mode[p])
    BY <1>7 DEF AskVerify
  <2>2. QED
    BY <1>1, <2>1, SharedStays, StartTyped
<1>8. CASE Pass(p)
  <2>1. UNCHANGED <<db, files, hurts>> /\ LocalsTyped'
    BY <1>8, VerdictTyped DEF Pass, Verdict
  <2>2. QED
    BY <1>1, <2>1, SharedStays
<1>9. CASE MirrorMeta(p) \/ MirrorFile(p) \/ MirrorGuards(p)
  BY <1>3, <1>4, <1>5, <1>9 DEF MirrorMeta, MirrorFile, MirrorGuards
<1>10. CASE MirrorSwap(p)
  BY <1>5, <1>6, <1>10 DEF MirrorSwap
<1>11. CASE ConfirmMeta(p) \/ ConfirmFile(p)
  BY <1>3, <1>7, <1>8, <1>11 DEF ConfirmMeta, ConfirmFile
<1>12. QED
  BY <1>9, <1>10, <1>11 DEF MirrorAndConfirm

\* An entry commits, with the checkpoint of the rows it makes or the one there is.
LEMMA CommitTyped ==
  ASSUME Typed, NEW p \in Procs, NEW why \in Modes, NEW checkpoint, minted < MaxEntries,
         checkpoint \in {meta, Append(rows, minted + 1)}, Commit(p, checkpoint, why)
  PROVE  LocalsTyped' /\ SharedTyped' /\ entry'[p] \in 1..MaxEntries
<1>1. LocalsTyped /\ SharedTyped
  BY TypeParts DEF Typed
<1>2. minted + 1 \in 1..MaxEntries
  BY <1>1, ConstantsAssumption DEF SharedTyped
<1>3. Append(rows, minted + 1) \in Chain
  BY <1>1, <1>2, Grown DEF SharedTyped
<1>4. /\ rows' \in Chain /\ meta' \in Chain \cup {Absent} /\ minted' \in 0..MaxEntries
      /\ UNCHANGED <<files, hurts, vouched>>
  <2>1. checkpoint \in Chain \cup {Absent}
    BY <1>1, <1>3 DEF SharedTyped
  <2>2. minted + 1 \in 0..MaxEntries
    BY <1>2, ConstantsAssumption
  <2>3. QED
    BY <1>3, <2>1, <2>2 DEF Commit
<1>5. /\ entry' \in [Procs -> 0..MaxEntries] /\ outcome' \in [Procs -> Outcomes]
      /\ entry'[p] \in 1..MaxEntries
  BY <1>1, <1>2, SomeOutcomes DEF Commit, LocalsTyped
<1>6. /\ Turn(p, "mirror", why, 0) /\ "mirror" \in PCs
      /\ 0 \in 0..HealConflictAttempts
  BY DEF Commit, PCs, MirrorSteps, HealConflictAttempts
<1>7. LocalsTyped'
  BY <1>1, <1>4, <1>5, <1>6, TurnTyped DEF LocalsTyped
<1>8. SharedTyped'
  BY <1>1, <1>4 DEF SharedTyped, files, hurts
<1>9. QED
  BY <1>5, <1>7, <1>8

LEMMA InsertTyped ==
  ASSUME Typed, NEW p \in Procs, Insert(p)
  PROVE  LocalsTyped' /\ SharedTyped' /\ entry'[p] \in 1..MaxEntries
<1>1. minted < MaxEntries
  BY DEF Typed, Placed, Insert, MirrorSteps, VerifySteps
<1>2. NextMeta \in {meta, Append(rows, minted + 1)} /\ "receipt" \in Modes
  BY DEF NextMeta, Modes
<1>3. QED
  BY <1>1, <1>2, CommitTyped DEF Insert

LEMMA ResealTyped ==
  ASSUME Typed, NEW p \in Procs, Reseal(p)
  PROVE  LocalsTyped' /\ SharedTyped' /\ entry'[p] \in 1..MaxEntries
<1>1. "seal receipt" \in Modes
  BY DEF Modes
<1>2. QED
  BY <1>1, CommitTyped DEF Reseal

LEMMA FaultTyped ==
  ASSUME TypeOK, NEW kind, Fault(kind)
  PROVE  start' \in AllStarts /\ faults' \in 0..MaxFaults /\ hurt' \subseteq AllFaults
BY ConstantsAssumption DEF TypeOK, Fault

LEMMA EnvironmentTyped ==
  ASSUME Typed, Jam \/ Unjam \/ Restore \/ Damage
  PROVE  LocalsTyped' /\ SharedTyped'
<1>1. TypeOK /\ LocalsTyped /\ SharedTyped
  BY TypeParts DEF Typed
<1>2. LocalsTyped'
  BY <1>1 DEF LocalsTyped, local, Jam, Unjam, Restore, Damage
<1>3. CASE Jam
  BY <1>1, <1>2, <1>3, FaultTyped DEF Jam, SharedTyped, db
<1>4. CASE Unjam
  BY <1>1, <1>2, <1>4 DEF Unjam, SharedTyped, db, hurts
<1>5. CASE Restore
  <2>1. PICK n \in 1..(Len(rows) - 1) : rows' = SubSeq(rows, 1, n) /\ meta' = rows'
    BY <1>5 DEF Restore
  <2>2. rows' \in Chain
    BY <1>1, <2>1, Cut DEF SharedTyped, Chain
  <2>3. QED
    BY <1>1, <1>2, <1>5, <2>1, <2>2, FaultTyped DEF Restore, SharedTyped, files
<1>6. CASE Damage
  BY <1>1, <1>2, <1>6, FaultTyped DEF Damage, SharedTyped, db
<1>7. QED
  BY <1>2, <1>3, <1>4, <1>5, <1>6

-----------------------------------------------------------------------------
(* Every step keeps it.                                                    *)

\* A step that touches neither the database, nor the file, nor any process.
LEMMA BystanderIsSafe ==
  ASSUME Inv, UNCHANGED <<db, ext, witnessed, local>>, (FileUntouched' <=> FileUntouched)
  PROVE  Safe'
<1>1. FileMoves /\ TypeOK /\ Journal /\ UNCHANGED <<rows, meta, minted>>
      /\ UNCHANGED <<pc, mode, seen, entry, vouched>>
  BY DEF FileMoves, Inv, db, local
<1>2. ASSUME NEW q \in Procs PROVE ProcInv(q)'
  BY <1>1, OthersStay
<1>3. OneWriter' /\ CheckpointOfRows'
  BY <1>1 DEF Journal, OneWriter, CheckpointOfRows
<1>4. Authentic(ext)' => ToSet(ext') \subseteq witnessed'
  BY <1>1 DEF Journal, Authentic
<1>5. \E x : ToSet(rows') \ witnessed' \subseteq {x}
  BY <1>1 DEF Journal
<1>6. AnchoredIsWitnessed'
  BY <1>1 DEF Journal, AnchoredIsWitnessed, Authentic
<1>7. QED
  BY <1>2, <1>3, <1>4, <1>5, <1>6 DEF Safe, Journal

LEMMA StepKeepsInv ==
  ASSUME "reseal" \notin Commands, Inv, [Next]_vars
  PROVE  Inv'
<1>1. SUFFICES Safe' /\ LocalsTyped' /\ SharedTyped'
  <2>1. TypeOK' <=> LocalsTyped' /\ SharedTyped'
    BY TypeParts, PTL
  <2>2. QED
    BY <2>1 DEF Safe, Inv
<1>2. Typed /\ TypeOK /\ LocalsTyped /\ SharedTyped
  BY TypeParts, InvTyped DEF Inv
<1>3. ASSUME NEW p \in Procs, AppendBegin(p) \/ VerifyCommand(p)
      PROVE  Safe' /\ LocalsTyped' /\ SharedTyped'
  <2>1. /\ StartVerify(p, "gate") \/ StartVerify(p, "command")
        /\ UNCHANGED <<db, files, hurts, entry, vouched>>
    BY <1>3 DEF AppendBegin, VerifyCommand
  <2>2. "gate" \in Modes /\ "command" \in Modes
    BY DEF Modes
  <2>3. QED
    BY <1>2, <1>3, <2>1, <2>2, CommandIsSafe, StartTyped, SharedStays
<1>4. ASSUME NEW p \in Procs, Reseal(p) PROVE FALSE
  BY <1>4 DEF Reseal
<1>5. ASSUME NEW p \in Procs, Step(p)
      PROVE  Safe' /\ LocalsTyped' /\ SharedTyped'
  <2>1. CASE Insert(p)
    BY <1>2, <2>1, InsertIsSafe, InsertTyped
  <2>2. CASE VerifyPass(p)
    BY <1>2, <2>2, ReadDatabaseIsSafe, ReadFileIsSafe, LadderIsSafe, HealIsSafe, ReadBackIsSafe,
       VerifyPassTyped DEF VerifyPass
  <2>3. CASE MirrorAndConfirm(p)
    BY <1>2, <2>3, MirrorIsSafe, MirrorTyped
  <2>4. QED
    BY <1>5, <2>1, <2>2, <2>3 DEF Step
<1>6. ASSUME NEW p \in Procs, Crash(p)
      PROVE  Safe' /\ LocalsTyped' /\ SharedTyped'
  <2>1. Report(p, "none") /\ UNCHANGED <<db, files, vouched>> /\ Fault("crash")
    BY <1>6 DEF Crash
  <2>2. LocalsTyped'
    BY <1>2, <2>1, ReportTyped, SomeOutcomes DEF LocalsTyped
  <2>3. SharedTyped'
    BY <1>2, <2>1, FaultTyped DEF SharedTyped, db, files
  <2>4. QED
    BY <1>6, <2>2, <2>3, CrashIsSafe
<1>7. CASE Jam \/ Unjam \/ Restore \/ Damage
  <2>1. CASE Jam \/ Unjam
    <3>1. UNCHANGED <<db, ext, witnessed, local>> /\ (FileUntouched' <=> FileUntouched)
      BY <2>1 DEF Jam, Unjam, Fault, hurts, FileUntouched
    <3>2. QED
      BY <1>2, <2>1, <3>1, BystanderIsSafe, EnvironmentTyped
  <2>2. CASE Restore \/ Damage
    BY <1>2, <2>2, RestoreIsSafe, DamageIsSafe, EnvironmentTyped
  <2>3. QED
    BY <1>7, <2>1, <2>2
<1>8. CASE UNCHANGED vars
  <2>1. UNCHANGED <<db, files, local, hurts>>
    BY <1>8 DEF vars
  <2>2. UNCHANGED <<ext, witnessed>> /\ (FileUntouched' <=> FileUntouched)
    BY <2>1 DEF files, hurts, FileUntouched
  <2>3. SharedTyped' /\ LocalsTyped'
    BY <1>2, <2>1, SharedStays DEF LocalsTyped, local
  <2>4. QED
    BY <2>1, <2>2, <2>3, BystanderIsSafe
<1>9. QED
  BY <1>3, <1>4, <1>5, <1>6, <1>7, <1>8 DEF Next, StartCommand

LEMMA InvInit == Init => Inv
<1> SUFFICES ASSUME Init PROVE Inv
  OBVIOUS
<1>1. /\ rows \in Chain /\ minted \in 0..MaxEntries /\ witnessed = ToSet(rows)
      /\ rows = <<>> \/ rows = <<1>>
      /\ ext = meta /\ meta = (IF rows = <<>> THEN Absent ELSE rows)
      /\ start \in AllStarts
  <2>1. CASE rows = <<>>
    <3>1. FirstRows = <<>> /\ Len(FirstRows) = 0
      BY <2>1 DEF Init
    <3>2. QED
      BY <2>1, <3>1, ConstantsAssumption DEF Init, Chain
  <2>2. CASE rows = <<1>>
    <3>1. FirstRows = <<1>> /\ Len(FirstRows) = 1 /\ FirstRows # <<>> /\ 1 \in 1..MaxEntries
      BY <2>2, ConstantsAssumption DEF Init
    <3>2. <<1>> \in Chain
      BY <3>1 DEF Chain
    <3>3. QED
      BY <2>2, <3>1, <3>2, ConstantsAssumption DEF Init
  <2>3. QED
    BY <2>1, <2>2 DEF Init, FirstRows
<1>2. ToSet(rows) \subseteq 1..MaxEntries
  BY <1>1, ChainSet
<1>3. SharedTyped
  <2>1. rows \in Chain /\ meta \in Chain \cup {Absent}
        /\ ext \in Chain \cup {Absent, Forged, Unreadable}
    BY <1>1
  <2>2. jammed \in BOOLEAN
    BY DEF Init
  <2>3. faults \in 0..MaxFaults /\ hurt \subseteq AllFaults
    BY ConstantsAssumption DEF Init
  <2>4. QED
    BY <1>1, <1>2, <2>1, <2>2, <2>3 DEF SharedTyped
<1>4. LocalsTyped
  <2>1. Nothing \in [version : Chain \cup {Absent}, rows : Chain,
                     meta : Chain \cup {Absent}, ext : Chain \cup {Absent, Forged}]
    BY DEF Nothing, Chain
  <2>2. "idle" \in PCs /\ "none" \in Modes /\ 0 \in 0..HealConflictAttempts /\ "none" \in Outcomes
        /\ 0 \in 0..MaxEntries
    BY ConstantsAssumption DEF PCs, Modes, HealConflictAttempts, Outcomes
  <2>3. QED
    BY <2>1, <2>2 DEF Init, LocalsTyped
<1>5. Journal
  <2>1. Authentic(ext) => ToSet(ext) \subseteq witnessed
    BY <1>1, Special
  <2>2. \E x : ToSet(rows) \ witnessed \subseteq {x}
    BY <1>1
  <2>3. OneWriter /\ CheckpointOfRows /\ AnchoredIsWitnessed
    BY <1>1 DEF Init, OneWriter, CheckpointOfRows, AnchoredIsWitnessed
  <2>4. QED
    BY <2>1, <2>2, <2>3 DEF Journal
<1>6. ASSUME NEW p \in Procs PROVE ProcInv(p)
  <2>1. pc[p] = "idle" /\ mode[p] = "none" /\ seen[p].meta = Absent /\ seen[p].ext = Absent
    BY NothingIs DEF Init
  <2>2. QED
    BY <2>1, Special DEF ProcInv, Stage, KnowsRows, KnowsEntry, KnowsFile, GateHolds
<1>7. QED
  BY <1>3, <1>4, <1>5, <1>6, TypeParts DEF Inv

LEMMA InvAlways == ASSUME "reseal" \notin Commands PROVE Spec => []Inv
BY InvInit, StepKeepsInv, PTL DEF Spec

-----------------------------------------------------------------------------
(* What follows.                                                           *)

LEMMA InvAnchors == Inv => AnchorInv /\ GateMeansAnchored
<1> SUFFICES ASSUME Inv PROVE AnchorInv /\ GateMeansAnchored
  OBVIOUS
<1>1. PICK x : ToSet(rows) \ witnessed \subseteq {x}
  BY DEF Inv, Journal
<1>2. OneUnwitnessedRow
  <2>1. ToSet(rows) \ witnessed = {} \/ ToSet(rows) \ witnessed = {x}
    BY <1>1
  <2>2. Cardinality({}) = 0 /\ Cardinality({x}) = 1
    BY FS_EmptySet, FS_Singleton
  <2>3. QED
    BY <2>1, <2>2 DEF OneUnwitnessedRow
<1>3. AnchorInv
  BY <1>2 DEF AnchorInv, Inv, Journal
<1>4. GateMeansAnchored
  BY DEF GateMeansAnchored, Inv, ProcInv, GateHolds, Anchors
<1>5. QED
  BY <1>3, <1>4

\* Every step of the program moves the file along, or leaves it alone.
LEMMA ProgramMoves ==
  ASSUME "reseal" \notin Commands, Inv, [Next]_vars, faults' = faults
  PROVE  FileMoves
<1>1. CASE UNCHANGED <<ext, witnessed>>
  BY <1>1 DEF FileMoves
<1>2. ASSUME NEW p \in Procs, Heal(p) PROVE FileMoves
  <2>1. /\ pc[p] = "heal" /\ KnowsRows(p) /\ TypeOK
    BY <1>2, InvFacts DEF Heal
  <2>2. seen[p].meta # Absent /\ Extends(seen[p].ext, seen[p].meta)
    BY <2>1, Types, Special DEF KnowsRows, Live
  <2>3. CASE ext \in {seen[p].ext, seen[p].meta} /\ Swap(seen[p].meta)
    BY <2>2, <2>3, SwapMoves
  <2>4. CASE Continue(p, "heal threw") \/ Unsettled(p)
    BY <1>1, <2>4 DEF Continue, Unsettled, Fail, Verdict, files
  <2>5. QED
    BY <1>2, <2>3, <2>4 DEF Heal
<1>3. ASSUME NEW p \in Procs, MirrorSwap(p) PROVE FileMoves
  <2>1. /\ pc[p] = "swap" /\ KnowsRows(p) /\ Stage(p)
    BY <1>3, InvFacts DEF MirrorSwap
  <2>2. seen[p].meta # Absent /\ Extends(seen[p].ext, seen[p].meta) /\ ~Forced(p)
    BY <2>1 DEF KnowsRows, Stage, Forced, VerifySteps, MirrorSteps
  <2>3. CASE ext \in {seen[p].ext, seen[p].meta} /\ Swap(seen[p].meta)
    BY <2>2, <2>3, SwapMoves
  <2>4. CASE Continue(p, "confirm")
    BY <1>1, <2>4 DEF Continue, files
  <2>5. QED
    BY <1>3, <2>2, <2>3, <2>4 DEF MirrorSwap
<1>4. ASSUME NEW p \in Procs,
             \/ AppendBegin(p) \/ VerifyCommand(p) \/ Insert(p)
             \/ ReadVersion(p) \/ ReadRows(p) \/ ReadMeta(p) \/ ReadFile(p)
             \/ ReadVersionAgain(p) \/ HealThrew(p) \/ ReadBack(p) \/ ReadCommitted(p)
             \/ MirrorMeta(p) \/ MirrorFile(p) \/ MirrorGuards(p)
             \/ ConfirmMeta(p) \/ ConfirmFile(p)
      PROVE  UNCHANGED <<ext, witnessed>>
  <2>1. UNCHANGED files
    BY <1>4 DEF AppendBegin, VerifyCommand, Insert, Commit, ReadVersion, ReadRows, ReadMeta,
                ReadFile, ReadVersionAgain, HealThrew, ReadBack, ReadCommitted, MirrorMeta,
                MirrorFile, MirrorGuards, ConfirmMeta, ConfirmFile, Learn, Continue, Unsettled,
                Pass, Fail, AskVerify
  <2>2. QED
    BY <2>1 DEF files
<1>5. ASSUME NEW kind, Fault(kind) PROVE FALSE
  BY <1>5 DEF Fault, Inv, TypeOK
<1>6. ASSUME NEW p \in Procs, Reseal(p) \/ Crash(p) PROVE FALSE
  BY <1>5, <1>6 DEF Reseal, Crash
<1>7. CASE Jam \/ Restore \/ Damage
  BY <1>5, <1>7 DEF Jam, Restore, Damage
<1>8. CASE Unjam \/ UNCHANGED vars
  BY <1>1, <1>8 DEF Unjam, vars, files
<1>9. QED
  BY <1>1, <1>2, <1>3, <1>4, <1>6, <1>7, <1>8
     DEF Next, StartCommand, Step, VerifyPass, MirrorAndConfirm

LEMMA MovesForward ==
  ASSUME TypeOK, FileMoves, ext' # ext
  PROVE  ext = Absent \/ (Authentic(ext) /\ IsStrictPrefix(ext, ext'))
BY DEF FileMoves, Extends, IsStrictPrefix

\* Only the insert of an entry mints a row.
LEMMA OnlyInsertMints ==
  ASSUME "reseal" \notin Commands, Inv, [Next]_vars, minted' # minted
  PROVE  \E p \in Procs : pc[p] = "insert"
<1>1. CASE \E p \in Procs : Insert(p)
  BY <1>1 DEF Insert
<1>2. CASE UNCHANGED minted
  BY <1>2
<1>3. ASSUME NEW p \in Procs, AppendBegin(p) \/ VerifyCommand(p) \/ Crash(p)
      PROVE  UNCHANGED minted
  BY <1>3 DEF AppendBegin, VerifyCommand, Crash, db
<1>4. ASSUME NEW p \in Procs, Reseal(p) PROVE FALSE
  BY <1>4 DEF Reseal
<1>5. ASSUME NEW p \in Procs, VerifyPass(p) PROVE UNCHANGED minted
  <2>1. UNCHANGED db
    BY <1>5 DEF VerifyPass, ReadVersion, ReadRows, ReadMeta, ReadFile, ReadVersionAgain, Heal,
                HealThrew, ReadBack, ReadCommitted, Learn, Continue, Unsettled, Pass, Fail, Verdict
  <2>2. QED
    BY <2>1 DEF db
<1>6. ASSUME NEW p \in Procs, MirrorAndConfirm(p) PROVE UNCHANGED minted
  <2>1. UNCHANGED db
    BY <1>6 DEF MirrorAndConfirm, MirrorMeta, MirrorFile, MirrorGuards, MirrorSwap, ConfirmMeta,
                ConfirmFile, Learn, Continue, Pass, Verdict, AskVerify
  <2>2. QED
    BY <2>1 DEF db
<1>7. CASE Jam \/ Unjam \/ Restore \/ Damage \/ UNCHANGED vars
  BY <1>7 DEF Jam, Unjam, Restore, Damage, vars, db
<1>8. QED
  BY <1>1, <1>2, <1>3, <1>4, <1>5, <1>6, <1>7 DEF Next, StartCommand, Step

\* Whatever crashes, jams, is restored or damaged, the file never misses more
\* than the one row the gate lets through, and it never loses a row that some
\* caller was told is anchored while nobody else touches it.
THEOREM AnchorNeverFarBehind ==
  ASSUME "reseal" \notin Commands
  PROVE  Spec => []AnchorInv
BY InvAlways, InvAnchors, PTL

\* Between the gate's verdict and the commit it allows, no peer's late mirror
\* or heal takes the anchor of the rows away again.
THEOREM GateVerdictHolds ==
  ASSUME "reseal" \notin Commands
  PROVE  Spec => []GateMeansAnchored
BY InvAlways, InvAnchors, PTL

\* mirrorExternal() and the heal of verify() only ever move the file forward
\* along the chain it commits to; what does not authenticate stays as evidence.
THEOREM ProgramOnlyAdvancesTheFile ==
  ASSUME "reseal" \notin Commands
  PROVE  Spec => FileOnlyAdvances
<1>1. Inv /\ [Next]_vars =>
        [(faults' = faults /\ ext' # ext) =>
           ext = Absent \/ (Authentic(ext) /\ IsStrictPrefix(ext, ext'))]_vars
  BY ProgramMoves, MovesForward DEF Inv
<1>2. QED
  BY <1>1, InvAlways, PTL DEF Spec, FileOnlyAdvances

\* The gate lets no entry into a database that lacks a row some receipt called
\* anchored, while the file that remembers the row is left alone.
THEOREM RestoredDatabaseTakesNoEntry ==
  ASSUME "reseal" \notin Commands
  PROVE  Spec => RestoreIsCaught
<1>1. Inv /\ [Next]_vars =>
        [minted' # minted /\ FileUntouched => vouched \subseteq ToSet(rows)]_vars
  <2>1. SUFFICES ASSUME Inv, [Next]_vars, minted' # minted, FileUntouched
                 PROVE  vouched \subseteq ToSet(rows)
    OBVIOUS
  <2>2. PICK p \in Procs : pc[p] = "insert"
    BY <2>1, OnlyInsertMints
  <2>3. Anchors(ext) /\ AnchoredIsWitnessed
    BY <2>1, <2>2, InvFacts DEF GateHolds, Journal
  <2>4. QED
    BY <2>1, <2>3, Special DEF Anchors, AnchoredIsWitnessed
<1>2. QED
  BY <1>1, InvAlways, PTL DEF Spec, RestoreIsCaught

-----------------------------------------------------------------------------
(* A store that nothing has happened to but processes dying.               *)
(*                                                                         *)
(* Its two copies differ by the last row at most (Close): a commit finds   *)
(* them equal, and a mirror or a heal can only make them equal again       *)
(* (BehindMoves).  So whatever the gate of a sealed store reads of the     *)
(* file it may heal, and whatever happens to the file before it heals is   *)
(* that very heal (GateGoesOn).  And the process that left the file behind *)
(* is still on its way to it (LastMirrors).                                *)

\* Nothing happened to the store but processes dying.
Sound == hurt \subseteq {"crash"}

\* e is the anchor of all rows but the last.
OneBehind(e) ==
  \/ e \in Chain /\ e # <<>> /\ \E x \in 1..MaxEntries : rows = Append(e, x)
  \/ e = Absent /\ ~PriorInstall /\ \E x \in 1..MaxEntries : rows = <<x>>

\* The two copies differ by the last row at most.
Close ==
  Sound =>
    \/ rows = <<>> /\ meta = Absent /\ ext = Absent /\ ~PriorInstall
    \/ rows # <<>> /\ meta = rows /\ (ext = rows \/ OneBehind(ext))

\* The gate of a sealed store has read its present state, and finds no reason
\* to refuse: the lag it saw is gone or is still the one it may heal.
GateGoesOn(p) ==
  Sound /\ PriorInstall /\ mode[p] = "gate" =>
    /\ pc[p] \notin {"heal threw", "committed"}
    /\ pc[p] \in {"rows", "meta"} => seen[p].version = meta
    /\ pc[p] \in {"file", "version again", "heal", "read back"} => seen[p].meta = rows
    /\ pc[p] \in {"version again", "heal"} =>
         /\ seen[p].ext = rows \/ (seen[p].ext # Absent /\ OneBehind(seen[p].ext))
         /\ ext \in {seen[p].ext, rows}
    /\ pc[p] = "read back" => ext = rows

\* p is about to mirror the present checkpoint over the file it lags with.
WillMirror(p) ==
  /\ mode[p] = "receipt"
  /\ \/ pc[p] = "mirror"
     \/ pc[p] = "mirror file" /\ seen[p].meta = rows
     \/ pc[p] \in {"guards", "swap"} /\ seen[p].meta = rows /\ seen[p].ext = ext

\* A lag of an unhurt store is about to be made up for.
LastMirrors == hurt = {} /\ OneBehind(ext) => \E p \in Procs : WillMirror(p)

NoJam == jammed => "jam" \in hurt

NeverRefused == Sound /\ PriorInstall => \A p \in Procs : outcome[p] # "refused"

Healthy == NoJam /\ Close /\ NeverRefused /\ LastMirrors /\ \A p \in Procs : GateGoesOn(p)

LEMMA BehindIs ==
  ASSUME TypeOK, NEW e, OneBehind(e)
  PROVE  /\ e = Absent \/ (e \in Chain /\ Authentic(e) /\ IsStrictPrefix(e, rows))
         /\ PriorInstall => e # Absent
         /\ e # rows /\ rows # <<>> /\ e # Unreadable /\ e # Forged
<1>1. rows \in Chain
  BY DEF TypeOK
<1>2. ASSUME e \in Chain, e # <<>>, NEW x \in 1..MaxEntries, rows = Append(e, x)
      PROVE  /\ Authentic(e) /\ IsStrictPrefix(e, rows) /\ e # Absent
             /\ e # rows /\ rows # <<>> /\ e # Unreadable /\ e # Forged
  <2>1. IsPrefix(e, rows) /\ rows # <<>>
    BY <1>2, Grown
  <2>2. Len(rows) = Len(e) + 1 /\ Len(e) \in Nat
    BY <1>2 DEF Chain
  <2>3. e # rows
    BY <2>2
  <2>4. QED
    BY <1>2, <2>1, <2>3, Special DEF IsStrictPrefix
<1>3. ASSUME e = Absent, ~PriorInstall, NEW x \in 1..MaxEntries, rows = <<x>>
      PROVE  e # rows /\ rows # <<>> /\ e # Unreadable /\ e # Forged
  BY <1>1, <1>3, Special, ConstantsAssumption
<1>4. QED
  BY <1>2, <1>3 DEF OneBehind

\* The file can be moved along from there in one way only.
LEMMA BehindMoves ==
  ASSUME TypeOK, NEW e, OneBehind(e), NEW c \in Chain, c # <<>>, IsPrefix(c, rows), Extends(e, c)
  PROVE  c = e \/ c = rows
<1>1. rows \in Seq(1..MaxEntries) /\ c \in Seq(1..MaxEntries)
  BY DEF TypeOK, Chain
<1>2. Len(c) <= Len(rows) /\ \A i \in 1..Len(c) : c[i] = rows[i]
  BY <1>1, PrefixIs
<1>3. CASE e \in Chain /\ \E x \in 1..MaxEntries : rows = Append(e, x)
  <2>1. e \in Seq(1..MaxEntries) /\ IsPrefix(e, c)
    BY <1>3, Special DEF Chain, Extends
  <2>2. Len(e) <= Len(c) /\ \A i \in 1..Len(e) : e[i] = c[i]
    BY <1>1, <2>1, PrefixIs
  <2>3. Len(rows) = Len(e) + 1
    BY <1>3, <2>1
  <2>4. Len(c) = Len(e) \/ Len(c) = Len(rows)
    BY <1>1, <1>2, <2>1, <2>2, <2>3
  <2>5. CASE Len(c) = Len(e)
    BY <1>1, <2>1, <2>2, <2>5
  <2>6. CASE Len(c) = Len(rows)
    BY <1>1, <1>2, <2>6
  <2>7. QED
    BY <2>4, <2>5, <2>6
<1>4. CASE \E x \in 1..MaxEntries : rows = <<x>>
  <2>1. Len(rows) = 1 /\ Len(c) \in Nat /\ Len(c) # 0
    BY <1>1, <1>4
  <2>2. Len(c) = Len(rows)
    BY <1>2, <2>1
  <2>3. QED
    BY <1>1, <1>2, <2>2
<1>5. QED
  BY <1>3, <1>4 DEF OneBehind

LEMMA CloseMoves ==
  ASSUME Inv, Close, Sound, FileMoves
  PROVE  ext' = ext \/ (rows # <<>> /\ ext' = rows)
<1>1. CASE rows = <<>> \/ ext = rows
  BY <1>1, FileOnlyGrows DEF Close, Anchors, Inv
<1>2. CASE OneBehind(ext)
  BY <1>2, BehindMoves, BehindIs DEF FileMoves, Inv
<1>3. QED
  BY <1>1, <1>2 DEF Close

\* Nothing moves but, perhaps, the file.
LEMMA CloseStays ==
  ASSUME Inv, Close, FileMoves, UNCHANGED <<rows, meta, start>>, Sound' => Sound
  PROVE  Close'
<1>1. SUFFICES ASSUME Sound
               PROVE \/ rows' = <<>> /\ meta' = Absent /\ ext' = Absent /\ ~PriorInstall'
                     \/ rows' # <<>> /\ meta' = rows' /\ (ext' = rows' \/ OneBehind(ext)')
  BY DEF Close
<1>2. (PriorInstall' <=> PriorInstall) /\ rows' = rows /\ meta' = meta
  BY DEF PriorInstall
<1>3. ext' = ext \/ (rows # <<>> /\ ext' = rows)
  BY <1>1, CloseMoves
<1>4. CASE ext' = ext
  <2>1. OneBehind(ext) => OneBehind(ext)'
    BY <1>2, <1>4 DEF OneBehind
  <2>2. QED
    BY <1>1, <1>2, <1>4, <2>1 DEF Close
<1>5. CASE rows # <<>> /\ ext' = rows
  BY <1>1, <1>2, <1>5 DEF Close
<1>6. QED
  BY <1>3, <1>4, <1>5

LEMMA CloseAtInsert ==
  ASSUME Inv, Inv', Close, NEW p \in Procs, Insert(p)
  PROVE  Close' /\ (Sound => rows' # <<>> /\ OneBehind(ext)')
<1>1. /\ rows' = Append(rows, minted + 1) /\ meta' = NextMeta /\ minted' = minted + 1
      /\ UNCHANGED <<ext, hurt, start>>
  BY DEF Insert, Commit, files, hurts
<1>2. TypeOK /\ TypeOK' /\ (Sound' <=> Sound) /\ (PriorInstall' <=> PriorInstall)
  BY <1>1 DEF Inv, Sound, PriorInstall
<1>3. SUFFICES ASSUME Sound
               PROVE  rows' # <<>> /\ meta' = rows' /\ OneBehind(ext)'
  BY <1>2 DEF Close
<1>4. GateHolds(p) /\ FileUntouched /\ pc[p] = "insert"
  BY <1>3, InvFacts DEF Insert, FileUntouched, Sound
<1>5. Anchors(ext)
  BY <1>4 DEF GateHolds
<1>6. rows \in Chain /\ minted' \in 1..MaxEntries /\ rows' = Append(rows, minted')
  <2>1. minted \in Nat /\ minted' \in 0..MaxEntries /\ minted' = minted + 1
    BY <1>1, <1>2 DEF TypeOK
  <2>2. QED
    BY <1>1, <1>2, <2>1 DEF TypeOK
<1>7. rows' # <<>>
  BY <1>6, Grown
<1>8. CASE rows # <<>>
  <2>1. meta = rows /\ ext = rows
    BY <1>3, <1>5, <1>8 DEF Close, Anchors
  <2>2. meta' = rows'
    BY <1>1, <2>1 DEF NextMeta
  <2>3. OneBehind(ext)'
    <3>1. ext' \in Chain /\ ext' # <<>> /\ rows' = Append(ext', minted')
      BY <1>1, <1>6, <1>8, <2>1
    <3>2. QED
      BY <1>6, <3>1 DEF OneBehind
  <2>4. QED
    BY <1>7, <2>2, <2>3
<1>9. CASE rows = <<>>
  <2>1. meta = Absent /\ ext = Absent /\ ~PriorInstall
    BY <1>3, <1>9 DEF Close
  <2>2. meta' = rows'
    BY <1>1, <1>9, <2>1 DEF NextMeta
  <2>3. OneBehind(ext)'
    <3>1. rows' = <<minted'>>
      BY <1>6, <1>9
    <3>2. QED
      BY <1>1, <1>2, <1>6, <2>1, <3>1 DEF OneBehind
  <2>4. QED
    BY <1>7, <2>2, <2>3
<1>10. QED
  BY <1>8, <1>9

-----------------------------------------------------------------------------
(* Steps.                                                                  *)

\* A step of p inside a command, or at its beginning.
OwnStep(p) ==
  \/ pc[p] = "idle" /\ (AppendBegin(p) \/ VerifyCommand(p))
  \/ Step(p)

LEMMA TurnOnly ==
  ASSUME TypeOK, NEW p \in Procs, NEW next, NEW why, NEW pass, Turn(p, next, why, pass),
         \A q \in Procs : q # p => entry'[q] = entry[q]
  PROVE  Only(p)
BY TurnIs DEF Only

LEMMA VerdictOnly ==
  ASSUME TypeOK, NEW p \in Procs, NEW ok, Verdict(p, ok)
  PROVE  Only(p) /\ UNCHANGED <<db, hurts>> /\ \A q \in Procs : q # p => outcome'[q] = outcome[q]
<1>1. UNCHANGED <<db, hurts>>
  BY DEF Verdict
<1>2. CASE \E next, why : Turn(p, next, why, 0) /\ UNCHANGED <<outcome, entry>>
  BY <1>1, <1>2, TurnOnly
<1>3. CASE \E what : Report(p, what)
  <2>1. /\ \E pass : Turn(p, "idle", "none", pass)
        /\ \A q \in Procs : q # p => entry'[q] = entry[q] /\ outcome'[q] = outcome[q]
    BY <1>3 DEF Report, TypeOK
  <2>2. QED
    BY <1>1, <2>1, TurnOnly
<1>4. QED
  BY <1>2, <1>3 DEF Verdict

LEMMA StartOnly ==
  ASSUME TypeOK, NEW p \in Procs, NEW why, StartVerify(p, why), UNCHANGED entry
  PROVE  Only(p) /\ \A q \in Procs : q # p => outcome'[q] = outcome[q]
BY TurnOnly DEF StartVerify, TypeOK

LEMMA UnsettledOnly ==
  ASSUME TypeOK, NEW p \in Procs, Unsettled(p)
  PROVE  /\ Only(p) /\ UNCHANGED <<db, hurts, jammed>>
         /\ \A q \in Procs : q # p => outcome'[q] = outcome[q]
<1>1. CASE Fail(p)
  BY <1>1, VerdictOnly DEF Fail, files
<1>2. CASE /\ Turn(p, "version", mode[p], attempt[p] + 1)
           /\ UNCHANGED <<db, files, hurts, outcome, entry, vouched>>
  BY <1>2, TurnOnly DEF files
<1>3. QED
  BY <1>1, <1>2 DEF Unsettled

LEMMA OnwardOnly ==
  ASSUME TypeOK, NEW p \in Procs,
         \/ \E field \in {"version", "rows", "meta", "ext"} :
              \E value, next : Learn(p, field, value, next)
         \/ \E next : Continue(p, next)
         \/ \E next : Goto(p, next) /\ UNCHANGED <<db, hurts, mode, seen, outcome, entry, jammed>>
  PROVE  /\ Only(p) /\ UNCHANGED <<db, hurts, jammed, mode>>
         /\ UNCHANGED outcome
BY DEF Only, TypeOK, Learn, Continue, Goto, files

LEMMA PassOnly ==
  ASSUME TypeOK, NEW p \in Procs, Pass(p) \/ Fail(p)
  PROVE  /\ Only(p) /\ UNCHANGED <<db, hurts, jammed>>
         /\ \A q \in Procs : q # p => outcome'[q] = outcome[q]
BY VerdictOnly DEF Pass, Fail, files

LEMMA OwnSteps ==
  ASSUME TypeOK, NEW p \in Procs, OwnStep(p)
  PROVE  /\ Only(p) /\ UNCHANGED <<hurts, jammed>>
         /\ \A q \in Procs : q # p => outcome'[q] = outcome[q]
         /\ Insert(p) \/ UNCHANGED db
<1>2. CASE AppendBegin(p) \/ VerifyCommand(p)
  BY <1>2, StartOnly DEF AppendBegin, VerifyCommand, files
<1>3. CASE Insert(p)
  <2>1. /\ \E next, why, pass : Turn(p, next, why, pass)
        /\ \A q \in Procs : q # p => entry'[q] = entry[q] /\ outcome'[q] = outcome[q]
        /\ UNCHANGED <<hurts, jammed>>
    BY <1>3 DEF Insert, Commit, files, TypeOK
  <2>2. QED
    BY <1>3, <2>1, TurnOnly
<1>4. CASE ReadVersion(p) \/ ReadRows(p)
  BY <1>4, OnwardOnly DEF ReadVersion, ReadRows
<1>5. CASE ReadMeta(p)
  BY <1>5, OnwardOnly, UnsettledOnly DEF ReadMeta
<1>6. CASE ReadFile(p)
  BY <1>6, OnwardOnly, PassOnly DEF ReadFile
<1>7. CASE ReadVersionAgain(p)
  <2>1. Unsettled(p) \/ Pass(p) \/ Fail(p) \/ Continue(p, "heal")
    BY <1>7 DEF ReadVersionAgain
  <2>2. QED
    BY <2>1, OnwardOnly, PassOnly, UnsettledOnly
<1>8. CASE Heal(p)
  <2>1. CASE Goto(p, "read back") /\ Swap(seen[p].meta)
             /\ UNCHANGED <<db, hurts, mode, seen, attempt, outcome, entry, vouched>>
    BY <2>1, OnwardOnly DEF Swap
  <2>2. CASE Unsettled(p) \/ Continue(p, "heal threw")
    BY <2>2, OnwardOnly, UnsettledOnly
  <2>3. QED
    BY <1>8, <2>1, <2>2 DEF Heal
<1>9. CASE HealThrew(p)
  <2>1. Fail(p) \/ Continue(p, "read back")
    BY <1>9 DEF HealThrew
  <2>2. QED
    BY <2>1, OnwardOnly, PassOnly
<1>10. CASE ReadBack(p)
  <2>1. Fail(p) \/ Pass(p) \/ Learn(p, "ext", ext, "committed")
    BY <1>10 DEF ReadBack
  <2>2. QED
    BY <2>1, OnwardOnly, PassOnly
<1>11. CASE ReadCommitted(p)
  BY <1>11, UnsettledOnly, PassOnly DEF ReadCommitted
<1>12. CASE MirrorMeta(p) \/ MirrorFile(p)
  BY <1>12, OnwardOnly DEF MirrorMeta, MirrorFile
<1>13. CASE MirrorGuards(p)
  BY <1>13, OnwardOnly DEF MirrorGuards
<1>14. CASE MirrorSwap(p)
  <2>1. CASE Goto(p, "confirm") /\ Swap(seen[p].meta)
             /\ UNCHANGED <<db, hurts, mode, seen, attempt, outcome, entry, vouched>>
    BY <2>1, OnwardOnly DEF Swap
  <2>2. CASE Continue(p, "confirm")
    BY <2>2, OnwardOnly
  <2>3. QED
    BY <1>14, <2>1, <2>2 DEF MirrorSwap
<1>15. CASE AskVerify(p)
  BY <1>15, StartOnly DEF AskVerify, files
<1>16. CASE ConfirmMeta(p) \/ ConfirmFile(p)
  BY <1>15, <1>16, OnwardOnly, PassOnly DEF ConfirmMeta, ConfirmFile
<1>17. QED
  BY <1>2, <1>3, <1>4, <1>5, <1>6, <1>7, <1>8, <1>9, <1>10, <1>11, <1>12, <1>13, <1>14, <1>16
  DEF OwnStep, Step, VerifyPass, MirrorAndConfirm

\* What happens while nobody but dying processes hurts the store.
LEMMA SoundSteps ==
  ASSUME "reseal" \notin Commands, Inv, NoJam, [Next]_vars
  PROVE  /\ NoJam' /\ (Sound' => Sound) /\ (hurt' = {} => hurt = {}) /\ start' = start
         /\ Sound' => \/ \E p \in Procs : OwnStep(p)
                      \/ \E p \in Procs : Crash(p)
                      \/ UNCHANGED <<db, ext, witnessed, local, hurts>>
<1>1. CASE \E p \in Procs : OwnStep(p)
  <2>1. UNCHANGED <<hurts, jammed>>
    BY <1>1, OwnSteps DEF Inv
  <2>2. QED
    BY <1>1, <2>1 DEF hurts, NoJam, Sound
<1>2. ASSUME NEW p \in Procs, Crash(p)
      PROVE  /\ NoJam' /\ (Sound' => Sound) /\ hurt' # {} /\ start' = start
  BY <1>2 DEF Crash, Fault, files, NoJam, Sound
<1>3. CASE Jam \/ Restore \/ Damage
  <2>1. PICK kind \in {"jam", "restore", "lose", "forge", "unreadable"} : Fault(kind)
    BY <1>3 DEF Jam, Restore, Damage
  <2>2. /\ hurt' = hurt \cup {kind} /\ start' = start /\ hurt' # {} /\ ~Sound'
    BY <2>1 DEF Fault, Sound
  <2>3. jammed' = jammed \/ "jam" \in hurt'
    BY <1>3 DEF Jam, Restore, Damage, Fault, files
  <2>4. NoJam'
    BY <2>2, <2>3 DEF NoJam
  <2>5. QED
    BY <2>2, <2>4
<1>4. CASE Unjam \/ UNCHANGED vars
  BY <1>4 DEF Unjam, vars, db, local, hurts, files, NoJam, Sound
<1>5. ASSUME NEW p \in Procs, Reseal(p) PROVE FALSE
  BY <1>5 DEF Reseal
<1>6. QED
  BY <1>1, <1>2, <1>3, <1>4, <1>5 DEF Next, StartCommand, OwnStep

LEMMA Learned ==
  ASSUME Inv, NEW p \in Procs, NEW field \in {"version", "rows", "meta", "ext"}, NEW value,
         NEW next, Learn(p, field, value, next)
  PROVE  /\ pc'[p] = next /\ seen'[p] = [seen[p] EXCEPT ![field] = value]
         /\ UNCHANGED <<rows, meta, ext, mode, outcome, start>>
BY DEF Learn, Goto, Inv, TypeOK, files, hurts, db

LEMMA CrashIs ==
  ASSUME Inv, NEW p \in Procs, Crash(p)
  PROVE  /\ UNCHANGED <<rows, meta, minted, ext, witnessed>>
         /\ mode'[p] = "none" /\ outcome'[p] = "none"
         /\ Only(p) /\ \A q \in Procs : q # p => outcome'[q] = outcome[q]
<1>1. Report(p, "none") /\ UNCHANGED <<db, files>> /\ TypeOK
  BY DEF Crash, Inv
<1>2. /\ mode'[p] = "none" /\ outcome'[p] = "none"
      /\ \A q \in Procs : q # p => outcome'[q] = outcome[q] /\ entry'[q] = entry[q]
  BY <1>1, TurnIs DEF Report, TypeOK
<1>3. Only(p)
  BY <1>1, <1>2, TurnOnly DEF Report
<1>4. QED
  BY <1>1, <1>2, <1>3 DEF db, files

\* Close is kept by every step.
LEMMA StepKeepsClose ==
  ASSUME "reseal" \notin Commands, Inv, Inv', Healthy, [Next]_vars
  PROVE  Close'
<1>1. /\ Close /\ (Sound' => Sound) /\ start' = start
      /\ Sound' => \/ \E p \in Procs : OwnStep(p)
                   \/ \E p \in Procs : Crash(p)
                   \/ UNCHANGED <<db, ext, witnessed, local, hurts>>
  BY SoundSteps DEF Healthy
<1>2. SUFFICES ASSUME Sound' PROVE Close'
  BY DEF Close
<1>3. ASSUME NEW p \in Procs, OwnStep(p) PROVE Close'
  <2>1. Insert(p) \/ UNCHANGED <<rows, meta>>
    BY <1>3, OwnSteps DEF Inv, db
  <2>2. FileMoves
    <3>1. faults' = faults
      BY <1>3, OwnSteps DEF Inv, hurts
    <3>2. QED
      BY <3>1, ProgramMoves
  <2>3. QED
    BY <1>1, <2>1, <2>2, CloseStays, CloseAtInsert
<1>4. ASSUME NEW p \in Procs, Crash(p) PROVE Close'
  BY <1>1, <1>4, CrashIs, CloseStays DEF FileMoves
<1>5. CASE UNCHANGED <<db, ext, witnessed, local, hurts>>
  BY <1>1, <1>5, CloseStays DEF FileMoves, db
<1>6. QED
  BY <1>1, <1>2, <1>3, <1>4, <1>5

-----------------------------------------------------------------------------
(* The gate of a sealed store.                                             *)

\* What a sound, sealed store looks like.
LEMMA SealedIs ==
  ASSUME Inv, Healthy, Sound, PriorInstall
  PROVE  /\ rows \in Chain /\ rows # <<>> /\ meta = rows /\ ext \in Chain
         /\ ext = rows \/ OneBehind(ext)
         /\ ext # Absent /\ ext # Unreadable /\ ~jammed
<1>1. rows \in Chain /\ rows # <<>> /\ meta = rows /\ (ext = rows \/ OneBehind(ext))
  BY DEF Healthy, Close, Inv, TypeOK
<1>2. ext \in Chain /\ ext # Absent /\ ext # Unreadable
  BY <1>1, BehindIs, Special DEF Inv
<1>3. ~jammed
  BY DEF Healthy, NoJam, Sound
<1>4. QED
  BY <1>1, <1>2, <1>3

\* Whoever is not the gate neither becomes it in the middle of a command, nor
\* reports what only the gate reports.
LEMMA VerdictRefuses ==
  ASSUME TypeOK, NEW p \in Procs, NEW ok \in BOOLEAN, Verdict(p, ok), mode[p] # "gate" \/ ok
  PROVE  /\ outcome'[p] = outcome[p] \/ outcome'[p] # "refused"
         /\ mode[p] # "gate" => mode'[p] # "gate"
         /\ mode[p] = "gate" => pc'[p] = "insert"
<1>1. CASE mode[p] = "gate" /\ ok /\ Turn(p, "insert", "gate", 0) /\ UNCHANGED <<outcome, entry>>
  BY <1>1, TurnIs
<1>2. CASE mode[p] = "seal receipt" /\ Turn(p, "confirm", "seal", 0)
           /\ UNCHANGED <<outcome, entry>>
  <2>1. mode'[p] = "seal" /\ outcome' = outcome
    BY <1>2, TurnIs
  <2>2. QED
    BY <1>2, <2>1
<1>3. CASE ok /\ mode[p] \in DOMAIN Good /\ Report(p, Good[mode[p]])
  BY <1>3, TurnIs DEF Report, Good, TypeOK
<1>4. CASE ~ok /\ mode[p] \in DOMAIN Bad /\ Report(p, Bad[mode[p]])
  BY <1>4, TurnIs DEF Report, Bad, TypeOK
<1>5. QED
  BY <1>1, <1>2, <1>3, <1>4 DEF Verdict

LEMMA OthersVerify ==
  ASSUME Inv, NEW p \in Procs, mode[p] # "gate", VerifyPass(p)
  PROVE  mode'[p] # "gate" /\ (outcome'[p] = outcome[p] \/ outcome'[p] # "refused")
<1>1. TypeOK
  BY DEF Inv
<1>2. CASE Pass(p) \/ Fail(p)
  BY <1>1, <1>2, VerdictRefuses DEF Pass, Fail
<1>3. CASE /\ Turn(p, "version", mode[p], attempt[p] + 1)
           /\ UNCHANGED <<db, files, hurts, outcome, entry, vouched>>
  BY <1>1, <1>3, TurnIs
<1>4. CASE UNCHANGED <<mode, outcome>>
  BY <1>4
<1>5. CASE ReadVersion(p) \/ ReadRows(p) \/ ReadMeta(p) \/ ReadFile(p)
  BY <1>2, <1>3, <1>4, <1>5 DEF ReadVersion, ReadRows, ReadMeta, ReadFile, Learn, Unsettled
<1>6. CASE ReadVersionAgain(p)
  BY <1>2, <1>3, <1>4, <1>6 DEF ReadVersionAgain, Continue, Unsettled
<1>7. CASE Heal(p) \/ HealThrew(p)
  BY <1>2, <1>3, <1>4, <1>7 DEF Heal, HealThrew, Continue, Unsettled
<1>8. CASE ReadBack(p) \/ ReadCommitted(p)
  BY <1>2, <1>3, <1>4, <1>8 DEF ReadBack, ReadCommitted, Learn, Unsettled
<1>9. QED
  BY <1>5, <1>6, <1>7, <1>8 DEF VerifyPass

LEMMA MirrorsRefuseNothing ==
  ASSUME Inv, NEW p \in Procs, MirrorAndConfirm(p)
  PROVE  mode'[p] # "gate" /\ (outcome'[p] = outcome[p] \/ outcome'[p] # "refused")
<1>1. TypeOK /\ mode[p] = "receipt"
  BY InvFacts DEF MirrorAndConfirm, MirrorMeta, MirrorFile, MirrorGuards, MirrorSwap, ConfirmMeta,
                  ConfirmFile, Stage, MirrorSteps, VerifySteps
<1>2. CASE Pass(p)
  BY <1>1, <1>2, VerdictRefuses DEF Pass
<1>3. CASE AskVerify(p)
  BY <1>1, <1>3, TurnIs DEF AskVerify, StartVerify, TypeOK
<1>4. CASE UNCHANGED <<mode, outcome>>
  BY <1>1, <1>4
<1>5. QED
  BY <1>2, <1>3, <1>4 DEF MirrorAndConfirm, MirrorMeta, MirrorFile, MirrorGuards, MirrorSwap,
     ConfirmMeta, ConfirmFile, Learn, Continue

\* In a sound, sealed store every step of the gate leads on to its verdict.
LEMMA GateSteps ==
  ASSUME Inv, Inv', Healthy, Sound, PriorInstall, NEW p \in Procs, mode[p] = "gate", VerifyPass(p)
  PROVE  GateGoesOn(p)' /\ (outcome'[p] = outcome[p] \/ outcome'[p] # "refused")
<1>1. /\ TypeOK /\ Stage(p) /\ KnowsRows(p) /\ GateGoesOn(p)
  BY InvFacts DEF Healthy
<1>2. /\ rows \in Chain /\ rows # <<>> /\ meta = rows /\ ext \in Chain
      /\ ext = rows \/ OneBehind(ext)
      /\ ext # Absent /\ ext # Unreadable /\ ~jammed
  BY SealedIs
<1>3. /\ pc[p] \notin {"heal threw", "committed"}
      /\ pc[p] \in {"rows", "meta"} => seen[p].version = meta
      /\ pc[p] \in {"file", "version again", "heal", "read back"} => seen[p].meta = rows
      /\ pc[p] \in {"version again", "heal"} =>
           /\ seen[p].ext = rows \/ (seen[p].ext # Absent /\ OneBehind(seen[p].ext))
           /\ ext \in {seen[p].ext, rows}
      /\ pc[p] = "read back" => ext = rows
  BY <1>1 DEF GateGoesOn
<1>4. seen[p] \in [version : Chain \cup {Absent}, rows : Chain,
                   meta : Chain \cup {Absent}, ext : Chain \cup {Absent, Forged}]
  BY <1>1 DEF TypeOK
<1>5. ASSUME Pass(p) PROVE GateGoesOn(p)' /\ (outcome'[p] = outcome[p] \/ outcome'[p] # "refused")
  <2>1. pc'[p] = "insert" /\ (outcome'[p] = outcome[p] \/ outcome'[p] # "refused")
    BY <1>1, <1>5, VerdictRefuses DEF Pass
  <2>2. QED
    BY <2>1 DEF GateGoesOn
<1>6. CASE ReadVersion(p)
  <2>1. Learn(p, "version", meta, "rows")
    BY <1>6 DEF ReadVersion
  <2>2. /\ pc'[p] = "rows" /\ seen'[p] = [seen[p] EXCEPT !["version"] = meta]
        /\ UNCHANGED <<rows, meta, ext, mode, outcome, start>>
    BY <2>1, Learned
  <2>3. seen'[p].version = meta
    BY <1>4, <2>2
  <2>4. QED
    BY <2>2, <2>3 DEF GateGoesOn
<1>7. CASE ReadRows(p)
  <2>1. Learn(p, "rows", rows, "meta") /\ pc[p] = "rows"
    BY <1>7 DEF ReadRows
  <2>2. /\ pc'[p] = "meta" /\ seen'[p] = [seen[p] EXCEPT !["rows"] = rows]
        /\ UNCHANGED <<rows, meta, ext, mode, outcome, start>>
    BY <2>1, Learned
  <2>3. seen'[p].version = meta
    BY <1>3, <1>4, <2>1, <2>2
  <2>4. QED
    BY <2>2, <2>3 DEF GateGoesOn
<1>8. CASE ReadMeta(p)
  <2>1. Learn(p, "meta", meta, "file") /\ pc[p] = "meta"
    BY <1>3, <1>8 DEF ReadMeta
  <2>2. /\ pc'[p] = "file" /\ seen'[p] = [seen[p] EXCEPT !["meta"] = meta]
        /\ UNCHANGED <<rows, meta, ext, mode, outcome, start>>
    BY <2>1, Learned
  <2>3. seen'[p].meta = rows
    BY <1>2, <1>4, <2>2
  <2>4. QED
    BY <2>2, <2>3 DEF GateGoesOn
<1>9. CASE ReadFile(p)
  <2>1. Learn(p, "ext", ext, "version again") /\ pc[p] = "file"
    BY <1>2, <1>9 DEF ReadFile
  <2>2. /\ pc'[p] = "version again" /\ seen'[p] = [seen[p] EXCEPT !["ext"] = ext]
        /\ UNCHANGED <<rows, meta, ext, mode, outcome, start>>
    BY <2>1, Learned
  <2>3. seen'[p].ext = ext /\ seen'[p].meta = rows
    BY <1>3, <1>4, <2>1, <2>2
  <2>4. ext = rows \/ (ext # Absent /\ OneBehind(ext)')
    BY <1>2, <2>2 DEF OneBehind, PriorInstall
  <2>5. OneBehind(ext)' <=> OneBehind(seen[p].ext)'
    BY <2>2, <2>3 DEF OneBehind, PriorInstall
  <2>6. QED
    BY <2>2, <2>3, <2>4, <2>5 DEF GateGoesOn
<1>10. CASE ReadVersionAgain(p)
  <2>1. /\ pc[p] = "version again" /\ seen[p].meta = rows /\ seen[p].rows = rows
        /\ seen[p].ext = rows \/ (seen[p].ext # Absent /\ OneBehind(seen[p].ext))
        /\ ext \in {seen[p].ext, rows}
    BY <1>1, <1>3, <1>10 DEF ReadVersionAgain, KnowsRows, Informed
  <2>2. Live(p)
    BY <1>2, <2>1 DEF Live
  <2>3. Matches(p) \/ (Behind(p) /\ MayHeal(p))
    <3>1. CASE seen[p].ext = rows
      BY <2>1, <2>2, <3>1 DEF Matches
    <3>2. CASE seen[p].ext # Absent /\ OneBehind(seen[p].ext)
      BY <1>1, <2>1, <3>2, BehindIs DEF Behind, MayHeal
    <3>3. QED
      BY <2>1, <3>1, <3>2
  <2>4. Pass(p) \/ Continue(p, "heal")
    BY <1>2, <1>10, <2>1, <2>2, <2>3 DEF ReadVersionAgain
  <2>5. CASE Continue(p, "heal")
    <3>1. /\ pc'[p] = "heal" /\ UNCHANGED <<rows, meta, ext, outcome, start>> /\ seen' = seen
      BY <2>5, ContinueIs DEF Continue, hurts
    <3>2. seen'[p].meta = rows /\ seen'[p].ext = seen[p].ext
      BY <2>1, <3>1
    <3>3. OneBehind(seen[p].ext)' <=> OneBehind(seen[p].ext)
      BY <3>1 DEF OneBehind, PriorInstall
    <3>4. QED
      BY <2>1, <3>1, <3>2, <3>3 DEF GateGoesOn
  <2>6. QED
    BY <1>5, <2>4, <2>5
<1>11. CASE Heal(p)
  <2>1. pc[p] = "heal" /\ ext \in {seen[p].ext, seen[p].meta} /\ seen[p].meta = rows /\ ~SwapThrows
    BY <1>2, <1>3, <1>11 DEF Heal, SwapThrows
  <2>2. /\ Swap(seen[p].meta) /\ Goto(p, "read back")
        /\ UNCHANGED <<db, hurts, mode, seen, attempt, outcome, entry, vouched>>
    BY <1>11, <2>1 DEF Heal
  <2>3. pc'[p] = "read back" /\ ext' = rows /\ rows' = rows /\ seen' = seen /\ outcome' = outcome
    BY <1>1, <2>1, <2>2 DEF Swap, Goto, db, TypeOK
  <2>4. QED
    BY <2>1, <2>3 DEF GateGoesOn
<1>12. CASE ReadBack(p)
  <2>1. Pass(p)
    BY <1>3, <1>12 DEF ReadBack
  <2>2. QED
    BY <1>5, <2>1
<1>13. CASE HealThrew(p) \/ ReadCommitted(p)
  BY <1>3, <1>13 DEF HealThrew, ReadCommitted
<1>14. QED
  BY <1>6, <1>7, <1>8, <1>9, <1>10, <1>11, <1>12, <1>13 DEF VerifyPass

LEMMA OthersGoOn ==
  ASSUME Inv, Healthy, Sound, NEW q \in Procs, GateGoesOn(q),
         pc'[q] = pc[q], mode'[q] = mode[q], seen'[q] = seen[q],
         UNCHANGED <<rows, meta, start>>, FileMoves
  PROVE  GateGoesOn(q)'
<1>1. SUFFICES ASSUME PriorInstall, mode[q] = "gate" PROVE GateGoesOn(q)'
  BY DEF GateGoesOn, PriorInstall
<1>2. ext' = ext \/ ext' = rows
  BY CloseMoves DEF Healthy
<1>3. OneBehind(seen[q].ext)' <=> OneBehind(seen[q].ext)
  BY DEF OneBehind, PriorInstall
<1>4. /\ pc[q] \notin {"heal threw", "committed"}
      /\ pc[q] \in {"rows", "meta"} => seen[q].version = meta
      /\ pc[q] \in {"file", "version again", "heal", "read back"} => seen[q].meta = rows
      /\ pc[q] \in {"version again", "heal"} =>
           /\ seen[q].ext = rows \/ (seen[q].ext # Absent /\ OneBehind(seen[q].ext))
           /\ ext \in {seen[q].ext, rows}
      /\ pc[q] = "read back" => ext = rows
  BY <1>1 DEF GateGoesOn
<1>5. QED
  BY <1>2, <1>3, <1>4 DEF GateGoesOn

\* What a step of p makes of p as the gate, and of its report.
LEMMA OwnGateStep ==
  ASSUME "reseal" \notin Commands, Inv, Inv', Healthy, Sound, NEW p \in Procs, OwnStep(p)
  PROVE  /\ GateGoesOn(p)'
         /\ PriorInstall => outcome'[p] = outcome[p] \/ outcome'[p] # "refused"
<1>1. TypeOK /\ start' = start
  BY OwnSteps DEF Inv, hurts
<1>2. CASE AppendBegin(p) \/ VerifyCommand(p)
  <2>1. pc'[p] = "version" /\ outcome'[p] = "none"
    BY <1>1, <1>2, TurnIs DEF AppendBegin, VerifyCommand, StartVerify, TypeOK
  <2>2. QED
    BY <2>1 DEF GateGoesOn
<1>3. CASE Insert(p)
  <2>1. mode'[p] = "receipt" /\ outcome'[p] = "none"
    BY <1>1, <1>3, TurnIs DEF Insert, Commit, TypeOK
  <2>2. QED
    BY <2>1 DEF GateGoesOn
<1>4. CASE MirrorAndConfirm(p)
  BY <1>4, MirrorsRefuseNothing DEF GateGoesOn
<1>5. CASE VerifyPass(p) /\ mode[p] # "gate"
  BY <1>5, OthersVerify DEF GateGoesOn
<1>6. CASE VerifyPass(p) /\ mode[p] = "gate" /\ PriorInstall
  BY <1>6, GateSteps
<1>7. CASE ~PriorInstall
  <2>1. ~PriorInstall'
    BY <1>1, <1>7 DEF PriorInstall
  <2>2. QED
    BY <1>7, <2>1 DEF GateGoesOn
<1>8. QED
  BY <1>2, <1>3, <1>4, <1>5, <1>6, <1>7 DEF OwnStep, Step

LEMMA StepKeepsGates ==
  ASSUME "reseal" \notin Commands, Inv, Inv', Healthy, [Next]_vars
  PROVE  NeverRefused' /\ \A q \in Procs : GateGoesOn(q)'
<1>1. /\ (Sound' => Sound) /\ start' = start
      /\ Sound' => \/ \E p \in Procs : OwnStep(p)
                   \/ \E p \in Procs : Crash(p)
                   \/ UNCHANGED <<db, ext, witnessed, local, hurts>>
  BY SoundSteps DEF Healthy
<1>2. (PriorInstall' <=> PriorInstall)
  BY <1>1 DEF PriorInstall
<1>3. SUFFICES ASSUME Sound'
               PROVE  /\ PriorInstall => \A q \in Procs : outcome'[q] # "refused"
                      /\ \A q \in Procs : GateGoesOn(q)'
  BY <1>2 DEF NeverRefused, GateGoesOn
<1>4. /\ Sound /\ \A q \in Procs : GateGoesOn(q)
      /\ PriorInstall => \A q \in Procs : outcome[q] # "refused"
  BY <1>1, <1>3 DEF Healthy, NeverRefused
<1>5. ASSUME NEW p \in Procs, OwnStep(p), NEW q \in Procs
      PROVE  /\ PriorInstall => outcome'[q] # "refused"
             /\ GateGoesOn(q)'
  <2>1. /\ Only(p) /\ \A r \in Procs : r # p => outcome'[r] = outcome[r]
        /\ Insert(p) \/ UNCHANGED <<rows, meta>>
        /\ faults' = faults
    BY <1>5, OwnSteps DEF Inv, db, hurts
  <2>2. CASE q = p
    BY <1>4, <1>5, <2>2, OwnGateStep
  <2>3. CASE q # p /\ Insert(p)
    <3>1. mode[p] = "gate"
      BY <2>3, InvFacts DEF Insert, Stage, MirrorSteps, VerifySteps
    <3>2. mode'[q] # "gate"
      BY <2>1, <2>3, <3>1 DEF Only, Inv, Journal, OneWriter
    <3>3. QED
      BY <1>4, <2>1, <2>3, <3>2 DEF GateGoesOn
  <2>4. CASE q # p /\ UNCHANGED <<rows, meta>>
    <3>1. FileMoves
      BY <2>1, ProgramMoves
    <3>2. pc'[q] = pc[q] /\ mode'[q] = mode[q] /\ seen'[q] = seen[q] /\ outcome'[q] = outcome[q]
      BY <2>1, <2>4 DEF Only
    <3>3. QED
      BY <1>1, <1>4, <2>4, <3>1, <3>2, OthersGoOn
  <2>5. QED
    BY <2>1, <2>2, <2>3, <2>4
<1>6. ASSUME NEW p \in Procs, Crash(p), NEW q \in Procs
      PROVE  /\ PriorInstall => outcome'[q] # "refused"
             /\ GateGoesOn(q)'
  <2>1. /\ UNCHANGED <<rows, meta, ext, witnessed>> /\ Only(p)
        /\ mode'[p] = "none" /\ outcome'[p] = "none"
        /\ \A r \in Procs : r # p => outcome'[r] = outcome[r]
    BY <1>6, CrashIs
  <2>2. CASE q = p
    BY <2>1, <2>2 DEF GateGoesOn
  <2>3. CASE q # p
    <3>1. pc'[q] = pc[q] /\ mode'[q] = mode[q] /\ seen'[q] = seen[q] /\ outcome'[q] = outcome[q]
      BY <2>1, <2>3 DEF Only
    <3>2. QED
      BY <1>1, <1>4, <2>1, <3>1, OthersGoOn DEF FileMoves
  <2>4. QED
    BY <2>2, <2>3
<1>7. ASSUME UNCHANGED <<db, ext, witnessed, local, hurts>>, NEW q \in Procs
      PROVE  /\ PriorInstall => outcome'[q] # "refused"
             /\ GateGoesOn(q)'
  <2>1. UNCHANGED <<rows, meta, ext, witnessed, pc, mode, seen, outcome>>
    BY <1>7 DEF db, local
  <2>2. QED
    BY <1>1, <1>4, <2>1, OthersGoOn DEF FileMoves
<1>8. QED
  BY <1>1, <1>3, <1>5, <1>6, <1>7

-----------------------------------------------------------------------------
(* The mirror that makes up for the lag.                                   *)

LEMMA MirrorGoesOn ==
  ASSUME "reseal" \notin Commands, Inv, Healthy, hurt = {}, OneBehind(ext),
         NEW p \in Procs, WillMirror(p), OwnStep(p), ext' = ext, UNCHANGED <<rows, meta>>
  PROVE  WillMirror(p)'
<1>1. /\ TypeOK /\ KnowsRows(p) /\ mode[p] = "receipt" /\ ~Forced(p)
      /\ pc[p] \in {"mirror", "mirror file", "guards", "swap"}
  BY InvFacts DEF WillMirror, Forced
<1>2. /\ rows # <<>> /\ meta = rows /\ Authentic(meta) /\ ext # rows /\ ext # Unreadable
      /\ ext = Absent \/ (Authentic(ext) /\ IsPrefix(ext, rows))
      /\ ~jammed
  <2>1. Sound /\ ~jammed
    BY DEF Sound, Healthy, NoJam
  <2>2. /\ rows # <<>> /\ ext # rows /\ ext # Unreadable
        /\ ext = Absent \/ (Authentic(ext) /\ IsPrefix(ext, rows))
    BY <1>1, BehindIs DEF IsStrictPrefix
  <2>3. meta = rows
    BY <2>1, <2>2 DEF Healthy, Close
  <2>4. Authentic(meta)
    BY <1>1, <2>3, Special DEF TypeOK
  <2>5. QED
    BY <2>1, <2>2, <2>3, <2>4
<1>3. seen[p] \in [version : Chain \cup {Absent}, rows : Chain,
                   meta : Chain \cup {Absent}, ext : Chain \cup {Absent, Forged}]
  BY <1>1 DEF TypeOK
<1>4. MirrorMeta(p) \/ MirrorFile(p) \/ MirrorGuards(p) \/ MirrorSwap(p)
  BY <1>1 DEF OwnStep, AppendBegin, VerifyCommand, Step, Insert, VerifyPass, ReadVersion, ReadRows,
     ReadMeta, ReadFile, ReadVersionAgain, Heal, HealThrew, ReadBack, ReadCommitted,
     MirrorAndConfirm, ConfirmMeta, ConfirmFile
<1>5. CASE MirrorMeta(p)
  <2>1. Learn(p, "meta", meta, "mirror file")
    BY <1>2, <1>5 DEF MirrorMeta
  <2>2. /\ pc'[p] = "mirror file" /\ seen'[p] = [seen[p] EXCEPT !["meta"] = meta]
        /\ UNCHANGED <<rows, meta, ext, mode, outcome, start>>
    BY <2>1, Learned
  <2>3. seen'[p].meta = rows'
    BY <1>2, <1>3, <2>2
  <2>4. QED
    BY <1>1, <2>2, <2>3 DEF WillMirror
<1>6. CASE MirrorFile(p)
  <2>1. seen[p].meta = rows
    BY <1>6 DEF MirrorFile, WillMirror
  <2>2. Learn(p, "ext", ext, "guards")
    BY <1>1, <1>2, <1>6, <2>1 DEF MirrorFile
  <2>3. /\ pc'[p] = "guards" /\ seen'[p] = [seen[p] EXCEPT !["ext"] = ext]
        /\ UNCHANGED <<rows, meta, ext, mode, outcome, start>>
    BY <2>2, Learned
  <2>4. seen'[p].meta = rows' /\ seen'[p].ext = ext'
    BY <1>3, <2>1, <2>3
  <2>5. QED
    BY <1>1, <2>3, <2>4 DEF WillMirror
<1>7. CASE MirrorGuards(p)
  <2>1. seen[p].meta = rows /\ seen[p].ext = ext
    BY <1>7 DEF MirrorGuards, WillMirror
  <2>2. Continue(p, "swap")
    BY <1>2, <1>7, <2>1 DEF MirrorGuards
  <2>3. pc'[p] = "swap" /\ seen' = seen /\ mode' = mode
    BY <2>2, ContinueIs
  <2>4. QED
    BY <1>1, <2>1, <2>3 DEF WillMirror
<1>8. CASE MirrorSwap(p)
  <2>1. seen[p].meta = rows /\ seen[p].ext = ext
    BY <1>8 DEF MirrorSwap, WillMirror
  <2>2. Swap(seen[p].meta)
    BY <1>2, <1>8, <2>1 DEF MirrorSwap, SwapThrows
  <2>3. FALSE
    BY <1>2, <2>1, <2>2 DEF Swap
  <2>4. QED
    BY <2>3
<1>9. QED
  BY <1>4, <1>5, <1>6, <1>7, <1>8

LEMMA StepKeepsMirror ==
  ASSUME "reseal" \notin Commands, Inv, Inv', Healthy, [Next]_vars
  PROVE  LastMirrors'
<1>1. SUFFICES ASSUME hurt' = {}, OneBehind(ext)'
               PROVE  \E p \in Procs : WillMirror(p)'
  BY DEF LastMirrors
<1>2. Sound'
  BY <1>1 DEF Sound
<1>3. /\ Sound /\ hurt = {} /\ start' = start
      /\ \/ \E p \in Procs : OwnStep(p)
         \/ \E p \in Procs : Crash(p)
         \/ UNCHANGED <<db, ext, witnessed, local, hurts>>
  BY <1>1, <1>2, SoundSteps DEF Healthy
<1>4. ASSUME NEW p \in Procs, Insert(p) PROVE WillMirror(p)'
  <2>1. pc'[p] = "mirror" /\ mode'[p] = "receipt"
    BY <1>4, TurnIs DEF Insert, Commit, Inv
  <2>2. QED
    BY <2>1 DEF WillMirror
\* The file still lags, and with the same checkpoint.
<1>5. ASSUME FileMoves, UNCHANGED <<rows, meta>>
      PROVE  ext' = ext /\ OneBehind(ext) /\ \E q \in Procs : WillMirror(q)
  <2>1. ext' = ext \/ ext' = rows
    BY <1>3, <1>5, CloseMoves DEF Healthy
  <2>2. ASSUME ext' = rows PROVE FALSE
    <3>1. OneBehind(rows)
      BY <1>1, <1>3, <1>5, <2>2 DEF OneBehind, PriorInstall
    <3>2. QED
      BY <3>1, BehindIs DEF Inv
  <2>3. ext' = ext
    BY <2>1, <2>2
  <2>4. OneBehind(ext)
    BY <1>1, <1>3, <1>5, <2>3 DEF OneBehind, PriorInstall
  <2>5. QED
    BY <1>3, <2>3, <2>4 DEF Healthy, LastMirrors
<1>6. ASSUME NEW p \in Procs, OwnStep(p), ~Insert(p) PROVE \E q \in Procs : WillMirror(q)'
  <2>1. Only(p) /\ UNCHANGED <<rows, meta>> /\ faults' = faults
    BY <1>6, OwnSteps DEF Inv, db, hurts
  <2>2. FileMoves
    BY <2>1, ProgramMoves
  <2>3. ext' = ext /\ OneBehind(ext) /\ \E q \in Procs : WillMirror(q)
    BY <1>5, <2>1, <2>2
  <2>4. PICK q \in Procs : WillMirror(q)
    BY <2>3
  <2>5. CASE q = p
    BY <1>3, <1>6, <2>1, <2>3, <2>4, <2>5, MirrorGoesOn
  <2>6. CASE q # p
    <3>1. pc'[q] = pc[q] /\ mode'[q] = mode[q] /\ seen'[q] = seen[q]
      BY <2>1, <2>6 DEF Only
    <3>2. WillMirror(q)'
      BY <2>1, <2>3, <2>4, <3>1 DEF WillMirror
    <3>3. QED
      BY <3>2
  <2>7. QED
    BY <2>5, <2>6
<1>7. ASSUME NEW p \in Procs, Crash(p) PROVE FALSE
  BY <1>1, <1>7 DEF Crash, Fault
<1>8. CASE UNCHANGED <<db, ext, witnessed, local, hurts>>
  <2>1. UNCHANGED <<rows, meta, ext, witnessed, pc, mode, seen>>
    BY <1>8 DEF db, local
  <2>2. PICK q \in Procs : WillMirror(q)
    BY <1>5, <2>1 DEF FileMoves
  <2>3. WillMirror(q)'
    BY <2>1, <2>2 DEF WillMirror
  <2>4. QED
    BY <2>3
<1>9. QED
  BY <1>3, <1>4, <1>6, <1>7, <1>8

LEMMA HealthyInit == Init => Healthy
<1> SUFFICES ASSUME Init PROVE Healthy
  OBVIOUS
<1>1. Inv
  BY InvInit
<1>2. NoJam /\ NeverRefused /\ \A p \in Procs : GateGoesOn(p)
  BY DEF Init, NoJam, NeverRefused, GateGoesOn
<1>3. CASE PriorInstall
  <2>1. rows = <<1>> /\ meta = rows /\ ext = rows /\ rows # <<>>
    BY <1>3 DEF Init, FirstRows
  <2>2. ~OneBehind(ext)
    BY <1>1, <2>1, BehindIs DEF Inv
  <2>3. QED
    BY <1>2, <2>1, <2>2 DEF Healthy, Close, LastMirrors
<1>4. CASE ~PriorInstall
  <2>1. rows = <<>> /\ meta = Absent /\ ext = Absent
    BY <1>4 DEF Init, FirstRows
  <2>2. ~OneBehind(ext)
    BY <1>1, <2>1, BehindIs DEF Inv
  <2>3. QED
    BY <1>2, <1>4, <2>1, <2>2 DEF Healthy, Close, LastMirrors
<1>5. QED
  BY <1>3, <1>4

LEMMA HealthyAlways ==
  ASSUME "reseal" \notin Commands
  PROVE  Spec => [](Inv /\ Healthy)
<1>1. Inv /\ Inv' /\ Healthy /\ [Next]_vars => Healthy'
  BY SoundSteps, StepKeepsClose, StepKeepsGates, StepKeepsMirror DEF Healthy
<1>2. QED
  BY <1>1, InvAlways, HealthyInit, PTL DEF Spec

\* However many processes append and verify, and wherever any of them dies, the
\* gate of a sealed store never refuses an entry: it makes up for whatever lag
\* the others left.
THEOREM HealthyAppendsGoThrough ==
  ASSUME "reseal" \notin Commands
  PROVE  Spec => []HealthyAppendNeverRefused
<1>1. Healthy => HealthyAppendNeverRefused
  BY DEF Healthy, NeverRefused, Sound, PriorInstall, HealthyAppendNeverRefused
<1>2. QED
  BY <1>1, HealthyAlways, PTL

\* With nothing broken, no interleaving of mirrors and heals leaves the file
\* behind: once every command has returned it holds the journal's checkpoint.
THEOREM RestIsAnchored ==
  ASSUME "reseal" \notin Commands
  PROVE  Spec => []QuietIsAnchored
<1>1. Inv /\ Healthy => QuietIsAnchored
  <2>1. SUFFICES ASSUME Inv, Healthy, hurt = {}, \A p \in Procs : pc[p] = "idle"
                 PROVE  ext = meta
    BY DEF QuietIsAnchored
  <2>2. ~OneBehind(ext)
    BY <2>1 DEF Healthy, LastMirrors, WillMirror
  <2>3. QED
    BY <2>1, <2>2 DEF Healthy, Close, Sound
<1>2. QED
  BY <1>1, HealthyAlways, PTL

-----------------------------------------------------------------------------
(* No lag is silent, whatever the commands, reseals included.              *)

\* Where the file is behind, p will look again, or has said so: it is still to
\* confirm, or to read what has changed, or what it has read is what there is.
Answers(p) ==
  \/ pc[p] \in {"insert", "confirm", "version", "rows", "meta", "file", "committed"} \cup MirrorSteps
  \/ pc[p] = "confirm file" /\ (seen[p].meta = meta \/ mode[p] = "seal receipt")
  \/ pc[p] = "version again" /\ seen[p].ext # meta
  \/ pc[p] \in {"heal", "heal threw", "read back"} /\ seen[p].meta = meta
  \/ pc[p] = "idle" /\ outcome[p] \in {Bad[m] : m \in DOMAIN Bad}

\* The checkpoint c continues e, and is still there.
Grows(e, c) == Extends(e, c) /\ (e # Absent => c # Absent)

\* A heal moves the file along a chain the checkpoint commits to.
HealsAlong(p) ==
  /\ pc[p] \in {"file", "version again", "heal"} => Grows(seen[p].meta, meta)
  /\ pc[p] = "heal" => seen[p].ext = Absent \/ IsStrictPrefix(seen[p].ext, seen[p].meta)

AtMostJammed == hurt \subseteq {"jam"}

Told ==
  /\ Typed /\ CheckpointOfRows
  /\ AtMostJammed => \A p \in Procs : HealsAlong(p)
  /\ AtMostJammed => ext = meta \/ \E p \in Procs : Answers(p)

\* Nobody but p moves, and p is where it may be.
Alone(p) ==
  /\ Only(p) /\ \A q \in Procs : q # p => outcome'[q] = outcome[q]
  /\ LocalsTyped' /\ SharedTyped'
  /\ UNCHANGED hurts

LEMMA OthersPlaced ==
  ASSUME Typed, NEW p \in Procs, Only(p), minted' = minted \/ mode[p] = "gate" \/ WriterFree,
         NEW q \in Procs, q # p
  PROVE  Placed(q)'
<1>1. /\ pc'[q] = pc[q] /\ mode'[q] = mode[q] /\ seen'[q] = seen[q] /\ entry'[q] = entry[q]
      /\ Placed(q)
  BY DEF Only, Typed
<1>2. mode[q] = "gate" => minted' = minted
  BY DEF Typed, OneWriter, WriterFree
<1>3. QED
  BY <1>1, <1>2 DEF Placed, Live

LEMMA TypedIf ==
  ASSUME Typed, NEW p \in Procs, Only(p), LocalsTyped', SharedTyped', Placed(p)',
         minted' = minted \/ mode[p] = "gate" \/ WriterFree,
         mode'[p] = "gate" => mode[p] = "gate" \/ WriterFree
  PROVE  Typed'
<1>1. \A q \in Procs : Placed(q)'
  BY OthersPlaced
<1>2. OneWriter'
  <2>1. \A q \in Procs : q # p => mode'[q] = mode[q]
    BY DEF Only
  <2>2. QED
    BY <2>1 DEF OneWriter, Typed, WriterFree
<1>3. TypeOK'
  <2>1. TypeOK' <=> LocalsTyped' /\ SharedTyped'
    BY TypeParts, PTL
  <2>2. QED
    BY <2>1
<1>4. QED
  BY <1>1, <1>2, <1>3 DEF Typed

\* A step of p that leaves the checkpoint and the file as they are.
LEMMA ToldIf ==
  ASSUME Told, NEW p \in Procs, Alone(p), Placed(p)', UNCHANGED <<rows, meta, minted, ext>>,
         mode'[p] = "gate" => mode[p] = "gate" \/ WriterFree,
         AtMostJammed => HealsAlong(p)',
         AtMostJammed => ext = meta \/ ~Answers(p) \/ Answers(p)'
  PROVE  Told'
<1>1. Typed'
  BY TypedIf DEF Told, Alone
<1>2. CheckpointOfRows'
  BY DEF Told, CheckpointOfRows
<1>3. SUFFICES ASSUME AtMostJammed'
               PROVE  /\ \A q \in Procs : HealsAlong(q)'
                      /\ ext' = meta' \/ \E q \in Procs : Answers(q)'
  BY <1>1, <1>2 DEF Told
<1>4. AtMostJammed
  BY <1>3 DEF AtMostJammed, Alone, hurts
<1>5. ASSUME NEW q \in Procs, q # p
      PROVE  (HealsAlong(q) => HealsAlong(q)') /\ (Answers(q) => Answers(q)')
  <2>1. /\ pc'[q] = pc[q] /\ mode'[q] = mode[q] /\ seen'[q] = seen[q]
        /\ outcome'[q] = outcome[q]
    BY <1>5 DEF Alone, Only
  <2>2. QED
    BY <2>1 DEF HealsAlong, Answers, Grows, Extends, Authentic
<1>6. \A q \in Procs : HealsAlong(q)'
  BY <1>4, <1>5 DEF Told
<1>7. ext' = meta' \/ \E q \in Procs : Answers(q)'
  BY <1>4, <1>5 DEF Told
<1>8. QED
  BY <1>6, <1>7

\* A process that starts again, or goes on where nothing it read matters.
LEMMA AfreshIsTold ==
  ASSUME Told, NEW p \in Procs, NEW next, NEW why, NEW pass, Turn(p, next, why, pass),
         \/ next = "version" /\ why \in Modes \ {"none"}
         \/ next = "insert" /\ why = "gate"
         \/ next = "confirm" /\ why = "seal",
         why = "gate" => minted < MaxEntries /\ (mode[p] = "gate" \/ WriterFree),
         why \in {"receipt", "seal receipt"} => mode[p] = why,
         UNCHANGED <<db, files, hurts, entry>>, LocalsTyped',
         \A q \in Procs : q # p => outcome'[q] = outcome[q]
  PROVE  Told'
<1>1. Typed /\ TypeOK /\ Placed(p)
  BY DEF Told, Typed
<1>2. /\ pc'[p] = next /\ mode'[p] = why /\ seen'[p] = Nothing
      /\ UNCHANGED <<rows, meta, minted, ext>>
  BY <1>1, TurnIs DEF db, files
<1>3. Alone(p)
  <2>1. Only(p)
    BY <1>1, TurnOnly
  <2>2. SharedTyped'
    BY <1>1, SharedStays
  <2>3. QED
    BY <2>1, <2>2 DEF Alone
<1>4. Placed(p)'
  BY <1>1, <1>2 DEF Placed, VerifySteps
<1>5. Answers(p)' /\ HealsAlong(p)'
  BY <1>2 DEF Answers, HealsAlong
<1>6. QED
  BY <1>2, <1>3, <1>4, <1>5, ToldIf

LEMMA ReportIsTold ==
  ASSUME Told, NEW p \in Procs, NEW what, Report(p, what), UNCHANGED <<db, files, hurts>>,
         LocalsTyped',
         AtMostJammed => \/ ext = meta \/ ~Answers(p)
                         \/ what \in {Bad[m] : m \in DOMAIN Bad}
  PROVE  Told'
<1>1. Typed /\ TypeOK
  BY DEF Told, Typed
<1>2. /\ pc'[p] = "idle" /\ mode'[p] = "none" /\ outcome'[p] = what
      /\ UNCHANGED <<rows, meta, minted, ext>>
  BY <1>1, TurnIs DEF Report, db, files, TypeOK
<1>3. Alone(p)
  <2>1. \A q \in Procs : q # p => entry'[q] = entry[q] /\ outcome'[q] = outcome[q]
    BY <1>1 DEF Report, TypeOK
  <2>2. Only(p)
    BY <1>1, <2>1, TurnOnly DEF Report
  <2>3. SharedTyped'
    BY <1>1, SharedStays
  <2>4. QED
    BY <2>1, <2>2, <2>3 DEF Alone
<1>4. Placed(p)'
  BY <1>2 DEF Placed
<1>5. HealsAlong(p)' /\ (what \in {Bad[m] : m \in DOMAIN Bad} => Answers(p)')
  BY <1>2 DEF HealsAlong, Answers
<1>6. QED
  BY <1>2, <1>3, <1>4, <1>5, ToldIf

\* A verdict: "no" is told; "yes" is said of a file that is not behind, or by a
\* process whose answer does not matter, or by one that looks again.
LEMMA VerdictIsTold ==
  ASSUME Told, NEW p \in Procs, NEW ok \in BOOLEAN, Verdict(p, ok), UNCHANGED files,
         AtMostJammed /\ ok => ext = meta \/ ~Answers(p) \/ mode[p] = "seal receipt"
  PROVE  Told'
<1>1. Typed /\ UNCHANGED <<db, hurts>> /\ (mode[p] = "gate" => minted < MaxEntries)
  BY DEF Told, Typed, Placed, Verdict
<1>2. LocalsTyped'
  BY <1>1, VerdictTyped
<1>3. CASE mode[p] = "gate" /\ Turn(p, "insert", "gate", 0) /\ UNCHANGED <<outcome, entry>>
  BY <1>1, <1>2, <1>3, AfreshIsTold
<1>4. CASE Turn(p, "confirm", "seal", 0) /\ UNCHANGED <<outcome, entry>>
  BY <1>1, <1>2, <1>4, AfreshIsTold
<1>5. CASE ok /\ mode[p] \in DOMAIN Good /\ Report(p, Good[mode[p]])
  <2>1. mode[p] # "seal receipt"
    BY <1>5 DEF Good
  <2>2. QED
    BY <1>1, <1>2, <1>5, <2>1, ReportIsTold
<1>6. CASE ~ok /\ mode[p] \in DOMAIN Bad /\ Report(p, Bad[mode[p]])
  BY <1>1, <1>2, <1>6, ReportIsTold
<1>7. QED
  BY <1>3, <1>4, <1>5, <1>6 DEF Verdict

LEMMA FailIsTold == ASSUME Told, NEW p \in Procs, Fail(p) PROVE Told'
BY VerdictIsTold DEF Fail

LEMMA UnsettledIsTold ==
  ASSUME Told, NEW p \in Procs, pc[p] \in VerifySteps, Unsettled(p) PROVE Told'
<1>1. CASE Fail(p)
  BY <1>1, FailIsTold
<1>2. CASE /\ Turn(p, "version", mode[p], attempt[p] + 1)
           /\ UNCHANGED <<db, files, hurts, outcome, entry, vouched>>
  <2>1. Typed /\ Placed(p)
    BY DEF Told, Typed
  <2>2. mode[p] \in Modes \ {"none"} /\ (mode[p] = "gate" => minted < MaxEntries)
    BY <2>1 DEF Placed, VerifySteps, MirrorSteps
  <2>3. LocalsTyped'
    BY <2>1, UnsettledTyped
  <2>4. QED
    BY <1>2, <2>2, <2>3, AfreshIsTold
<1>3. QED
  BY <1>1, <1>2 DEF Unsettled

LEMMA StartIsTold ==
  ASSUME Told, NEW p \in Procs, NEW why \in Modes \ {"none"}, StartVerify(p, why),
         why = "gate" => minted < MaxEntries /\ (mode[p] = "gate" \/ WriterFree),
         why \in {"receipt", "seal receipt"} => mode[p] = why,
         UNCHANGED <<db, files, hurts, entry, vouched>>
  PROVE  Told'
<1>1. TypeOK /\ LocalsTyped
  BY TypeParts DEF Told, Typed
<1>2. LocalsTyped'
  BY <1>1, StartTyped
<1>3. Turn(p, "version", why, 1) /\ \A q \in Procs : q # p => outcome'[q] = outcome[q]
  BY <1>1 DEF StartVerify, TypeOK
<1>4. QED
  BY <1>2, <1>3, AfreshIsTold

\* Reading on.
LEMMA OnwardIsTold ==
  ASSUME Told, NEW p \in Procs, NEW next, Goto(p, next),
         \A q \in Procs : q # p => seen'[q] = seen[q],
         UNCHANGED <<db, files, hurts, mode, outcome, entry>>, LocalsTyped',
         Placed(p)',
         AtMostJammed => HealsAlong(p)',
         AtMostJammed => ext = meta \/ ~Answers(p) \/ Answers(p)'
  PROVE  Told'
<1>1. TypeOK
  BY DEF Told, Typed
<1>2. Only(p) /\ SharedTyped'
  BY <1>1, SharedStays DEF Only, Goto, TypeOK
<1>3. Alone(p) /\ UNCHANGED <<rows, meta, minted, ext>>
  BY <1>2 DEF Alone, db, files
<1>4. QED
  BY <1>3, ToldIf

LEMMA Learns ==
  ASSUME TypeOK, NEW p \in Procs, NEW field \in {"version", "rows", "meta", "ext"}, NEW value,
         NEW next, Learn(p, field, value, next)
  PROVE  /\ pc'[p] = next /\ mode'[p] = mode[p] /\ entry'[p] = entry[p]
         /\ seen'[p] = [seen[p] EXCEPT ![field] = value]
         /\ \A q \in Procs : q # p => seen'[q] = seen[q]
         /\ UNCHANGED <<db, files, hurts, mode, outcome, entry>>
         /\ UNCHANGED <<rows, meta, minted, ext>> /\ Goto(p, next)
<1>1. Goto(p, next) /\ UNCHANGED <<db, files, hurts, mode, outcome, entry>>
  BY DEF Learn
<1>2. QED
  BY <1>1 DEF Learn, Goto, TypeOK, files, db

LEMMA Continues ==
  ASSUME TypeOK, NEW p \in Procs, NEW next, Continue(p, next)
  PROVE  /\ pc'[p] = next /\ mode'[p] = mode[p] /\ entry'[p] = entry[p]
         /\ UNCHANGED <<db, files, hurts, mode, seen, outcome, entry>>
         /\ UNCHANGED <<rows, meta, minted, ext>>
BY DEF Continue, Goto, TypeOK, files, db

LEMMA ToldFacts ==
  ASSUME Told, NEW p \in Procs
  PROVE  /\ Typed /\ TypeOK /\ Placed(p) /\ CheckpointOfRows
         /\ AtMostJammed => HealsAlong(p)
         /\ seen[p] \in [version : Chain \cup {Absent}, rows : Chain,
                         meta : Chain \cup {Absent}, ext : Chain \cup {Absent, Forged}]
BY DEF Told, Typed, TypeOK

LEMMA ReadsAreTold ==
  ASSUME Told, NEW p \in Procs, ReadVersion(p) \/ ReadRows(p) \/ ReadMeta(p) \/ ReadFile(p)
  PROVE  Told'
<1>1. /\ Typed /\ TypeOK /\ Placed(p) /\ (AtMostJammed => HealsAlong(p))
      /\ seen[p] \in [version : Chain \cup {Absent}, rows : Chain,
                      meta : Chain \cup {Absent}, ext : Chain \cup {Absent, Forged}]
  BY ToldFacts
<1>2. LocalsTyped' /\ pc[p] \in VerifySteps
  BY <1>1, VerifyPassTyped
  DEF VerifyPass, ReadVersion, ReadRows, ReadMeta, ReadFile, VerifySteps
<1>3. CASE Unsettled(p) \/ Fail(p)
  BY <1>2, <1>3, UnsettledIsTold, FailIsTold
<1>4. CASE \/ pc[p] = "version" /\ Learn(p, "version", meta, "rows")
           \/ pc[p] = "rows" /\ Learn(p, "rows", rows, "meta")
  <2> DEFINE Reached(next) ==
        /\ pc'[p] = next /\ mode'[p] = mode[p] /\ entry'[p] = entry[p]
        /\ \A q \in Procs : q # p => seen'[q] = seen[q]
        /\ UNCHANGED <<db, files, hurts, mode, outcome, entry>>
        /\ UNCHANGED <<rows, meta, minted, ext>> /\ Goto(p, next)
  <2>1. Reached("rows") \/ Reached("meta")
    <3>1. CASE Learn(p, "version", meta, "rows")
      BY <1>1, <3>1, Learns
    <3>2. CASE Learn(p, "rows", rows, "meta")
      BY <1>1, <3>2, Learns
    <3>3. QED
      BY <1>4, <3>1, <3>2
  <2>2. PICK next \in {"rows", "meta"} : Reached(next)
    BY <2>1
  <2>3. Placed(p)'
    BY <1>1, <1>4, <2>2 DEF Placed, VerifySteps, MirrorSteps
  <2>4. Answers(p)' /\ HealsAlong(p)'
    BY <2>2 DEF Answers, HealsAlong
  <2>5. QED
    BY <1>2, <2>2, <2>3, <2>4, OnwardIsTold
<1>5. CASE pc[p] = "meta" /\ Learn(p, "meta", meta, "file")
  <2>1. /\ pc'[p] = "file" /\ mode'[p] = mode[p] /\ entry'[p] = entry[p]
        /\ seen'[p] = [seen[p] EXCEPT !["meta"] = meta]
        /\ \A q \in Procs : q # p => seen'[q] = seen[q]
        /\ UNCHANGED <<db, files, hurts, mode, outcome, entry>>
        /\ UNCHANGED <<rows, meta, minted, ext>> /\ Goto(p, "file")
    BY <1>1, <1>5, Learns
  <2>2. Placed(p)'
    BY <1>1, <1>5, <2>1 DEF Placed, VerifySteps, MirrorSteps
  <2>3. seen'[p].meta = meta'
    BY <1>1, <2>1
  <2>4. Grows(seen'[p].meta, meta')
    <3>1. meta \in Chain => Authentic(meta) /\ IsPrefix(meta, meta)
      BY Special, PrefixesOf
    <3>2. meta \in Chain \/ meta = Absent
      BY <1>1 DEF TypeOK
    <3>3. QED
      BY <2>1, <2>3, <3>1, <3>2 DEF Grows, Extends
  <2>5. Answers(p)' /\ HealsAlong(p)'
    BY <2>1, <2>4 DEF Answers, HealsAlong, Grows, Extends, Authentic
  <2>6. QED
    BY <1>2, <2>1, <2>2, <2>5, OnwardIsTold
<1>6. CASE pc[p] = "file" /\ Learn(p, "ext", ext, "version again")
  <2>1. /\ pc'[p] = "version again" /\ mode'[p] = mode[p] /\ entry'[p] = entry[p]
        /\ seen'[p] = [seen[p] EXCEPT !["ext"] = ext]
        /\ \A q \in Procs : q # p => seen'[q] = seen[q]
        /\ UNCHANGED <<db, files, hurts, mode, outcome, entry>>
        /\ UNCHANGED <<rows, meta, minted, ext>> /\ Goto(p, "version again")
    BY <1>1, <1>6, Learns
  <2>2. Placed(p)'
    BY <1>1, <1>6, <2>1 DEF Placed, VerifySteps, MirrorSteps
  <2>3. seen'[p].meta = seen[p].meta /\ seen'[p].ext = ext
    BY <1>1, <2>1
  <2>4. AtMostJammed => HealsAlong(p)'
    BY <1>1, <1>6, <2>1, <2>3 DEF HealsAlong, Grows, Extends, Authentic
  <2>5. ext # meta => Answers(p)'
    BY <2>1, <2>3 DEF Answers
  <2>6. QED
    BY <1>2, <2>1, <2>2, <2>4, <2>5, OnwardIsTold
<1>7. QED
  BY <1>3, <1>4, <1>5, <1>6 DEF ReadVersion, ReadRows, ReadMeta, ReadFile

LEMMA LadderIsTold ==
  ASSUME Told, NEW p \in Procs, ReadVersionAgain(p)
  PROVE  Told'
<1>1. /\ Typed /\ TypeOK /\ Placed(p) /\ (AtMostJammed => HealsAlong(p))
      /\ pc[p] = "version again" /\ pc[p] \in VerifySteps
  BY ToldFacts DEF ReadVersionAgain, VerifySteps
<1>2. LocalsTyped'
  BY <1>1, VerifyPassTyped DEF VerifyPass
<1>3. CASE Unsettled(p) \/ Fail(p)
  BY <1>1, <1>3, UnsettledIsTold, FailIsTold
<1>4. CASE meta = seen[p].meta /\ (Pristine(p) \/ Matches(p)) /\ Pass(p)
  <2>1. seen[p].ext = meta
    BY <1>4 DEF Pristine, Matches
  <2>2. ~Answers(p)
    BY <1>1, <2>1 DEF Answers, MirrorSteps
  <2>3. QED
    BY <1>4, <2>2, VerdictIsTold DEF Pass
<1>5. CASE meta = seen[p].meta /\ Live(p) /\ Behind(p) /\ Continue(p, "heal")
  <2>1. /\ pc'[p] = "heal" /\ mode'[p] = mode[p] /\ entry'[p] = entry[p]
        /\ UNCHANGED <<db, files, hurts, mode, seen, outcome, entry>>
        /\ UNCHANGED <<rows, meta, minted, ext>> /\ Goto(p, "heal")
    BY <1>1, <1>5, Continues DEF Continue
  <2>2. Placed(p)'
    BY <1>1, <1>5, <2>1 DEF Placed, VerifySteps, MirrorSteps, Live
  <2>3. Answers(p)'
    BY <1>5, <2>1 DEF Answers
  <2>4. seen[p].ext = Absent \/ IsStrictPrefix(seen[p].ext, seen[p].meta)
    BY <1>5 DEF Behind, Live
  <2>5. AtMostJammed => HealsAlong(p)'
    BY <1>1, <2>1, <2>4 DEF HealsAlong, Grows, Extends, Authentic
  <2>6. QED
    BY <1>2, <2>1, <2>2, <2>3, <2>5, OnwardIsTold
<1>6. QED
  BY <1>3, <1>4, <1>5 DEF ReadVersionAgain

\* The file moves by p's hand.  Behind or not before, it is what the checkpoint
\* is now, or somebody else answers for it, or p does.
LEMMA FileMovesTold ==
  ASSUME Told, NEW p \in Procs, NEW next, Goto(p, next), Swap(seen[p].meta),
         UNCHANGED <<db, hurts, mode, seen, attempt, outcome, entry, vouched>>,
         LocalsTyped', SharedTyped', Placed(p)', next # "idle",
         AtMostJammed => HealsAlong(p)',
         AtMostJammed => \/ seen[p].meta = meta \/ Answers(p)'
                         \/ ext # meta /\ ~Answers(p)
  PROVE  Told'
<1>1. TypeOK /\ Typed
  BY DEF Told, Typed
<1>2. /\ \A q \in Procs : q # p => pc'[q] = pc[q]
      /\ UNCHANGED <<rows, meta, minted>> /\ ext' = seen[p].meta
  BY <1>1 DEF Goto, TypeOK, db, Swap
<1>3. Only(p)
  BY <1>2 DEF Only
<1>4. Typed' /\ CheckpointOfRows'
  <2>1. mode'[p] = "gate" => mode[p] = "gate"
    OBVIOUS
  <2>2. Typed'
    BY <1>1, <1>2, <1>3, <2>1, TypedIf
  <2>3. QED
    BY <1>2, <2>2 DEF Told, CheckpointOfRows
<1>5. SUFFICES ASSUME AtMostJammed'
               PROVE  /\ \A q \in Procs : HealsAlong(q)'
                      /\ ext' = meta' \/ \E q \in Procs : Answers(q)'
  BY <1>4 DEF Told
<1>6. AtMostJammed
  BY <1>5 DEF AtMostJammed, hurts
<1>7. ASSUME NEW q \in Procs, q # p
      PROVE  (HealsAlong(q) => HealsAlong(q)') /\ (Answers(q) => Answers(q)')
  <2>1. pc'[q] = pc[q]
    BY <1>2, <1>7
  <2>2. QED
    BY <1>2, <2>1 DEF HealsAlong, Answers, Grows, Extends, Authentic
<1>8. \A q \in Procs : HealsAlong(q)'
  BY <1>6, <1>7 DEF Told
<1>9. ext' = meta' \/ \E q \in Procs : Answers(q)'
  <2>1. CASE seen[p].meta = meta
    BY <1>2, <2>1
  <2>2. CASE Answers(p)'
    BY <2>2
  <2>3. CASE ext # meta /\ ~Answers(p)
    <3>1. PICK q \in Procs : Answers(q)
      BY <1>6, <2>3 DEF Told
    <3>2. q # p
      BY <2>3, <3>1
    <3>3. QED
      BY <1>7, <3>1, <3>2
  <2>4. QED
    BY <1>6, <2>1, <2>2, <2>3
<1>10. QED
  BY <1>8, <1>9

LEMMA HealIsTold ==
  ASSUME Told, NEW p \in Procs, Heal(p)
  PROVE  Told'
<1>1. /\ Typed /\ TypeOK /\ Placed(p) /\ (AtMostJammed => HealsAlong(p))
      /\ pc[p] = "heal" /\ pc[p] \in VerifySteps /\ Live(p)
  BY ToldFacts DEF Heal, VerifySteps, Placed
<1>2. LocalsTyped' /\ SharedTyped'
  BY <1>1, VerifyPassTyped DEF VerifyPass
<1>3. CASE Unsettled(p)
  BY <1>1, <1>3, UnsettledIsTold
<1>4. CASE Continue(p, "heal threw")
  <2>1. /\ pc'[p] = "heal threw" /\ mode'[p] = mode[p] /\ entry'[p] = entry[p]
        /\ UNCHANGED <<db, files, hurts, mode, seen, outcome, entry>>
        /\ UNCHANGED <<rows, meta, minted, ext>> /\ Goto(p, "heal threw")
    BY <1>1, <1>4, Continues DEF Continue
  <2>2. Placed(p)'
    BY <1>1, <2>1 DEF Placed, VerifySteps, MirrorSteps, Live
  <2>3. HealsAlong(p)' /\ (Answers(p) => Answers(p)')
    BY <1>1, <2>1 DEF HealsAlong, Answers, MirrorSteps
  <2>4. QED
    BY <1>2, <2>1, <2>2, <2>3, OnwardIsTold
<1>5. CASE /\ ext \in {seen[p].ext, seen[p].meta}
           /\ Swap(seen[p].meta)
           /\ Goto(p, "read back")
           /\ UNCHANGED <<db, hurts, mode, seen, attempt, outcome, entry, vouched>>
  <2>1. pc'[p] = "read back" /\ UNCHANGED <<rows, meta, minted>>
    BY <1>1, <1>5 DEF Goto, TypeOK, db
  <2>2. Placed(p)'
    BY <1>1, <1>5, <2>1 DEF Placed, VerifySteps, MirrorSteps, Live
  <2>3. HealsAlong(p)'
    BY <2>1 DEF HealsAlong
  <2>4. ASSUME AtMostJammed, seen[p].meta # meta PROVE ext # meta /\ ~Answers(p)
    <3>1. /\ Grows(seen[p].meta, meta) /\ seen[p].meta \in Chain
          /\ seen[p].ext = Absent \/ IsStrictPrefix(seen[p].ext, seen[p].meta)
      BY <1>1, <2>4, Types DEF HealsAlong, Live
    <3>2. IsPrefix(seen[p].meta, meta) /\ meta \in Chain /\ meta # Absent
      <4>1. seen[p].meta # Absent /\ IsPrefix(seen[p].meta, meta)
        BY <3>1, Special DEF Grows, Extends
      <4>2. meta # Absent
        BY <3>1, <4>1 DEF Grows
      <4>3. QED
        BY <1>1, <4>1, <4>2 DEF TypeOK
    <3>3. seen[p].ext # meta
      <4>1. ASSUME IsStrictPrefix(meta, seen[p].meta) PROVE FALSE
        <5>1. IsPrefix(meta, seen[p].meta)
          BY <4>1 DEF IsStrictPrefix
        <5>2. QED
          BY <2>4, <3>1, <3>2, <5>1, PrefixesOf
      <4>2. QED
        BY <3>1, <3>2, <4>1
    <3>4. ext # meta
      BY <1>5, <2>4, <3>3
    <3>5. ~Answers(p)
      BY <1>1, <2>4 DEF Answers, MirrorSteps
    <3>6. QED
      BY <3>4, <3>5
  <2>5. QED
    BY <1>2, <1>5, <2>2, <2>3, <2>4, FileMovesTold
<1>6. QED
  BY <1>3, <1>4, <1>5 DEF Heal

LEMMA BackIsTold ==
  ASSUME Told, NEW p \in Procs, HealThrew(p) \/ ReadBack(p) \/ ReadCommitted(p)
  PROVE  Told'
<1>1. /\ Typed /\ TypeOK /\ Placed(p)
      /\ seen[p] \in [version : Chain \cup {Absent}, rows : Chain,
                      meta : Chain \cup {Absent}, ext : Chain \cup {Absent, Forged}]
  BY ToldFacts
<1>2. LocalsTyped' /\ pc[p] \in VerifySteps
  BY <1>1, VerifyPassTyped DEF VerifyPass, HealThrew, ReadBack, ReadCommitted, VerifySteps
<1>3. CASE Unsettled(p) \/ Fail(p)
  BY <1>2, <1>3, UnsettledIsTold, FailIsTold
<1>4. CASE pc[p] = "heal threw" /\ Continue(p, "read back")
  <2>1. /\ pc'[p] = "read back" /\ mode'[p] = mode[p] /\ entry'[p] = entry[p]
        /\ UNCHANGED <<db, files, hurts, mode, seen, outcome, entry>>
        /\ UNCHANGED <<rows, meta, minted, ext>> /\ Goto(p, "read back")
    BY <1>1, <1>4, Continues DEF Continue
  <2>2. Placed(p)'
    BY <1>1, <1>4, <2>1 DEF Placed, VerifySteps, MirrorSteps, Live
  <2>3. HealsAlong(p)' /\ (Answers(p) => Answers(p)')
    BY <1>4, <2>1 DEF HealsAlong, Answers, MirrorSteps
  <2>4. QED
    BY <1>2, <2>1, <2>2, <2>3, OnwardIsTold
<1>5. CASE pc[p] = "read back" /\ ext = seen[p].meta /\ Pass(p)
  <2>1. ext = meta \/ ~Answers(p)
    BY <1>5 DEF Answers, MirrorSteps
  <2>2. QED
    BY <1>5, <2>1, VerdictIsTold DEF Pass
<1>6. CASE pc[p] = "read back" /\ Learn(p, "ext", ext, "committed")
  <2>1. /\ pc'[p] = "committed" /\ mode'[p] = mode[p] /\ entry'[p] = entry[p]
        /\ \A q \in Procs : q # p => seen'[q] = seen[q]
        /\ UNCHANGED <<db, files, hurts, mode, outcome, entry>>
        /\ UNCHANGED <<rows, meta, minted, ext>> /\ Goto(p, "committed")
    BY <1>1, <1>6, Learns
  <2>2. Placed(p)'
    BY <1>1, <1>6, <2>1 DEF Placed, VerifySteps, MirrorSteps
  <2>3. Answers(p)' /\ HealsAlong(p)'
    BY <2>1 DEF Answers, HealsAlong
  <2>4. QED
    BY <1>2, <2>1, <2>2, <2>3, OnwardIsTold
<1>7. QED
  BY <1>3, <1>4, <1>5, <1>6 DEF HealThrew, ReadBack, ReadCommitted

LEMMA MirrorIsTold ==
  ASSUME Told, NEW p \in Procs, MirrorMeta(p) \/ MirrorFile(p) \/ MirrorGuards(p) \/ MirrorSwap(p)
  PROVE  Told'
<1>1. /\ Typed /\ TypeOK /\ Placed(p)
      /\ seen[p] \in [version : Chain \cup {Absent}, rows : Chain,
                      meta : Chain \cup {Absent}, ext : Chain \cup {Absent, Forged}]
  BY ToldFacts
<1>2. LocalsTyped' /\ SharedTyped' /\ pc[p] \in MirrorSteps
  BY <1>1, MirrorTyped
  DEF MirrorAndConfirm, MirrorMeta, MirrorFile, MirrorGuards, MirrorSwap, MirrorSteps
<1>3. /\ mode[p] \in {"receipt", "seal receipt"} /\ entry[p] \in 1..MaxEntries
      /\ pc[p] \in {"mirror file", "guards", "swap"} => seen[p].meta # Absent
  BY <1>1, <1>2 DEF Placed, MirrorSteps, VerifySteps
<1>4. CASE Continue(p, "confirm") \/ (pc[p] = "guards" /\ Continue(p, "swap"))
  <2>1. PICK next \in {"confirm", "swap"} :
          Continue(p, next) /\ (next = "swap" => pc[p] = "guards")
    BY <1>4
  <2>2. /\ pc'[p] = next /\ mode'[p] = mode[p] /\ entry'[p] = entry[p]
        /\ UNCHANGED <<db, files, hurts, mode, seen, outcome, entry>>
        /\ UNCHANGED <<rows, meta, minted, ext>> /\ Goto(p, next)
    BY <1>1, <2>1, Continues DEF Continue
  <2>3. Placed(p)'
    BY <1>3, <2>1, <2>2 DEF Placed, VerifySteps, MirrorSteps
  <2>4. Answers(p)' /\ HealsAlong(p)'
    BY <2>2 DEF Answers, HealsAlong, MirrorSteps
  <2>5. QED
    BY <1>2, <2>2, <2>3, <2>4, OnwardIsTold
<1>5. CASE Authentic(meta) /\ Learn(p, "meta", meta, "mirror file")
  <2>1. /\ pc'[p] = "mirror file" /\ mode'[p] = mode[p] /\ entry'[p] = entry[p]
        /\ seen'[p] = [seen[p] EXCEPT !["meta"] = meta]
        /\ \A q \in Procs : q # p => seen'[q] = seen[q]
        /\ UNCHANGED <<db, files, hurts, mode, outcome, entry>>
        /\ UNCHANGED <<rows, meta, minted, ext>> /\ Goto(p, "mirror file")
    BY <1>1, <1>5, Learns
  <2>2. seen'[p].meta # Absent
    BY <1>1, <1>5, <2>1 DEF Authentic
  <2>3. Placed(p)'
    BY <1>3, <2>1, <2>2 DEF Placed, VerifySteps, MirrorSteps
  <2>4. Answers(p)' /\ HealsAlong(p)'
    BY <2>1 DEF Answers, HealsAlong, MirrorSteps
  <2>5. QED
    BY <1>2, <2>1, <2>3, <2>4, OnwardIsTold
<1>6. CASE pc[p] = "mirror file" /\ (Learn(p, "ext", ext, "swap") \/ Learn(p, "ext", ext, "guards"))
  <2>1. PICK next \in {"swap", "guards"} : Learn(p, "ext", ext, next)
    BY <1>6
  <2>2. /\ pc'[p] = next /\ mode'[p] = mode[p] /\ entry'[p] = entry[p]
        /\ seen'[p] = [seen[p] EXCEPT !["ext"] = ext]
        /\ \A q \in Procs : q # p => seen'[q] = seen[q]
        /\ UNCHANGED <<db, files, hurts, mode, outcome, entry>>
        /\ UNCHANGED <<rows, meta, minted, ext>> /\ Goto(p, next)
    BY <1>1, <2>1, Learns
  <2>3. seen'[p].meta # Absent
    BY <1>1, <1>3, <1>6, <2>2
  <2>4. Placed(p)'
    BY <1>3, <2>2, <2>3 DEF Placed, VerifySteps, MirrorSteps
  <2>5. Answers(p)' /\ HealsAlong(p)'
    BY <2>2 DEF Answers, HealsAlong, MirrorSteps
  <2>6. QED
    BY <1>2, <2>2, <2>4, <2>5, OnwardIsTold
<1>7. CASE /\ Swap(seen[p].meta) /\ Goto(p, "confirm")
           /\ UNCHANGED <<db, hurts, mode, seen, attempt, outcome, entry, vouched>>
  <2>1. pc'[p] = "confirm" /\ UNCHANGED <<rows, meta, minted>>
    BY <1>1, <1>7 DEF Goto, TypeOK, db
  <2>2. Placed(p)'
    BY <1>3, <1>7, <2>1 DEF Placed, VerifySteps, MirrorSteps
  <2>3. Answers(p)' /\ HealsAlong(p)'
    BY <2>1 DEF Answers, HealsAlong
  <2>4. QED
    BY <1>2, <1>7, <2>2, <2>3, FileMovesTold
<1>8. QED
  BY <1>4, <1>5, <1>6, <1>7 DEF MirrorMeta, MirrorFile, MirrorGuards, MirrorSwap

LEMMA ConfirmIsTold ==
  ASSUME Told, NEW p \in Procs, ConfirmMeta(p) \/ ConfirmFile(p)
  PROVE  Told'
<1>1. /\ Typed /\ TypeOK /\ Placed(p)
      /\ seen[p] \in [version : Chain \cup {Absent}, rows : Chain,
                      meta : Chain \cup {Absent}, ext : Chain \cup {Absent, Forged}]
  BY ToldFacts
<1>2. LocalsTyped' /\ mode[p] \in {"receipt", "seal receipt", "seal"}
  BY <1>1, MirrorTyped
  DEF MirrorAndConfirm, ConfirmMeta, ConfirmFile, Placed, MirrorSteps, VerifySteps
<1>3. CASE AskVerify(p)
  <2>1. mode[p] \in Modes \ {"none"} /\ mode[p] # "gate"
    BY <1>2 DEF Modes
  <2>2. QED
    BY <1>3, <2>1, StartIsTold DEF AskVerify
<1>4. CASE meta # Absent /\ Learn(p, "meta", meta, "confirm file")
  <2>1. /\ pc'[p] = "confirm file" /\ mode'[p] = mode[p] /\ entry'[p] = entry[p]
        /\ seen'[p] = [seen[p] EXCEPT !["meta"] = meta]
        /\ \A q \in Procs : q # p => seen'[q] = seen[q]
        /\ UNCHANGED <<db, files, hurts, mode, outcome, entry>>
        /\ UNCHANGED <<rows, meta, minted, ext>> /\ Goto(p, "confirm file")
    BY <1>1, <1>4, Learns
  <2>2. seen'[p].meta = meta'
    BY <1>1, <2>1
  <2>3. Placed(p)'
    BY <1>1, <1>2, <1>4, <2>1, <2>2 DEF Placed, VerifySteps, MirrorSteps
  <2>4. Answers(p)' /\ HealsAlong(p)'
    BY <2>1, <2>2 DEF Answers, HealsAlong
  <2>5. QED
    BY <1>2, <2>1, <2>3, <2>4, OnwardIsTold
<1>5. CASE pc[p] = "confirm file" /\ ext = seen[p].meta /\ Pass(p)
  <2>1. ext = meta \/ ~Answers(p) \/ mode[p] = "seal receipt"
    BY <1>5 DEF Answers, MirrorSteps
  <2>2. QED
    BY <1>5, <2>1, VerdictIsTold DEF Pass
<1>6. QED
  BY <1>3, <1>4, <1>5 DEF ConfirmMeta, ConfirmFile

LEMMA PrefixesThrough ==
  ASSUME NEW s \in Chain, NEW t \in Chain, NEW u \in Chain, IsPrefix(s, t), IsPrefix(t, u)
  PROVE  IsPrefix(s, u)
BY PrefixesOf

LEMMA NextLabel ==
  ASSUME TypeOK, minted < MaxEntries PROVE minted + 1 \in 1..MaxEntries
<1>1. minted \in 0..MaxEntries /\ MaxEntries \in Nat
  BY ConstantsAssumption DEF TypeOK
<1>2. QED
  BY <1>1

\* Whoever commits is about to mirror.
LEMMA CommitIsTold ==
  ASSUME Told, NEW p \in Procs, NEW checkpoint, NEW why \in {"receipt", "seal receipt"},
         Commit(p, checkpoint, why),
         \/ checkpoint = Append(rows, minted + 1)
         \/ checkpoint = meta /\ meta # rows,
         mode[p] = "gate" \/ WriterFree, minted < MaxEntries,
         LocalsTyped', SharedTyped', entry'[p] \in 1..MaxEntries
  PROVE  Told'
<1>1. /\ Typed /\ TypeOK /\ Placed(p) /\ CheckpointOfRows
  BY ToldFacts
<1>2. /\ pc'[p] = "mirror" /\ mode'[p] = why
      /\ rows' = Append(rows, minted + 1) /\ meta' = checkpoint
      /\ UNCHANGED <<files, hurts>>
      /\ \A q \in Procs : q # p => entry'[q] = entry[q] /\ outcome'[q] = outcome[q]
      /\ \A q \in Procs : q # p =>
           pc'[q] = pc[q] /\ mode'[q] = mode[q] /\ seen'[q] = seen[q]
  BY <1>1, TurnIs DEF Commit, TypeOK
<1>3. Only(p)
  BY <1>2 DEF Only
<1>4. Placed(p)'
  BY <1>2 DEF Placed, MirrorSteps, VerifySteps
<1>5. Typed'
  BY <1>1, <1>2, <1>3, <1>4, TypedIf
<1>6. rows \in Chain /\ minted + 1 \in 1..MaxEntries
  BY <1>1, NextLabel DEF TypeOK
<1>7. CheckpointOfRows'
  BY <1>1, <1>2, <1>6, Grown DEF CheckpointOfRows
<1>8. Answers(p)' /\ HealsAlong(p)'
  BY <1>2 DEF Answers, HealsAlong, MirrorSteps
<1>9. AtMostJammed' => AtMostJammed
  BY <1>2 DEF AtMostJammed, hurts
<1>10. ASSUME NEW q \in Procs, q # p, HealsAlong(q) PROVE HealsAlong(q)'
  <2>1. pc'[q] = pc[q] /\ seen'[q] = seen[q]
    BY <1>2, <1>10
  <2>2. ASSUME Grows(seen[q].meta, meta) PROVE Grows(seen'[q].meta, meta')
    <3>1. CASE seen[q].meta = Absent
      BY <2>1, <3>1 DEF Grows, Extends
    <3>2. CASE seen[q].meta # Absent
      <4>1. Authentic(seen[q].meta) /\ IsPrefix(seen[q].meta, meta)
        BY <2>2, <3>2 DEF Grows, Extends
      <4>2. CASE meta' = meta
        BY <2>1, <2>2, <4>2
      <4>3. CASE meta' # meta /\ meta = rows
        <5>1. meta' = Append(rows, minted + 1)
          BY <1>2, <4>3
        <5>2. /\ IsPrefix(rows, Append(rows, minted + 1))
              /\ Append(rows, minted + 1) \in Chain
          BY <1>6, Grown
        <5>3. seen[q].meta \in Chain
          BY <1>1, <3>2, Types
        <5>4. IsPrefix(seen[q].meta, meta')
          <6>1. IsPrefix(seen[q].meta, rows)
            BY <4>1, <4>3
          <6>2. QED
            BY <1>6, <5>1, <5>2, <5>3, <6>1, PrefixesThrough
        <5>5. meta' # Absent
          BY <5>1, <5>2, Special
        <5>6. QED
          BY <2>1, <4>1, <5>4, <5>5 DEF Grows, Extends, Authentic
      <4>4. CASE meta = Absent
        BY <2>2, <3>2, <4>4 DEF Grows
      <4>5. QED
        BY <1>1, <4>2, <4>3, <4>4 DEF CheckpointOfRows
    <3>3. QED
      BY <3>1, <3>2
  <2>3. QED
    BY <1>10, <2>1, <2>2 DEF HealsAlong
<1>11. AtMostJammed' => \A q \in Procs : HealsAlong(q)'
  BY <1>8, <1>9, <1>10 DEF Told
<1>12. QED
  BY <1>5, <1>7, <1>8, <1>11 DEF Told

LEMMA CommandIsTold ==
  ASSUME Told, NEW p \in Procs, AppendBegin(p) \/ VerifyCommand(p) \/ Reseal(p) \/ Insert(p)
  PROVE  Told'
<1>1. /\ Typed /\ TypeOK /\ Placed(p)
  BY ToldFacts
<1>2. CASE AppendBegin(p)
  BY <1>2, StartIsTold DEF AppendBegin, Modes
<1>3. CASE VerifyCommand(p)
  BY <1>3, StartIsTold DEF VerifyCommand, Modes
<1>4. CASE Reseal(p)
  <2>1. LocalsTyped' /\ SharedTyped' /\ entry'[p] \in 1..MaxEntries
    BY <1>1, <1>4, ResealTyped
  <2>2. QED
    BY <1>4, <2>1, CommitIsTold DEF Reseal
<1>5. CASE Insert(p)
  <2>1. LocalsTyped' /\ SharedTyped' /\ entry'[p] \in 1..MaxEntries
    BY <1>1, <1>5, InsertTyped
  <2>2. mode[p] = "gate" /\ minted < MaxEntries
    BY <1>1, <1>5 DEF Placed, Insert, MirrorSteps, VerifySteps
  <2>3. NextMeta = Append(rows, minted + 1) \/ (NextMeta = meta /\ meta # rows)
    BY DEF NextMeta
  <2>4. QED
    BY <1>5, <2>1, <2>2, <2>3, CommitIsTold DEF Insert
<1>6. QED
  BY <1>2, <1>3, <1>4, <1>5

\* What a crash, a restored database or a damaged file leaves is typed, and says
\* what broke.
LEMMA BrokenIsTold ==
  ASSUME Told, Restore \/ Damage \/ \E p \in Procs : Crash(p)
  PROVE  Told'
<1>1. Typed /\ TypeOK /\ LocalsTyped /\ SharedTyped /\ CheckpointOfRows
  BY TypeParts DEF Told, Typed
<1>2. CASE Restore
  <2>1. PICK n \in 1..(Len(rows) - 1) : rows' = SubSeq(rows, 1, n) /\ meta' = rows'
    BY <1>2 DEF Restore
  <2>2. rows' # <<>>
    BY <1>1, <2>1, Cut DEF TypeOK, Chain
  <2>3. \A p \in Procs : Placed(p)'
    <3>1. ASSUME NEW p \in Procs PROVE pc'[p] = "idle" /\ mode'[p] = "none"
      <4>1. pc[p] = "idle" /\ pc' = pc /\ mode' = mode
        BY <1>2 DEF Restore, local
      <4>2. mode[p] = "none"
        BY <1>1, <4>1 DEF Typed, Placed, MirrorSteps, VerifySteps
      <4>3. QED
        BY <4>1, <4>2
    <3>2. QED
      BY <3>1 DEF Placed
  <2>4. TypeOK' /\ OneWriter'
    <3>1. LocalsTyped' /\ SharedTyped' /\ (TypeOK' <=> LocalsTyped' /\ SharedTyped')
      BY <1>1, <1>2, EnvironmentTyped, TypeParts, PTL
    <3>2. OneWriter'
      BY <1>1, <1>2 DEF Typed, OneWriter, Restore, local
    <3>3. QED
      BY <3>1, <3>2
  <2>5. "restore" \in hurt'
    BY <1>2 DEF Restore, Fault
  <2>6. QED
    BY <2>1, <2>2, <2>3, <2>4, <2>5 DEF Told, Typed, CheckpointOfRows, AtMostJammed
<1>3. CASE Damage
  <2>1. UNCHANGED <<rows, meta, minted, pc, mode, seen, entry>>
    BY <1>3 DEF Damage, db, local
  <2>2. \A p \in Procs : Placed(p)'
    BY <1>1, <2>1 DEF Placed, Typed, Live
  <2>3. TypeOK' /\ OneWriter'
    <3>1. LocalsTyped' /\ SharedTyped' /\ (TypeOK' <=> LocalsTyped' /\ SharedTyped')
      BY <1>1, <1>3, EnvironmentTyped, TypeParts, PTL
    <3>2. OneWriter'
      BY <1>1, <2>1 DEF Typed, OneWriter
    <3>3. QED
      BY <3>1, <3>2
  <2>4. hurt' \cap {"lose", "forge", "unreadable"} # {}
    BY <1>3 DEF Damage, Fault
  <2>5. QED
    BY <1>1, <2>1, <2>2, <2>3, <2>4 DEF Told, Typed, CheckpointOfRows, AtMostJammed
<1>4. ASSUME NEW p \in Procs, Crash(p) PROVE Told'
  <2>1. Report(p, "none") /\ UNCHANGED <<db, files, vouched>> /\ "crash" \in hurt'
    BY <1>4 DEF Crash, Fault
  <2>2. LocalsTyped' /\ SharedTyped'
    <3>1. start' \in AllStarts /\ faults' \in 0..MaxFaults /\ hurt' \subseteq AllFaults
      BY <1>1, <1>4, FaultTyped DEF Crash
    <3>2. SharedTyped'
      BY <1>1, <2>1, <3>1 DEF SharedTyped, db, files
    <3>3. LocalsTyped'
      BY <1>1, <2>1, ReportTyped DEF Outcomes, LocalsTyped
    <3>4. QED
      BY <3>2, <3>3
  <2>3. Turn(p, "idle", "none", 0) /\ \A q \in Procs : q # p => entry'[q] = entry[q]
    BY <1>1, <2>1 DEF Report, TypeOK
  <2>4. Only(p) /\ pc'[p] = "idle" /\ mode'[p] = "none"
    BY <1>1, <2>3, TurnIs, TurnOnly
  <2>5. Placed(p)'
    BY <2>4 DEF Placed
  <2>6. UNCHANGED <<rows, meta, minted>>
    BY <2>1 DEF db
  <2>7. Typed'
    BY <1>1, <2>2, <2>4, <2>5, <2>6, TypedIf
  <2>8. QED
    BY <1>1, <2>1, <2>6, <2>7 DEF Told, CheckpointOfRows, AtMostJammed
<1>5. QED
  BY <1>2, <1>3, <1>4

LEMMA JamIsTold == ASSUME Told, Jam \/ Unjam \/ UNCHANGED vars PROVE Told'
<1>1. Typed /\ TypeOK
  BY DEF Told, Typed
<1>2. UNCHANGED <<rows, meta, minted, ext, pc, mode, seen, outcome, entry>>
  BY DEF Jam, Unjam, vars, db, files, local
<1>3. TypeOK'
  <2>1. CASE Jam \/ Unjam
    <3>1. LocalsTyped' /\ SharedTyped' /\ (TypeOK' <=> LocalsTyped' /\ SharedTyped')
      BY <1>1, <2>1, EnvironmentTyped, TypeParts, PTL
    <3>2. QED
      BY <3>1
  <2>2. CASE UNCHANGED vars
    BY <1>1, <2>2 DEF TypeOK, vars, db, files, local, hurts
  <2>3. QED
    BY <2>1, <2>2
<1>4. Typed'
  <2>1. \A p \in Procs : Placed(p)'
    BY <1>1, <1>2 DEF Typed, Placed, Live
  <2>2. OneWriter'
    BY <1>1, <1>2 DEF Typed, OneWriter
  <2>3. QED
    BY <1>3, <2>1, <2>2 DEF Typed
<1>5. AtMostJammed' => AtMostJammed
  BY DEF AtMostJammed, Jam, Unjam, Fault, vars, hurts
<1>6. \A p \in Procs : (HealsAlong(p) => HealsAlong(p)') /\ (Answers(p) => Answers(p)')
  BY <1>2 DEF HealsAlong, Answers, Grows, Extends, Authentic
<1>7. CheckpointOfRows'
  BY <1>2 DEF Told, CheckpointOfRows
<1>8. QED
  BY <1>2, <1>4, <1>5, <1>6, <1>7 DEF Told

LEMMA ToldStep == ASSUME Told, [Next]_vars PROVE Told'
<1>1. ASSUME NEW p \in Procs, VerifyPass(p) PROVE Told'
  BY <1>1, ReadsAreTold, LadderIsTold, HealIsTold, BackIsTold DEF VerifyPass
<1>2. ASSUME NEW p \in Procs, MirrorAndConfirm(p) PROVE Told'
  BY <1>2, MirrorIsTold, ConfirmIsTold DEF MirrorAndConfirm
<1>3. QED
  BY <1>1, <1>2, CommandIsTold, BrokenIsTold, JamIsTold DEF Next, StartCommand, Step

LEMMA ToldInit == Init => Told
<1> SUFFICES ASSUME Init PROVE Told
  OBVIOUS
<1>1. Typed /\ CheckpointOfRows
  BY InvInit, InvTyped DEF Inv, Journal
<1>2. \A p \in Procs : HealsAlong(p)
  BY DEF Init, HealsAlong
<1>3. ext = meta
  BY DEF Init
<1>4. QED
  BY <1>1, <1>2, <1>3 DEF Told

LEMMA ToldAlways == Spec => []Told
BY ToldInit, ToldStep, PTL DEF Spec

\* Whatever the processes run, seal() included, and however often the file is
\* jammed: once every command has returned, the file holds the checkpoint of the
\* journal, or the last thing some process reported is that something is wrong.
THEOREM LagsAreTold == Spec => []LagIsTold
<1>1. Told => LagIsTold
  <2>1. SUFFICES ASSUME Told, hurt \subseteq {"jam"}, \A p \in Procs : pc[p] = "idle"
                 PROVE  ext = meta \/ \E p \in Procs : outcome[p] \in {Bad[m] : m \in DOMAIN Bad}
    BY DEF LagIsTold
  <2>2. ext = meta \/ \E p \in Procs : Answers(p)
    BY <2>1 DEF Told, AtMostJammed
  <2>3. \A p \in Procs : Answers(p) => outcome[p] \in {Bad[m] : m \in DOMAIN Bad}
    BY <2>1 DEF Answers, MirrorSteps
  <2>4. QED
    BY <2>2, <2>3
<1>2. QED
  BY <1>1, ToldAlways, PTL

=============================================================================
