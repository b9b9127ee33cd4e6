----------------------- MODULE ManagedExtensionProofs ------------------------
(***************************************************************************)
(* What the activation of an extension guarantees for any number of         *)
(* versions, whatever step fails and wherever a crash falls.  The argument: *)
(* the version an operation activates is newer than every version that      *)
(* state.json lists, since the record is never behind state.json; so what   *)
(* is deleted is never listed, and the version in a directory tells whether *)
(* the swap came before or after the write of state.json.                   *)
(***************************************************************************)
EXTENDS ManagedExtension, SequenceTheorems, WellFoundedInduction, TLAPS

\* The steps at which an activation is under way.
Acting == {"commit", "check", "prepare", "swapOut", "swapIn", "record", "load", "write",
           "tidy", "undo", "putBack", "reload", "mark", "drop"}

\* An activation knows its version; a version it copies is there.
OpOK ==
    /\ step \in Acting => op \in Ops
    /\ step \in {"check", "prepare"} => releases[op.target] # "absent"
    /\ step \in {"swapOut", "swapIn", "record", "load", "write", "tidy"} => op.copy # "absent"
    /\ step \in {"commit", "check", "prepare", "swapOut"} => registry = op.before
    /\ step \in {"load", "write", "tidy"} => registry # None /\ registry.version = op.target
    /\ step = "load" => known
    /\ step = "mark" => registry # None
    /\ step = "tidy" => state # None

\* Where the two directories of a swap are.
SwapOK ==
    /\ step = "swapOut" => current = op.old /\ previous = Absent
    /\ step = "swapIn" => current = Absent /\ previous = op.old
    /\ step \in {"record", "load", "write", "tidy"} =>
          /\ current = [version |-> op.target, part |-> op.copy]
          /\ step # "tidy" => previous = op.old

\* What runs can be stopped at every step, and between the swap and its record, or its
\* undoing, nothing runs.
RunOK ==
    /\ running # 0 => registry # None /\ registry.enabled /\ known
    /\ step \in {"swapIn", "record", "putBack", "reload"} => running = 0

\* A directory whose manifest can be read is not older than what state.json names.
UpToDate(d) == ManifestVersion(d) # 0 => state.active <= d.version

\* What state.json lists is whole, and older than what an operation brings.
ListOK ==
    state # None =>
        /\ \A v \in ToSet(state.kept) : releases[v] = "whole" /\ v <= state.active
        /\ step # "clear" => registry # None
        /\ registry # None => state.active <= registry.version
        /\ step \in Acting \ {"tidy"} =>
              /\ state.active < op.target
              /\ op.before # None /\ state.active <= op.before.version
        /\ step = "tidy" => state.active = op.target
        /\ UpToDate(current)
        /\ UpToDate(previous) \/ SwapFinished
        /\ step \in {"swapOut", "swapIn", "record", "load", "write", "undo", "putBack"} =>
              UpToDate(previous)

\* What is copied is whole.
CopyOK ==
    /\ step \in {"check", "prepare", "swapOut", "swapIn", "record", "load", "write"} =>
          releases[op.target] = "whole"
    /\ step \in {"swapOut", "swapIn", "record", "load", "write", "tidy"} => op.copy = "whole"

ExtensionInv ==
    /\ TypeOK /\ OpOK /\ SwapOK /\ RunOK
    /\ ~cut => ListOK /\ CopyOK

-----------------------------------------------------------------------------
\* Directories.

LEMMA PartsOK ==
  ASSUME NEW part \in Parts
  PROVE  /\ PartsLeft(part) \subseteq Parts
         /\ TRUE \in Verdicts(part) => part \in {"whole", "torn"}
         /\ FALSE \in Verdicts(part) => part # "whole"
         /\ part = "whole" => Verdicts(part) = {TRUE}
         /\ Verdicts(part) \subseteq BOOLEAN
         /\ \A left \in PartsLeft(part) :
               /\ left \in {"whole", "torn"} => part \in {"whole", "torn"}
               /\ part = "absent" => left = "absent"
<1> QED BY DEF Parts, PartsLeft, Verdicts

LEMMA DirsOK ==
  ASSUME NEW d \in Dirs
  PROVE  /\ d = [version |-> d.version, part |-> d.part]
         /\ d.version \in 0 .. MaxVersion /\ d.part \in Parts
         /\ d = Absent <=> d.part = "absent"
         /\ d.part = "absent" <=> d.version = 0
         /\ d # Absent => d.version \in Versions
<1> QED BY ExtensionAssumption DEF Dirs, Absent, Parts, Versions

LEMMA MadeDir ==
  ASSUME NEW v \in Versions, NEW part \in Parts \ {"absent"}
  PROVE  [version |-> v, part |-> part] \in Dirs
<1> QED BY ExtensionAssumption DEF Dirs, Versions

LEMMA AbsentOK == Absent \in Dirs
<1> QED BY ExtensionAssumption DEF Absent, Dirs, Parts

\* What is left of a directory is one that is not more readable.
LEMMA RemainsOK ==
  ASSUME NEW d \in Dirs, NEW e \in Remains(d)
  PROVE  /\ e \in Dirs
         /\ ManifestVersion(e) # 0 => e.version = d.version /\ ManifestVersion(d) # 0
<1>1. PICK part \in PartsLeft(d.part) :
         e = IF part = "absent" THEN Absent ELSE [d EXCEPT !.part = part]
  BY DEF Remains
<1>2. d = [version |-> d.version, part |-> d.part] /\ d.part \in Parts
      /\ d.version \in 0 .. MaxVersion /\ (d.part = "absent" <=> d.version = 0)
  BY DirsOK
<1>3. part \in Parts
  BY <1>2, PartsOK
<1>4. CASE part = "absent"
  BY <1>1, <1>4, AbsentOK DEF ManifestVersion, Absent
<1>5. CASE part # "absent"
  <2>1. e = [version |-> d.version, part |-> part]
    BY <1>1, <1>2, <1>5
  <2>2. d.part # "absent"
    BY <1>2, <1>5, PartsOK
  <2>3. part \in {"whole", "torn"} => d.part \in {"whole", "torn"}
    BY <1>2, PartsOK
  <2> QED BY <1>2, <1>3, <1>5, <2>1, <2>2, <2>3 DEF Dirs, ManifestVersion
<1> QED BY <1>4, <1>5

\* A record is told by its fields, and changing one leaves a record.
LEMMA RecordsOK ==
  ASSUME NEW r \in Records
  PROVE  /\ r # None
         /\ r = [version |-> r.version, enabled |-> r.enabled, failed |-> r.failed]
         /\ r.version \in Versions /\ r.enabled \in BOOLEAN /\ r.failed \in 0 .. MaxVersion
<1>1. r = [version |-> r.version, enabled |-> r.enabled, failed |-> r.failed]
  BY DEF Records
<1>2. r # None
  BY <1>1 DEF None
<1> QED BY <1>1, <1>2 DEF Records

LEMMA MadeRecord ==
  ASSUME NEW v \in Versions, NEW enabled \in BOOLEAN, NEW failed \in 0 .. MaxVersion
  PROVE  [version |-> v, enabled |-> enabled, failed |-> failed] \in Records
<1> QED BY DEF Records

LEMMA RenewedRecord ==
  ASSUME NEW r \in Records, NEW v \in Versions
  PROVE  [r EXCEPT !.version = v, !.enabled = r.enabled]
            = [version |-> v, enabled |-> r.enabled, failed |-> r.failed]
<1>1. PICK w, e, f : r = [version |-> w, enabled |-> e, failed |-> f]
  BY RecordsOK
<1>2. r.enabled = e /\ r.failed = f
  BY <1>1
<1>3. [r EXCEPT !.version = v] = [version |-> v, enabled |-> e, failed |-> f]
  BY <1>1
<1>4. [r EXCEPT !.version = v, !.enabled = r.enabled]
         = [[r EXCEPT !.version = v] EXCEPT !.enabled = r.enabled]
  OBVIOUS
<1>5. [[version |-> v, enabled |-> e, failed |-> f] EXCEPT !.enabled = e]
         = [version |-> v, enabled |-> e, failed |-> f]
  OBVIOUS
<1> QED BY ONLY <1>2, <1>3, <1>4, <1>5

LEMMA ChangedRecord ==
  ASSUME NEW r \in Records, NEW v \in Versions, NEW enabled \in BOOLEAN
  PROVE  /\ [r EXCEPT !.version = v, !.enabled = enabled]
              = [version |-> v, enabled |-> enabled, failed |-> r.failed]
         /\ [r EXCEPT !.enabled = enabled]
              = [version |-> r.version, enabled |-> enabled, failed |-> r.failed]
         /\ [r EXCEPT !.failed = v]
              = [version |-> r.version, enabled |-> r.enabled, failed |-> v]
<1>1. PICK w, e, f : r = [version |-> w, enabled |-> e, failed |-> f]
  BY RecordsOK
<1>2. r.version = w /\ r.enabled = e /\ r.failed = f
  BY <1>1
<1>3. [r EXCEPT !.version = v, !.enabled = enabled]
         = [version |-> v, enabled |-> enabled, failed |-> f]
  <2>1. [r EXCEPT !.version = v] = [version |-> v, enabled |-> e, failed |-> f]
    BY <1>1
  <2>2. [r EXCEPT !.version = v, !.enabled = enabled]
           = [[r EXCEPT !.version = v] EXCEPT !.enabled = enabled]
    OBVIOUS
  <2>3. [[version |-> v, enabled |-> e, failed |-> f] EXCEPT !.enabled = enabled]
           = [version |-> v, enabled |-> enabled, failed |-> f]
    OBVIOUS
  <2> QED BY ONLY <2>1, <2>2, <2>3
<1>4. [r EXCEPT !.enabled = enabled] = [version |-> w, enabled |-> enabled, failed |-> f]
  BY <1>1
<1>5. [r EXCEPT !.failed = v] = [version |-> w, enabled |-> e, failed |-> v]
  BY <1>1
<1> QED BY <1>2, <1>3, <1>4, <1>5

\* A set of positions has a first.
LEMMA FirstPosition ==
  ASSUME NEW I \in SUBSET Nat, I # {}
  PROVE  \E i \in I : \A j \in I : i <= j
<1> DEFINE before == OpToRel(<, Nat)
<1>1. IsWellFoundedOn(before, Nat)
  BY NatLessThanWellFounded
<1>2. PICK i \in I : \A j \in I : ~(<<j, i>> \in before)
  <2> HIDE DEF before
  <2> QED BY <1>1, WFMin
<1>3. \A j \in I : i <= j
  <2> SUFFICES ASSUME NEW j \in I PROVE i <= j
    OBVIOUS
  <2>1. i \in Nat /\ j \in Nat
    OBVIOUS
  <2>2. ~(<<j, i>> \in before)
    BY <1>2
  <2>3. ~(j < i)
    BY <2>1, <2>2 DEF OpToRel
  <2> QED BY ONLY <2>1, <2>3
<1> QED BY <1>3

\* Taking one out of a sequence leaves a sequence of the others.
LEMMA RemovedOK ==
  ASSUME NEW S, NEW s \in Seq(S), NEW k \in 1 .. Len(s)
  PROVE  /\ RemoveAt(s, k) \in Seq(S)
         /\ \A i \in 1 .. Len(RemoveAt(s, k)) :
               \E j \in 1 .. Len(s) : RemoveAt(s, k)[i] = s[j]
<1> DEFINE a == SubSeq(s, 1, k - 1)
           b == SubSeq(s, k + 1, Len(s))
<1>1. a \in Seq(S) /\ \A i \in 1 .. Len(a) : \E j \in 1 .. Len(s) : a[i] = s[j]
  OBVIOUS
<1>2. b \in Seq(S) /\ \A i \in 1 .. Len(b) : \E j \in 1 .. Len(s) : b[i] = s[j]
  OBVIOUS
<1>3. /\ a \o b \in Seq(S) /\ Len(a \o b) = Len(a) + Len(b)
      /\ \A i \in 1 .. Len(a \o b) :
            (a \o b)[i] = IF i <= Len(a) THEN a[i] ELSE b[i - Len(a)]
  <2> HIDE DEF a, b
  <2> QED BY <1>1, <1>2
<1>4. Len(a) \in Nat /\ Len(b) \in Nat
  BY <1>1, <1>2
<1> HIDE DEF a, b
<1>5. ASSUME NEW i \in 1 .. Len(a \o b)
      PROVE  \E j \in 1 .. Len(s) : (a \o b)[i] = s[j]
  <2>1. CASE i <= Len(a)
    BY <1>1, <1>3, <1>4, <2>1
  <2>2. CASE ~(i <= Len(a))
    <3>1. i - Len(a) \in 1 .. Len(b)
      BY <1>3, <1>4, <2>2
    <3> QED BY <1>2, <1>3, <2>2, <3>1
  <2> QED BY <2>1, <2>2
<1> QED BY <1>3, <1>5 DEF RemoveAt, a, b

\* What a list keeps when a version comes first.
LEMMA KeptOK ==
  ASSUME TypeOK, NEW v \in Versions
  PROVE  /\ Retained(v) \in Seq(Versions) /\ Len(Retained(v)) <= KeptVersions
         /\ v \in ToSet(Retained(v))
         /\ \A w \in ToSet(Retained(v)) : w = v \/ Listed(w)
<1> DEFINE rest == IF state = None THEN <<>> ELSE RemoveFirst(state.kept, v)
           all  == <<v>> \o rest
           n    == IF Len(all) < KeptVersions THEN Len(all) ELSE KeptVersions
<1>1. rest \in Seq(Versions) /\ \A i \in 1 .. Len(rest) : Listed(rest[i])
  <2>1. CASE state = None
    BY <2>1
  <2>2. CASE state # None
    <3> DEFINE s == state.kept
               k == SelectInSeq(s, LAMBDA w : w = v)
    <3>1. s \in Seq(Versions) /\ ToSet(s) = {s[i] : i \in 1 .. Len(s)}
      BY <2>2 DEF TypeOK, States, ToSet
    <3>2. CASE ~\E i \in 1 .. Len(s) : s[i] = v
      BY <2>2, <3>1, <3>2 DEF RemoveFirst, Listed
    <3>3. CASE \E i \in 1 .. Len(s) : s[i] = v
      <4>1. rest = SubSeq(s, 1, k - 1) \o SubSeq(s, k + 1, Len(s))
        BY <2>2, <3>3 DEF RemoveFirst, RemoveAt
      <4>2. k \in 1 .. Len(s)
        <5> DEFINE I == {i \in 1 .. Len(s) : s[i] = v}
        <5>1. I # {} /\ I \subseteq Nat
          BY <3>1, <3>3
        <5>2. \E i \in I : \A j \in I : i <= j
          BY <5>1, FirstPosition
        <5> QED BY <5>1, <5>2 DEF SelectInSeq, Min
      <4>3. rest = RemoveAt(s, k)
        BY <4>1 DEF RemoveAt
      <4>4. \A i \in 1 .. Len(s) : Listed(s[i])
        BY <2>2, <3>1 DEF Listed
      <4> HIDE DEF rest, s, k
      <4>5. /\ RemoveAt(s, k) \in Seq(Versions)
            /\ \A i \in 1 .. Len(RemoveAt(s, k)) :
                  \E j \in 1 .. Len(s) : RemoveAt(s, k)[i] = s[j]
        BY <3>1, <4>2, RemovedOK
      <4> QED BY <4>3, <4>4, <4>5
    <3> QED BY <3>2, <3>3
  <2> QED BY <2>1, <2>2
<1>2. all \in Seq(Versions) /\ Len(all) >= 1 /\ all[1] = v
      /\ \A i \in 1 .. Len(all) : all[i] = v \/ Listed(all[i])
  <2> HIDE DEF rest
  <2> QED BY <1>1
<1>3. n \in 1 .. Len(all) /\ n <= KeptVersions
  <2> HIDE DEF all
  <2> QED BY <1>2, ExtensionAssumption
<1>4. Retained(v) = SubSeq(all, 1, n)
  BY DEF Retained, FirstOf
<1>5. /\ SubSeq(all, 1, n) \in Seq(Versions) /\ Len(SubSeq(all, 1, n)) = n
      /\ \A i \in 1 .. n : SubSeq(all, 1, n)[i] = all[i]
  <2> HIDE DEF all, n
  <2> QED BY <1>2, <1>3
<1>6. ToSet(Retained(v)) = {all[i] : i \in 1 .. n}
  <2> HIDE DEF all, n
  <2> QED BY <1>4, <1>5 DEF ToSet
<1> HIDE DEF all, n
<1> QED BY <1>2, <1>3, <1>4, <1>5, <1>6

\* What an operation under way knows.
LEMMA ActingOK ==
  ASSUME OpOK, step \in Acting
  PROVE  /\ op \in Ops
         /\ op = [target |-> op.target, before |-> op.before, old |-> op.old, copy |-> op.copy]
         /\ op.target \in Versions /\ op.before \in Records \cup {None}
         /\ op.old \in Dirs /\ op.copy \in Parts
<1> QED BY DEF OpOK, Ops

LEMMA Bounds == Versions \subseteq 0 .. MaxVersion /\ 0 \in 0 .. MaxVersion
<1> QED BY ExtensionAssumption DEF Versions

LEMMA RecoveredOK ==
  ASSUME TypeOK
  PROVE  /\ Recovered \in Dirs
         /\ ListOK /\ state # None => UpToDate(Recovered)
<1>1. Recovered \in {current, previous}
  BY DEF Recovered
<1>2. Recovered \in Dirs
  BY <1>1 DEF TypeOK
<1>3. ASSUME ListOK, state # None PROVE UpToDate(Recovered)
  <2>1. UpToDate(current) /\ (UpToDate(previous) \/ SwapFinished)
    BY <1>3 DEF ListOK
  <2>2. state.active \in Nat /\ state.active # 0
    BY <1>3, ExtensionAssumption DEF TypeOK, States, Versions
  <2>3. current = Absent => ~SwapFinished
    BY <2>2 DEF SwapFinished, ManifestVersion, Absent
  <2>4. previous = Absent => UpToDate(previous)
    BY DEF UpToDate, ManifestVersion, Absent
  <2> QED BY <2>1, <2>3, <2>4 DEF Recovered
<1> QED BY <1>2, <1>3

LEMMA TypesGive ==
  ASSUME TypeOK
  PROVE  /\ Versions \subseteq Nat
         /\ registry # None => registry \in Records
         /\ state # None => /\ state.active \in Versions
                            /\ \A w \in ToSet(state.kept) : w \in Versions
<1>1. state # None => state.active \in Versions /\ state.kept \in Seq(Versions)
  BY DEF TypeOK, States
<1>2. \A s \in Seq(Versions) : \A w \in ToSet(s) : w \in Versions
  BY DEF ToSet
<1> QED BY <1>1, <1>2 DEF TypeOK, Versions

-----------------------------------------------------------------------------
(* Each action keeps the invariant.                                         *)

LEMMA BeginKeeps ==
  ASSUME ExtensionInv, NEW v \in Versions, NEW automatic \in BOOLEAN, Begin(v, automatic)
  PROVE  ExtensionInv'
<1> USE DEF ExtensionInv, Begin, At, GoTo, Finish, disk, memory
<1>0. TypeOK /\ OpOK /\ SwapOK /\ RunOK
  OBVIOUS
<1>new. op' \in Ops
  BY <1>0, AbsentOK DEF Ops, TypeOK, Parts
<1>1. TypeOK'
  BY <1>0, <1>new DEF TypeOK, Steps
<1>2. OpOK'
  BY <1>0, <1>new DEF OpOK, Acting
<1>3. SwapOK'
  BY <1>0, <1>1 DEF SwapOK
<1>4. RunOK'
  BY <1>0, <1>1 DEF RunOK, OpOK
<1>5. ASSUME ~cut' PROVE ListOK'
  BY <1>0, <1>5, TypesGive, RecordsOK
       DEF ListOK, UpToDate, SwapFinished, ManifestVersion, Absent, Acting
<1>6. ASSUME ~cut' PROVE CopyOK'
  BY <1>0, <1>1, <1>6 DEF CopyOK, OpOK
<1> QED BY <1>1, <1>2, <1>3, <1>4, <1>5, <1>6

LEMMA CommitKeeps ==
  ASSUME ExtensionInv, Commit
  PROVE  ExtensionInv'
<1> USE DEF ExtensionInv, Commit, At, GoTo, Finish, disk, memory
<1>0. /\ op \in Ops
      /\ op = [target |-> op.target, before |-> op.before, old |-> op.old, copy |-> op.copy]
      /\ op.target \in Versions /\ op.before \in Records \cup {None}
      /\ op.old \in Dirs /\ op.copy \in Parts
  BY ActingOK DEF Acting
<1>1. TypeOK'
  <2>1. releases' \in [Versions -> Parts]
    BY <1>0 DEF TypeOK, Parts
  <2> QED BY <1>0, <2>1 DEF TypeOK, Steps
<1>2. OpOK'
  BY <1>0 DEF OpOK, Acting, TypeOK
<1>3. SwapOK'
  BY <1>0, <1>1 DEF SwapOK
<1>4. RunOK'
  BY <1>0, <1>1 DEF RunOK, OpOK
<1>5. ASSUME ~cut' PROVE ListOK'
  <2>1. \A w \in Versions : releases[w] = "whole" => releases'[w] = "whole"
    BY <1>0 DEF TypeOK
  <2> QED BY <1>5, <2>1, TypesGive
       DEF ListOK, UpToDate, SwapFinished, ManifestVersion, Absent, Acting
<1>6. ASSUME ~cut' PROVE CopyOK'
  <2>1. CASE releases[op.target] = "absent"
    BY <1>0, <2>1 DEF CopyOK, TypeOK
  <2>2. CASE releases[op.target] # "absent"
    BY <1>6, <2>2 DEF CopyOK, Listed, ListOK
  <2> QED BY <2>1, <2>2
<1> QED BY <1>1, <1>2, <1>3, <1>4, <1>5, <1>6

LEMMA CheckKeeps ==
  ASSUME ExtensionInv, Check
  PROVE  ExtensionInv'
<1> USE DEF ExtensionInv, Check, At, GoTo, Finish, disk, memory
<1>0. /\ op \in Ops
      /\ op = [target |-> op.target, before |-> op.before, old |-> op.old, copy |-> op.copy]
      /\ op.target \in Versions /\ op.before \in Records \cup {None}
      /\ op.old \in Dirs /\ op.copy \in Parts
  BY ActingOK DEF Acting
<1>1. TypeOK'
  BY <1>0, Bounds DEF TypeOK, Records, Steps
<1>2. OpOK'
  BY <1>0, <1>1 DEF OpOK, Acting
<1>3. SwapOK'
  BY <1>0, <1>1 DEF SwapOK
<1>4. RunOK'
  BY <1>0, <1>1 DEF RunOK, OpOK
<1>5. ASSUME ~cut' PROVE ListOK'
  BY <1>0, <1>1, <1>5 DEF ListOK, UpToDate, SwapFinished, ManifestVersion, Absent, Acting
<1>6. ASSUME ~cut' PROVE CopyOK'
  BY <1>0, <1>1, <1>6 DEF CopyOK, OpOK
<1> QED BY <1>1, <1>2, <1>3, <1>4, <1>5, <1>6

LEMMA PrepareRuntimeKeeps ==
  ASSUME ExtensionInv, PrepareRuntime
  PROVE  ExtensionInv'
<1> USE DEF ExtensionInv, PrepareRuntime, At, GoTo, Finish, disk, memory
<1>0. /\ op \in Ops
      /\ op = [target |-> op.target, before |-> op.before, old |-> op.old, copy |-> op.copy]
      /\ op.target \in Versions /\ op.before \in Records \cup {None}
      /\ op.old \in Dirs /\ op.copy \in Parts
  BY ActingOK DEF Acting
<1>dirs. current' = Recovered /\ previous' = Absent /\ current' \in Dirs /\ previous' \in Dirs
  BY RecoveredOK, AbsentOK DEF RecoverRuntimeSwap
<1>new. \/ /\ step' = "swapOut" /\ op' \in Ops
           /\ op' = [target |-> op.target, before |-> op.before, old |-> current',
                     copy |-> releases[op.target]]
        \/ step' = "drop" /\ op' = op
  BY <1>0, <1>dirs DEF Ops, TypeOK
<1>1. TypeOK'
  BY <1>0, <1>dirs, <1>new DEF TypeOK, Steps
<1>2. OpOK'
  BY <1>0, <1>new DEF OpOK, Acting
<1>3. SwapOK'
  BY <1>dirs, <1>new DEF SwapOK
<1>4. RunOK'
  BY <1>0, <1>1 DEF RunOK, OpOK
<1>5. ASSUME ~cut' PROVE ListOK'
  <2>1. state # None => UpToDate(Recovered)
    BY <1>5, RecoveredOK
  <2>2. state # None => UpToDate(current)' /\ UpToDate(previous)'
    BY <1>dirs, <2>1 DEF UpToDate, ManifestVersion, Absent
  <2> QED BY <1>0, <1>5, <1>new, <2>2 DEF ListOK, Acting
<1>6. ASSUME ~cut' PROVE CopyOK'
  BY <1>0, <1>6, <1>new DEF CopyOK
<1> QED BY <1>1, <1>2, <1>3, <1>4, <1>5, <1>6

LEMMA SwapOutKeeps ==
  ASSUME ExtensionInv, SwapOut
  PROVE  ExtensionInv'
<1> USE DEF ExtensionInv, SwapOut, At, GoTo, Finish, disk, memory
<1>0. /\ op \in Ops
      /\ op = [target |-> op.target, before |-> op.before, old |-> op.old, copy |-> op.copy]
      /\ op.target \in Versions /\ op.before \in Records \cup {None}
      /\ op.old \in Dirs /\ op.copy \in Parts
  BY ActingOK DEF Acting
<1>1. TypeOK'
  <2>1. current' \in Dirs /\ previous' \in Dirs
    BY AbsentOK DEF TypeOK
  <2> QED BY <1>0, <2>1, Bounds DEF TypeOK, Steps
<1>2. OpOK'
  BY <1>0, <1>1 DEF OpOK, Acting
<1>3. SwapOK'
  BY <1>0, <1>1 DEF SwapOK
<1>4. RunOK'
  BY <1>0, <1>1 DEF RunOK, OpOK
<1>5. ASSUME ~cut' PROVE ListOK'
  BY <1>0, <1>1, <1>5 DEF ListOK, UpToDate, SwapFinished, ManifestVersion, Absent, Acting
<1>6. ASSUME ~cut' PROVE CopyOK'
  BY <1>0, <1>1, <1>6 DEF CopyOK, OpOK
<1> QED BY <1>1, <1>2, <1>3, <1>4, <1>5, <1>6

LEMMA SwapInKeeps ==
  ASSUME ExtensionInv, SwapIn
  PROVE  ExtensionInv'
<1> USE DEF ExtensionInv, SwapIn, At, GoTo, Finish, disk, memory
<1>0. /\ op \in Ops
      /\ op = [target |-> op.target, before |-> op.before, old |-> op.old, copy |-> op.copy]
      /\ op.target \in Versions /\ op.before \in Records \cup {None}
      /\ op.old \in Dirs /\ op.copy \in Parts
  BY ActingOK DEF Acting
<1>1. TypeOK'
  <2>1. [version |-> op.target, part |-> op.copy] \in Dirs
    BY <1>0, MadeDir DEF OpOK
  <2>2. current' \in Dirs /\ previous' \in Dirs
    BY <2>1, AbsentOK DEF TypeOK
  <2> QED BY <1>0, <2>2 DEF TypeOK, Steps
<1>2. OpOK'
  BY <1>0, <1>1 DEF OpOK, Acting
<1>3. SwapOK'
  BY <1>0, <1>1 DEF SwapOK
<1>4. RunOK'
  BY <1>0, <1>1 DEF RunOK, OpOK
<1>5. ASSUME ~cut' PROVE ListOK'
  <2>1. state # None => UpToDate(current)' /\ UpToDate(previous)'
    BY <1>0, <1>5, TypesGive DEF ListOK, UpToDate, ManifestVersion, Absent, Acting
  <2> QED BY <1>0, <1>5, <2>1 DEF ListOK, Acting
<1>6. ASSUME ~cut' PROVE CopyOK'
  BY <1>0, <1>1, <1>6 DEF CopyOK, OpOK
<1> QED BY <1>1, <1>2, <1>3, <1>4, <1>5, <1>6

LEMMA RecordKeeps ==
  ASSUME ExtensionInv, Record
  PROVE  ExtensionInv'
<1> USE DEF ExtensionInv, Record, At, GoTo, Finish, disk, memory
<1>0. /\ op \in Ops
      /\ op = [target |-> op.target, before |-> op.before, old |-> op.old, copy |-> op.copy]
      /\ op.target \in Versions /\ op.before \in Records \cup {None}
      /\ op.old \in Dirs /\ op.copy \in Parts
  BY ActingOK DEF Acting
<1>new. registry' \in Records /\ registry'.version = op.target
  <2>1. PICK enabled \in BOOLEAN :
           registry' = [version |-> op.target, enabled |-> enabled, failed |-> 0]
    OBVIOUS
  <2> QED BY <1>0, <2>1, MadeRecord, Bounds
<1>1. TypeOK'
  BY <1>0, <1>new DEF TypeOK, Steps
<1>2. OpOK'
  BY <1>0, <1>new, RecordsOK DEF OpOK, Acting
<1>3. SwapOK'
  BY <1>0, <1>1 DEF SwapOK
<1>4. RunOK'
  BY <1>0, <1>1 DEF RunOK, OpOK
<1>5. ASSUME ~cut' PROVE ListOK'
  <2>1. state # None => state.active <= registry'.version
    BY <1>0, <1>5, <1>new, TypesGive DEF ListOK, Acting
  <2> QED BY <1>0, <1>5, <1>new, <2>1, RecordsOK
       DEF ListOK, UpToDate, SwapFinished, ManifestVersion, Absent, Acting
<1>6. ASSUME ~cut' PROVE CopyOK'
  BY <1>0, <1>1, <1>6 DEF CopyOK, OpOK
<1> QED BY <1>1, <1>2, <1>3, <1>4, <1>5, <1>6

LEMMA LoadKeeps ==
  ASSUME ExtensionInv, Load
  PROVE  ExtensionInv'
<1> USE DEF ExtensionInv, Load, At, GoTo, Finish, disk, memory
<1>0. /\ op \in Ops
      /\ op = [target |-> op.target, before |-> op.before, old |-> op.old, copy |-> op.copy]
      /\ op.target \in Versions /\ op.before \in Records \cup {None}
      /\ op.old \in Dirs /\ op.copy \in Parts
  BY ActingOK DEF Acting
<1>1. TypeOK'
  BY <1>0, Bounds DEF TypeOK, Records, Steps
<1>2. OpOK'
  BY <1>0, <1>1 DEF OpOK, Acting
<1>3. SwapOK'
  BY <1>0, <1>1 DEF SwapOK
<1>4. RunOK'
  BY <1>0, <1>1 DEF RunOK, OpOK
<1>5. ASSUME ~cut' PROVE ListOK'
  BY <1>0, <1>1, <1>5 DEF ListOK, UpToDate, SwapFinished, ManifestVersion, Absent, Acting
<1>6. ASSUME ~cut' PROVE CopyOK'
  BY <1>0, <1>1, <1>6 DEF CopyOK, OpOK
<1> QED BY <1>1, <1>2, <1>3, <1>4, <1>5, <1>6

LEMMA ActivateKeeps ==
  ASSUME ExtensionInv, Activate
  PROVE  ExtensionInv'
<1> USE DEF ExtensionInv, Activate, At, GoTo, Finish, disk, memory
<1>0. /\ op \in Ops
      /\ op = [target |-> op.target, before |-> op.before, old |-> op.old, copy |-> op.copy]
      /\ op.target \in Versions /\ op.before \in Records \cup {None}
      /\ op.old \in Dirs /\ op.copy \in Parts
  BY ActingOK DEF Acting
<1>kept. /\ Retained(op.target) \in Seq(Versions) /\ Len(Retained(op.target)) <= KeptVersions
         /\ \A w \in ToSet(Retained(op.target)) : w = op.target \/ Listed(w)
  BY <1>0, KeptOK
<1>1. TypeOK'
  <2>1. [active |-> op.target, kept |-> Retained(op.target)] \in States
    BY <1>0, <1>kept DEF States
  <2>2. releases' \in [Versions -> Parts]
    BY DEF TypeOK
  <2>3. state' = None \/ (state' \in States /\ Len(state'.kept) <= KeptVersions)
    BY <1>kept, <2>1 DEF TypeOK
  <2> QED BY <1>0, <2>2, <2>3 DEF TypeOK, Steps
<1>2. OpOK'
  BY <1>0, <1>1 DEF OpOK, Acting, None
<1>3. SwapOK'
  BY <1>0, <1>1 DEF SwapOK
<1>4. RunOK'
  BY <1>0, <1>1 DEF RunOK, OpOK
<1>5. ASSUME ~cut' PROVE ListOK'
  <2>1. CASE step' = "tidy"
    <3>1. /\ state' = [active |-> op.target, kept |-> Retained(op.target)]
          /\ \A w \in Versions : Listed(w)' => releases'[w] = releases[w]
      BY <2>1
    <3>2. state' # None /\ state'.active = op.target /\ state'.kept = Retained(op.target)
      BY <3>1 DEF None
    <3>3. \A w \in ToSet(state'.kept) :
             /\ w \in Versions /\ Listed(w)'
             /\ w = op.target \/ (state # None /\ w \in ToSet(state.kept))
      BY <1>0, <1>1, <1>kept, <3>2, TypesGive DEF Listed
    <3>4. \A w \in ToSet(state'.kept) : releases'[w] = "whole" /\ w <= op.target
      BY <1>0, <1>5, <3>1, <3>3, TypesGive DEF ListOK, CopyOK, Acting
    <3>5. UpToDate(current)' /\ SwapFinished'
      BY <1>0, <1>5, <3>2, TypesGive DEF UpToDate, SwapFinished, ManifestVersion, CopyOK, SwapOK
    <3>6. registry' # None /\ registry'.version = op.target
      BY DEF OpOK
    <3> QED BY <1>0, <2>1, <3>2, <3>4, <3>5, <3>6, TypesGive DEF ListOK, Acting
  <2>2. CASE step' = "undo"
    BY <1>0, <1>5, <2>2
       DEF ListOK, UpToDate, SwapFinished, ManifestVersion, Absent, Acting
  <2> QED BY <2>1, <2>2
<1>6. ASSUME ~cut' PROVE CopyOK'
  BY <1>0, <1>6 DEF CopyOK
<1> QED BY <1>1, <1>2, <1>3, <1>4, <1>5, <1>6

LEMMA CommitRuntimeKeeps ==
  ASSUME ExtensionInv, CommitRuntime
  PROVE  ExtensionInv'
<1> USE DEF ExtensionInv, CommitRuntime, At, GoTo, Finish, disk, memory
<1>0. /\ op \in Ops
      /\ op = [target |-> op.target, before |-> op.before, old |-> op.old, copy |-> op.copy]
      /\ op.target \in Versions /\ op.before \in Records \cup {None}
      /\ op.old \in Dirs /\ op.copy \in Parts
  BY ActingOK DEF Acting
<1>1. TypeOK'
  <2>1. previous' \in Dirs
    BY AbsentOK DEF TypeOK
  <2> QED BY <1>0, <2>1 DEF TypeOK, Steps
<1>2. OpOK'
  BY <1>0, <1>1 DEF OpOK, Acting
<1>3. SwapOK'
  BY <1>0, <1>1 DEF SwapOK
<1>4. RunOK'
  BY <1>0, <1>1 DEF RunOK, OpOK
<1>5. ASSUME ~cut' PROVE ListOK'
  BY <1>0, <1>1, <1>5 DEF ListOK, UpToDate, SwapFinished, ManifestVersion, Absent, Acting
<1>6. ASSUME ~cut' PROVE CopyOK'
  BY <1>0, <1>1, <1>6 DEF CopyOK, OpOK
<1> QED BY <1>1, <1>2, <1>3, <1>4, <1>5, <1>6

LEMMA RollbackRuntimeKeeps ==
  ASSUME ExtensionInv, RollbackRuntime
  PROVE  ExtensionInv'
<1> USE DEF ExtensionInv, RollbackRuntime, At, GoTo, Finish, disk, memory
<1>0. /\ op \in Ops
      /\ op = [target |-> op.target, before |-> op.before, old |-> op.old, copy |-> op.copy]
      /\ op.target \in Versions /\ op.before \in Records \cup {None}
      /\ op.old \in Dirs /\ op.copy \in Parts
  BY ActingOK DEF Acting
<1>dir. current' \in Dirs /\ (state # None /\ UpToDate(current) => UpToDate(current)')
  <2>1. CASE current' = Absent
    BY <2>1, AbsentOK DEF UpToDate, ManifestVersion, Absent
  <2>2. CASE current' \in Remains(current)
    BY <2>2, RemainsOK DEF TypeOK, UpToDate
  <2> QED BY <2>1, <2>2
<1>1. TypeOK'
  BY <1>0, <1>dir, Bounds DEF TypeOK, Steps
<1>2. OpOK'
  BY <1>0, <1>1 DEF OpOK, Acting
<1>3. SwapOK'
  BY <1>0, <1>1 DEF SwapOK
<1>4. RunOK'
  BY <1>0, <1>1 DEF RunOK, OpOK
<1>5. ASSUME ~cut' PROVE ListOK'
  BY <1>0, <1>5, <1>dir DEF ListOK, Acting, UpToDate
<1>6. ASSUME ~cut' PROVE CopyOK'
  BY <1>0, <1>1, <1>6 DEF CopyOK, OpOK
<1> QED BY <1>1, <1>2, <1>3, <1>4, <1>5, <1>6

LEMMA PutBackKeeps ==
  ASSUME ExtensionInv, PutBack
  PROVE  ExtensionInv'
<1> USE DEF ExtensionInv, PutBack, At, GoTo, Finish, disk, memory
<1>0. /\ op \in Ops
      /\ op = [target |-> op.target, before |-> op.before, old |-> op.old, copy |-> op.copy]
      /\ op.target \in Versions /\ op.before \in Records \cup {None}
      /\ op.old \in Dirs /\ op.copy \in Parts
  BY ActingOK DEF Acting
<1>1. TypeOK'
  <2>1. current' \in Dirs /\ previous' \in Dirs
    BY AbsentOK DEF TypeOK
  <2> QED BY <1>0, <2>1 DEF TypeOK, Steps
<1>2. OpOK'
  BY <1>0, <1>1 DEF OpOK, Acting
<1>3. SwapOK'
  BY <1>0, <1>1 DEF SwapOK
<1>4. RunOK'
  BY <1>0, <1>1 DEF RunOK, OpOK
<1>5. ASSUME ~cut' PROVE ListOK'
  BY <1>0, <1>1, <1>5 DEF ListOK, UpToDate, SwapFinished, ManifestVersion, Absent, Acting
<1>6. ASSUME ~cut' PROVE CopyOK'
  BY <1>0, <1>1, <1>6 DEF CopyOK, OpOK
<1> QED BY <1>1, <1>2, <1>3, <1>4, <1>5, <1>6

LEMMA ReloadKeeps ==
  ASSUME ExtensionInv, Reload
  PROVE  ExtensionInv'
<1> USE DEF ExtensionInv, Reload, At, GoTo, Finish, disk, memory
<1>0. /\ op \in Ops
      /\ op = [target |-> op.target, before |-> op.before, old |-> op.old, copy |-> op.copy]
      /\ op.target \in Versions /\ op.before \in Records \cup {None}
      /\ op.old \in Dirs /\ op.copy \in Parts
  BY ActingOK DEF Acting
<1>1. TypeOK'
  <2>1. running' \in 0 .. MaxVersion
    BY Bounds, DirsOK DEF TypeOK
  <2> QED BY <1>0, <2>1 DEF TypeOK, Steps
<1>2. OpOK'
  BY <1>0, <1>1 DEF OpOK, Acting
<1>3. SwapOK'
  BY <1>0, <1>1 DEF SwapOK
<1>4. RunOK'
  BY <1>0, <1>1 DEF RunOK, OpOK
<1>5. ASSUME ~cut' PROVE ListOK'
  BY <1>0, <1>1, <1>5 DEF ListOK, UpToDate, SwapFinished, ManifestVersion, Absent, Acting
<1>6. ASSUME ~cut' PROVE CopyOK'
  BY <1>0, <1>1, <1>6 DEF CopyOK, OpOK
<1> QED BY <1>1, <1>2, <1>3, <1>4, <1>5, <1>6

LEMMA MarkFailedKeeps ==
  ASSUME ExtensionInv, MarkFailed
  PROVE  ExtensionInv'
<1> USE DEF ExtensionInv, MarkFailed, At, GoTo, Finish, disk, memory
<1>0. /\ op \in Ops
      /\ op = [target |-> op.target, before |-> op.before, old |-> op.old, copy |-> op.copy]
      /\ op.target \in Versions /\ op.before \in Records \cup {None}
      /\ op.old \in Dirs /\ op.copy \in Parts
  BY ActingOK DEF Acting
<1>new. /\ registry' \in Records /\ registry'.version = registry.version
        /\ registry'.enabled = registry.enabled
  <2>1. registry \in Records
    BY TypesGive DEF OpOK
  <2>2. registry' = [version |-> registry.version, enabled |-> registry.enabled,
                     failed |-> op.target]
    BY <2>1, RecordsOK
  <2> QED BY <1>0, <2>1, <2>2, RecordsOK, MadeRecord, Bounds
<1>1. TypeOK'
  BY <1>0, <1>new DEF TypeOK, Steps
<1>2. OpOK'
  BY <1>0, <1>1 DEF OpOK, Acting
<1>3. SwapOK'
  BY <1>0, <1>1 DEF SwapOK
<1>4. RunOK'
  BY <1>new, RecordsOK DEF RunOK, OpOK
<1>5. ASSUME ~cut' PROVE ListOK'
  BY <1>0, <1>5, <1>new, RecordsOK DEF ListOK, Acting, OpOK, UpToDate, SwapFinished
<1>6. ASSUME ~cut' PROVE CopyOK'
  BY <1>0, <1>1, <1>6 DEF CopyOK, OpOK
<1> QED BY <1>1, <1>2, <1>3, <1>4, <1>5, <1>6

LEMMA RemoveVersionKeeps ==
  ASSUME ExtensionInv, RemoveVersion
  PROVE  ExtensionInv'
<1> USE DEF ExtensionInv, RemoveVersion, At, GoTo, Finish, disk, memory
<1>0. /\ op \in Ops
      /\ op = [target |-> op.target, before |-> op.before, old |-> op.old, copy |-> op.copy]
      /\ op.target \in Versions /\ op.before \in Records \cup {None}
      /\ op.old \in Dirs /\ op.copy \in Parts
  BY ActingOK DEF Acting
<1>part. PICK part \in PartsLeft(releases[op.target]) :
           releases' = [releases EXCEPT ![op.target] = part]
  OBVIOUS
<1>1. TypeOK'
  <2>1. part \in Parts
    BY <1>0, PartsOK DEF TypeOK
  <2> QED BY <1>0, <1>part, <2>1 DEF TypeOK, Steps
<1>2. OpOK'
  BY <1>0, <1>1 DEF OpOK, Acting
<1>3. SwapOK'
  BY <1>0, <1>1 DEF SwapOK
<1>4. RunOK'
  BY <1>0, <1>1 DEF RunOK, OpOK
<1>5. ASSUME ~cut' PROVE ListOK'
  <2>1. \A w \in Versions : w # op.target => releases'[w] = releases[w]
    BY <1>part DEF TypeOK
  <2>2. state # None => \A w \in ToSet(state.kept) : w \in Versions /\ w # op.target
    BY <1>0, <1>5, TypesGive DEF ListOK, Acting
  <2> QED BY <1>5, <2>1, <2>2
       DEF ListOK, UpToDate, SwapFinished, ManifestVersion, Absent, Acting
<1>6. ASSUME ~cut' PROVE CopyOK'
  BY <1>0, <1>1, <1>6 DEF CopyOK, OpOK
<1> QED BY <1>1, <1>2, <1>3, <1>4, <1>5, <1>6

LEMMA ClearKeeps ==
  ASSUME ExtensionInv, Clear
  PROVE  ExtensionInv'
<1> USE DEF ExtensionInv, Clear, At, GoTo, Finish, disk, memory
<1>0. TypeOK /\ OpOK /\ SwapOK /\ RunOK
  OBVIOUS
<1>files. /\ state' \in {None, state} /\ releases' \in [Versions -> Parts]
          /\ current' \in Dirs /\ previous' \in Dirs /\ cut' \in BOOLEAN
          /\ ~cut' => state' = None
  <2>1. CASE FallsShort
    BY <2>1, RemainsOK DEF FallsShort, TypeOK
  <2>2. CASE ~FallsShort
    BY <2>2, AbsentOK DEF Parts
  <2> QED BY <2>1, <2>2
<1>1. TypeOK'
  BY <1>0, <1>files DEF TypeOK, Steps
<1>2. OpOK'
  BY <1>0, <1>1 DEF OpOK, Acting
<1>3. SwapOK'
  BY <1>0, <1>1 DEF SwapOK
<1>4. RunOK'
  BY <1>0, <1>1 DEF RunOK, OpOK
<1>5. ASSUME ~cut' PROVE ListOK'
  BY <1>5, <1>files DEF ListOK
<1>6. ASSUME ~cut' PROVE CopyOK'
  BY <1>0, <1>1, <1>6 DEF CopyOK, OpOK
<1> QED BY <1>1, <1>2, <1>3, <1>4, <1>5, <1>6

LEMMA UninstallKeeps ==
  ASSUME ExtensionInv, Uninstall
  PROVE  ExtensionInv'
<1> USE DEF ExtensionInv, Uninstall, At, GoTo, Finish, disk, memory
<1>0. TypeOK /\ OpOK /\ SwapOK /\ RunOK
  OBVIOUS
<1>1. TypeOK'
  BY <1>0, Bounds DEF TypeOK, Records, Steps
<1>2. OpOK'
  BY <1>0, <1>1 DEF OpOK, Acting
<1>3. SwapOK'
  BY <1>0, <1>1 DEF SwapOK
<1>4. RunOK'
  BY <1>0, <1>1 DEF RunOK, OpOK
<1>5. ASSUME ~cut' PROVE ListOK'
  BY <1>0, <1>1, <1>5 DEF ListOK, UpToDate, SwapFinished, ManifestVersion, Absent, Acting
<1>6. ASSUME ~cut' PROVE CopyOK'
  BY <1>0, <1>1, <1>6 DEF CopyOK, OpOK
<1> QED BY <1>1, <1>2, <1>3, <1>4, <1>5, <1>6

LEMMA EnableKeeps ==
  ASSUME ExtensionInv, Enable
  PROVE  ExtensionInv'
<1> USE DEF ExtensionInv, Enable, At, GoTo, Finish, disk, memory
<1>0. TypeOK /\ OpOK /\ SwapOK /\ RunOK
  OBVIOUS
<1>read. current \in Dirs /\ current.version \in Versions
  BY DirsOK, PartsOK DEF TypeOK, Parts
<1>new. /\ registry' \in Records /\ registry'.version = current.version
        /\ registry'.enabled = TRUE
  <2>1. registry \in Records
    BY TypesGive
  <2>2. registry' = [version |-> current.version, enabled |-> TRUE,
                     failed |-> registry.failed]
    <3>1. TRUE \in BOOLEAN
      BY ONLY <2>1, RecordsOK
    <3>2. registry' = [registry EXCEPT !.version = current.version, !.enabled = TRUE]
      BY DEF Refreshed
    <3>3. current.version \in Versions
      BY <1>read
    <3> QED BY ONLY <2>1, <3>1, <3>2, <3>3, ChangedRecord
  <2> QED BY <1>read, <2>1, <2>2, RecordsOK, MadeRecord
<1>1. TypeOK'
  <2>1. running' \in 0 .. MaxVersion
    BY <1>read, Bounds DEF TypeOK
  <2> QED BY <1>0, <1>new, <2>1 DEF TypeOK
<1>2. OpOK'
  BY <1>0, <1>1 DEF OpOK, Acting
<1>3. SwapOK'
  BY <1>0, <1>1 DEF SwapOK
<1>4. RunOK'
  BY <1>new, RecordsOK DEF RunOK
<1>5. ASSUME ~cut' PROVE ListOK'
  <2>1. ManifestVersion(current) # 0
    BY <1>read, PartsOK, DirsOK DEF ManifestVersion, Versions
  <2> QED BY <1>5, <1>new, <2>1, RecordsOK DEF ListOK, Acting, UpToDate, SwapFinished
<1>6. ASSUME ~cut' PROVE CopyOK'
  BY <1>0, <1>1, <1>6 DEF CopyOK, OpOK
<1> QED BY <1>1, <1>2, <1>3, <1>4, <1>5, <1>6

LEMMA DisableKeeps ==
  ASSUME ExtensionInv, Disable
  PROVE  ExtensionInv'
<1> USE DEF ExtensionInv, Disable, At, GoTo, Finish, disk, memory
<1>0. TypeOK /\ OpOK /\ SwapOK /\ RunOK
  OBVIOUS
<1>new. /\ registry' \in Records /\ registry'.version = registry.version
        /\ registry'.enabled = FALSE
  <2>1. registry \in Records
    BY TypesGive
  <2>2. registry' = [version |-> registry.version, enabled |-> FALSE,
                     failed |-> registry.failed]
    BY <2>1, RecordsOK, ChangedRecord
  <2>3. registry.version \in Versions /\ registry.failed \in 0 .. MaxVersion /\ FALSE \in BOOLEAN
    BY ONLY <2>1, RecordsOK
  <2>4. registry' \in Records
    BY ONLY <2>2, <2>3, MadeRecord
  <2> QED BY ONLY <2>2, <2>4
<1>1. TypeOK'
  BY <1>0, <1>new, Bounds DEF TypeOK
<1>2. OpOK'
  BY <1>0, <1>1 DEF OpOK, Acting
<1>3. SwapOK'
  BY <1>0, <1>1 DEF SwapOK
<1>4. RunOK'
  BY <1>new, RecordsOK DEF RunOK
<1>5. ASSUME ~cut' PROVE ListOK'
  BY <1>0, <1>5, <1>new, RecordsOK DEF ListOK, Acting, UpToDate, SwapFinished
<1>6. ASSUME ~cut' PROVE CopyOK'
  BY <1>0, <1>1, <1>6 DEF CopyOK, OpOK
<1> QED BY <1>1, <1>2, <1>3, <1>4, <1>5, <1>6

LEMMA RestartKeeps ==
  ASSUME ExtensionInv, Restart
  PROVE  ExtensionInv'
<1> USE DEF ExtensionInv, Restart, At, GoTo, Finish, disk, memory
<1>0. TypeOK /\ OpOK /\ SwapOK /\ RunOK
  OBVIOUS
<1>read. current \in Dirs /\ current.version \in Versions
  BY DirsOK, PartsOK DEF TypeOK, Parts
<1>new. /\ registry' \in Records /\ registry'.version = current.version
        /\ registry'.enabled = registry.enabled
  <2>1. registry \in Records
    BY TypesGive
  <2>2. registry' = [version |-> current.version, enabled |-> registry.enabled,
                     failed |-> registry.failed]
    <3>1. registry' = [registry EXCEPT !.version = current.version, !.enabled = registry.enabled]
      BY DEF Refreshed
    <3>2. current.version \in Versions
      BY <1>read
    <3> QED BY ONLY <2>1, <3>1, <3>2, RenewedRecord
  <2> QED BY <1>read, <2>1, <2>2, RecordsOK, MadeRecord
<1>1. TypeOK'
  <2>1. running' \in 0 .. MaxVersion
    BY <1>read, Bounds DEF TypeOK
  <2> QED BY <1>0, <1>new, <2>1 DEF TypeOK
<1>2. OpOK'
  BY <1>0, <1>1 DEF OpOK, Acting
<1>3. SwapOK'
  BY <1>0, <1>1 DEF SwapOK
<1>4. RunOK'
  BY <1>new, RecordsOK DEF RunOK
<1>5. ASSUME ~cut' PROVE ListOK'
  <2>1. ManifestVersion(current) # 0
    BY <1>read, PartsOK, DirsOK DEF ManifestVersion, Versions
  <2> QED BY <1>5, <1>new, <2>1, RecordsOK DEF ListOK, Acting, UpToDate, SwapFinished
<1>6. ASSUME ~cut' PROVE CopyOK'
  BY <1>0, <1>1, <1>6 DEF CopyOK, OpOK
<1> QED BY <1>1, <1>2, <1>3, <1>4, <1>5, <1>6

LEMMA CrashKeeps ==
  ASSUME ExtensionInv, Crash
  PROVE  ExtensionInv'
<1> USE DEF ExtensionInv, Crash, At, GoTo, Finish, disk, memory
<1>0. TypeOK /\ OpOK /\ SwapOK /\ RunOK
  OBVIOUS
<1>files. /\ state' \in {None, state} /\ releases' \in [Versions -> Parts]
          /\ current' \in Dirs /\ previous' \in Dirs /\ cut' \in BOOLEAN
          /\ ~cut' => \/ ~cut /\ state' = state
                      \/ state' = None
  <2>1. CASE step = "clear"
    BY <2>1, RemainsOK DEF FilesLeft, FallsShort, TypeOK
  <2>2. CASE step = "drop"
    <3>1. op.target \in Versions
      BY <2>2, ActingOK DEF Acting
    <3>2. \A part \in PartsLeft(releases[op.target]) :
             [releases EXCEPT ![op.target] = part] \in [Versions -> Parts]
      BY <3>1, PartsOK DEF TypeOK
    <3> QED BY <2>2, <3>2 DEF FilesLeft, TypeOK
  <2>3. CASE step \notin {"clear", "drop"}
    BY <2>3, RemainsOK DEF FilesLeft, TypeOK
  <2> QED BY <2>1, <2>2, <2>3
<1>1. TypeOK'
  BY <1>0, <1>files, Bounds DEF TypeOK, Steps
<1>2. OpOK'
  BY DEF OpOK, Acting
<1>3. SwapOK'
  BY DEF SwapOK
<1>4. RunOK'
  BY DEF RunOK
<1>5. ASSUME ~cut' PROVE ListOK'
  <2> SUFFICES ASSUME state' # None PROVE ListOK'
    BY DEF ListOK
  <2>1. ~cut /\ state' = state /\ state # None
    BY <1>5, <1>files
  <2>2. step # "clear"
    BY <1>5 DEF FilesLeft, FallsShort
  <2>3. \A w \in ToSet(state.kept) : releases'[w] = "whole"
    <3>1. CASE step = "drop"
      <4>1. \A w \in Versions : w # op.target => releases'[w] = releases[w]
        BY <3>1 DEF FilesLeft, TypeOK
      <4>2. \A w \in ToSet(state.kept) : w \in Versions /\ w # op.target
        <5>1. op.target \in Versions
          BY <3>1, ActingOK DEF Acting
        <5> QED BY <2>1, <3>1, <5>1, TypesGive DEF ListOK, Acting
      <4> QED BY <2>1, <4>1, <4>2 DEF ListOK
    <3>2. CASE step # "drop"
      BY <2>1, <2>2, <3>2 DEF FilesLeft, ListOK
    <3> QED BY <3>1, <3>2
  <2>4. /\ current' = current \/ current' \in Remains(current)
        /\ previous' = previous \/ previous' \in Remains(previous)
    BY <2>2 DEF FilesLeft
  <2>5. UpToDate(current)'
    BY <2>1, <2>4, RemainsOK DEF ListOK, TypeOK, UpToDate
  <2>6. UpToDate(previous)' \/ SwapFinished'
    <3>1. CASE UpToDate(previous)
      BY <2>1, <2>4, <3>1, RemainsOK DEF TypeOK, UpToDate
    <3>2. CASE ~UpToDate(previous)
      <4>1. SwapFinished /\ step # "undo"
        BY <2>1, <3>2 DEF ListOK
      <4>2. current' = current
        BY <2>2, <4>1 DEF FilesLeft
      <4> QED BY <2>1, <4>1, <4>2 DEF SwapFinished
    <3> QED BY <3>1, <3>2
  <2> QED BY <2>1, <2>2, <2>3, <2>5, <2>6 DEF ListOK, Acting
<1>6. ASSUME ~cut' PROVE CopyOK'
  BY DEF CopyOK
<1> QED BY <1>1, <1>2, <1>3, <1>4, <1>5, <1>6

LEMMA BootKeeps ==
  ASSUME ExtensionInv, Boot
  PROVE  ExtensionInv'
<1> USE DEF ExtensionInv, Boot, At, GoTo, Finish, disk, memory
<1>0. TypeOK /\ OpOK /\ SwapOK /\ RunOK
  OBVIOUS
<1>dirs. current' = Recovered /\ previous' = Absent /\ current' \in Dirs /\ previous' \in Dirs
  BY RecoveredOK, AbsentOK DEF RecoverRuntimeSwap
<1>1. TypeOK'
  BY <1>0, <1>dirs DEF TypeOK, Steps
<1>2. OpOK'
  BY <1>0, <1>1 DEF OpOK, Acting
<1>3. SwapOK'
  BY <1>0, <1>1 DEF SwapOK
<1>4. RunOK'
  BY <1>0, <1>1 DEF RunOK, OpOK
<1>5. ASSUME ~cut' PROVE ListOK'
  <2>1. state # None => UpToDate(Recovered)
    BY <1>5, RecoveredOK
  <2>2. state # None => UpToDate(current)' /\ UpToDate(previous)'
    BY <1>dirs, <2>1 DEF UpToDate, ManifestVersion, Absent
  <2> QED BY <1>0, <1>5, <2>2 DEF ListOK, Acting
<1>6. ASSUME ~cut' PROVE CopyOK'
  BY <1>0, <1>1, <1>6 DEF CopyOK, OpOK
<1> QED BY <1>1, <1>2, <1>3, <1>4, <1>5, <1>6

LEMMA RestoreKeeps ==
  ASSUME ExtensionInv, Restore
  PROVE  ExtensionInv'
<1> USE DEF ExtensionInv, Restore, At, GoTo, Finish, disk, memory
<1>0. TypeOK /\ OpOK /\ SwapOK /\ RunOK
  OBVIOUS
<1>same. CASE UNCHANGED <<registry, memory>>
  BY <1>0, <1>same DEF TypeOK, Steps, OpOK, Acting, SwapOK, RunOK, ListOK, CopyOK, UpToDate,
     SwapFinished
<1> SUFFICES ASSUME registry # None, registry.enabled, TRUE \in Verdicts(current.part),
                    registry' = Refreshed(TRUE), known' = TRUE,
                    running' \in {0, current.version}, step' = "idle"
             PROVE  ExtensionInv'
  BY <1>same
<1>read. current \in Dirs /\ current.version \in Versions
  BY DirsOK, PartsOK DEF TypeOK, Parts
<1>new. /\ registry' \in Records /\ registry'.version = current.version
        /\ registry'.enabled = TRUE
  <2>1. registry \in Records
    BY TypesGive
  <2>2. registry' = [version |-> current.version, enabled |-> TRUE,
                     failed |-> registry.failed]
    <3>1. TRUE \in BOOLEAN
      BY ONLY <2>1, RecordsOK
    <3>2. registry' = [registry EXCEPT !.version = current.version, !.enabled = TRUE]
      BY DEF Refreshed
    <3>3. current.version \in Versions
      BY <1>read
    <3> QED BY ONLY <2>1, <3>1, <3>2, <3>3, ChangedRecord
  <2> QED BY <1>read, <2>1, <2>2, RecordsOK, MadeRecord
<1>1. TypeOK'
  <2>1. running' \in 0 .. MaxVersion
    BY <1>read, Bounds DEF TypeOK
  <2> QED BY <1>0, <1>new, <2>1 DEF TypeOK, Steps
<1>2. OpOK'
  BY <1>0, <1>1 DEF OpOK, Acting
<1>3. SwapOK'
  BY <1>0, <1>1 DEF SwapOK
<1>4. RunOK'
  BY <1>new, RecordsOK DEF RunOK
<1>5. ASSUME ~cut' PROVE ListOK'
  <2>1. ManifestVersion(current) # 0
    BY <1>read, PartsOK, DirsOK DEF ManifestVersion, Versions
  <2> QED BY <1>5, <1>new, <2>1, RecordsOK DEF ListOK, Acting, UpToDate, SwapFinished
<1>6. ASSUME ~cut' PROVE CopyOK'
  BY <1>0, <1>1, <1>6 DEF CopyOK, OpOK
<1> QED BY <1>1, <1>2, <1>3, <1>4, <1>5, <1>6

-----------------------------------------------------------------------------
(* The theorems.                                                            *)

LEMMA InitKeeps ==
  ASSUME Init
  PROVE  ExtensionInv
<1>1. TypeOK
  BY AbsentOK, Bounds DEF Init, TypeOK, Steps, Parts
<1>2. OpOK /\ SwapOK /\ RunOK
  BY DEF Init, OpOK, SwapOK, RunOK, Acting
<1>3. ListOK /\ CopyOK
  BY DEF Init, ListOK, CopyOK
<1> QED BY <1>1, <1>2, <1>3 DEF ExtensionInv

LEMMA StutterKeeps ==
  ASSUME ExtensionInv, UNCHANGED vars
  PROVE  ExtensionInv'
<1> USE DEF ExtensionInv, vars
<1>1. TypeOK' /\ SwapOK' /\ RunOK'
  BY DEF TypeOK, SwapOK, RunOK
<1>2. OpOK'
  BY DEF OpOK
<1>3. ASSUME ~cut' PROVE ListOK' /\ CopyOK'
  BY <1>3 DEF ListOK, CopyOK, UpToDate, SwapFinished
<1> QED BY <1>1, <1>2, <1>3

LEMMA StepKeeps ==
  ASSUME ExtensionInv, [Next]_vars
  PROVE  ExtensionInv'
<1>1. CASE UNCHANGED vars
  BY <1>1, StutterKeeps
<1>2. CASE \E v \in Versions, automatic \in BOOLEAN : Begin(v, automatic)
  BY <1>2, BeginKeeps
<1>3. CASE Commit \/ Check \/ PrepareRuntime \/ SwapOut \/ SwapIn
  BY <1>3, CommitKeeps, CheckKeeps, PrepareRuntimeKeeps, SwapOutKeeps, SwapInKeeps
<1>4. CASE Record \/ Load \/ Activate \/ CommitRuntime
  BY <1>4, RecordKeeps, LoadKeeps, ActivateKeeps, CommitRuntimeKeeps
<1>5. CASE RollbackRuntime \/ PutBack \/ Reload \/ MarkFailed \/ RemoveVersion \/ Clear
  BY <1>5, RollbackRuntimeKeeps, PutBackKeeps, ReloadKeeps, MarkFailedKeeps, RemoveVersionKeeps,
     ClearKeeps
<1>6. CASE Uninstall \/ Enable \/ Disable \/ Restart
  BY <1>6, UninstallKeeps, EnableKeeps, DisableKeeps, RestartKeeps
<1>7. CASE Crash \/ Boot \/ Restore
  BY <1>7, CrashKeeps, BootKeeps, RestoreKeeps
<1> QED BY <1>1, <1>2, <1>3, <1>4, <1>5, <1>6, <1>7 DEF Next

\* The invariant holds at every step of every run.
THEOREM Transaction == Spec => []ExtensionInv
<1>1. Init => ExtensionInv
  BY InitKeeps
<1>2. ExtensionInv /\ [Next]_vars => ExtensionInv'
  BY StepKeeps
<1> QED BY <1>1, <1>2, PTL DEF Spec

\* ReleasesKept for any number of versions and of releases kept: no failure, rollback or crash
\* of the manager takes a file from a release that state.json lists.
THEOREM ReleasesStay == Spec => []ReleasesKept
<1>1. ExtensionInv => ReleasesKept
  BY DEF ExtensionInv, ReleasesKept, ListOK
<1> QED BY <1>1, Transaction, PTL

\* RunsCanBeStopped: disable and remove reach whatever runs between two operations.
THEOREM WhatRunsStops == Spec => []RunsCanBeStopped
<1>1. ExtensionInv => RunsCanBeStopped
  BY DEF ExtensionInv, RunOK, RunsCanBeStopped
<1> QED BY <1>1, Transaction, PTL

\* CrashUndoesOrCompletes: up to the write of state.json a crash leads back to the directory
\* that ran before the activation, and after it to the files of the new version.
THEOREM ActivationIsOneStep == Spec => []CrashUndoesOrCompletes
<1>1. ASSUME ExtensionInv PROVE CrashUndoesOrCompletes
  <2> SUFFICES ASSUME ~cut, op # None PROVE CrashUndoesOrCompletes
    BY DEF CrashUndoesOrCompletes
  <2> USE <1>1 DEF ExtensionInv
  <2>1. ASSUME step \in {"swapOut", "swapIn", "record", "load", "write"}, op.old # Absent
        PROVE  Recovered = op.old
    <3>1. CASE step = "swapOut"
      BY <3>1 DEF SwapOK, Recovered
    <3>2. CASE step = "swapIn"
      BY <2>1, <3>2 DEF SwapOK, Recovered
    <3>3. CASE step \in {"record", "load", "write"}
      <4>1. /\ current = [version |-> op.target, part |-> op.copy]
            /\ previous = op.old
        BY <3>3 DEF SwapOK
      <4>2. op.copy = "whole" /\ op.target \in Versions
        BY <3>3, ActingOK DEF CopyOK, Acting
      <4>3. state # None => state.active < op.target /\ state.active \in Nat
        BY <3>3, TypesGive DEF ListOK, Acting
      <4>4. ~SwapFinished
        BY <4>1, <4>2, <4>3 DEF SwapFinished, ManifestVersion, Versions
      <4> QED BY <2>1, <4>1, <4>4 DEF Recovered
    <3> QED BY <2>1, <3>1, <3>2, <3>3
  <2>2. ASSUME At("tidy") PROVE Recovered = [version |-> op.target, part |-> op.copy]
    <3>1. step = "tidy"
      BY <2>2 DEF At
    <3>2. current = [version |-> op.target, part |-> op.copy] /\ op.copy = "whole"
      BY <3>1 DEF SwapOK, CopyOK
    <3>3. state # None /\ state.active = op.target /\ op.target \in Versions
      BY <3>1, ActingOK DEF OpOK, ListOK, Acting
    <3> QED BY <3>2, <3>3 DEF Recovered, SwapFinished, ManifestVersion, Absent
  <2> QED BY <2>1, <2>2 DEF CrashUndoesOrCompletes
<1> QED BY <1>1, Transaction, PTL

\* ActiveNeverFalls: state.json never goes back to an older version, however activations fail.
THEOREM ActiveOnlyRises == Spec => ActiveNeverFalls
<1> DEFINE Rises == ~cut /\ state # None /\ state' # None => state'.active >= state.active
<1>1. ExtensionInv /\ [Next]_vars => [Rises]_vars
  <2> SUFFICES ASSUME ExtensionInv, Next, ~cut, state # None, state' # None
               PROVE  state'.active >= state.active
    OBVIOUS
  <2>1. state.active \in Nat
    BY TypesGive DEF ExtensionInv
  <2>2. CASE state' = state
    BY <2>1, <2>2
  <2>3. CASE Activate /\ state' # state
    <3>1. step = "write" /\ state'.active = op.target
      BY <2>3 DEF Activate, At
    <3>2. op.target \in Nat /\ state.active < op.target
      BY <3>1, ActingOK, TypesGive DEF ExtensionInv, ListOK, Acting
    <3> QED BY <2>1, <3>1, <3>2
  <2>4. CASE ~Activate
    <3>1. state' \in {state, None}
      BY <2>4 DEF Next, Begin, Commit, Check, PrepareRuntime, SwapOut, SwapIn, Record, Load,
         CommitRuntime, RollbackRuntime, PutBack, Reload, MarkFailed, RemoveVersion, Clear,
         Uninstall, Enable, Disable, Restart, Crash, FilesLeft, FallsShort, Boot, Restore, disk
    <3> QED BY <2>2, <3>1
  <2> QED BY <2>2, <2>3, <2>4
<1> QED BY <1>1, Transaction, PTL DEF Spec, ActiveNeverFalls
=============================================================================
