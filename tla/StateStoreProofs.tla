--------------------------- MODULE StateStoreProofs ---------------------------
(***************************************************************************)
(* Proofs about the store of one deployment, for any number of processes,  *)
(* directories, keys and power losses: the types, who may have a directory *)
(* open, that an acknowledged state keeps its seal key, and that the whole *)
(* store is one durable register.                                          *)
(***************************************************************************)
EXTENDS StateStore, TLAPS

OpenSteps == {"open", "write", "rename", "sync directory", "confirm"}
WholeSteps == {"sync key", "revalidate"} \cup OpenSteps
KeySteps == {"read key", "fill"} \cup WholeSteps

\* A state is there and carries the seal of the key beside it.
Fits(e) == e.state # Nil /\ e.key = e.state.key

-----------------------------------------------------------------------------
(* The inductive invariant.                                                 *)

\* The lock, the directory and the key file of an open store are one place.
Placed(h) ==
  /\ h.pc = "closed" <=> h.lock = Nil
  /\ h.lock # Nil => h.lock <= root
  /\ h.pc \in OpenSteps => h.lock = h.directory /\ h.lock = h.keyFile

\* The key a process holds is the file it opened or made, still in its place.
Keyed(h) ==
  h.pc \in KeySteps => h.keyFile \in Dir /\ h.key \in Key /\ entries[h.keyFile].key = h.key

\* The version a process holds is that of the state, or the next while it writes.
Versioned(h) ==
  /\ h.known => h.pc \in OpenSteps
  /\ h.pc = "open" /\ h.known /\ h.lock = 1 => h.version = VersionIn(entries[1])
  /\ h.pc \in {"write", "rename"} => h.version # 0
  /\ h.pc \in {"write", "rename"} /\ h.lock = 1 => h.version = VersionIn(entries[1]) + 1
  /\ h.pc \in {"sync directory", "confirm"} /\ root = 1 =>
       Fits(entries[1]) /\ h.version = VersionIn(entries[1])
  /\ h.pc = "confirm" /\ root = 1 => Fits(disk[1]) /\ disk[1].state = entries[1].state

Apart == \A p, q \in Proc : p # q /\ store[p].lock # Nil => store[p].lock # store[q].lock

\* A key file whose entry is on disk is the one in its place.
DiskKeys == \A d \in Dir : disk[d].key # entries[d].key => disk[d].key = Nil

\* SealFitsKey, but for the bytes of the key.
OrderedFits ==
  ordered => /\ entries[1].state # Nil => Fits(entries[1])
             /\ disk[1].state # Nil => Fits(disk[1])
AcknowledgedFits == acknowledged[1] # 0 => Fits(entries[1]) /\ Fits(disk[1])

Versions ==
  /\ acknowledged[1] <= VersionIn(disk[1])
  /\ VersionIn(disk[1]) <= VersionIn(entries[1])

Inv ==
  /\ TypeOK
  /\ \A p \in Proc : Placed(store[p]) /\ Keyed(store[p]) /\ Versioned(store[p])
  /\ Apart
  /\ DiskKeys
  /\ OrderedFits
  /\ AcknowledgedFits
  /\ Versions

-----------------------------------------------------------------------------
LEMMA Constants ==
  /\ 1 \in Dir
  /\ Nil \notin Nat /\ Nil \notin Dir /\ Nil \notin Key /\ Nil \notin Sealed
  /\ Dir \subseteq Nat /\ Key \subseteq Nat
BY StoreAssumption DEF Dir, Key

LEMMA ClosedIsSound ==
  /\ Closed \in Handle
  /\ Placed(Closed) /\ Keyed(Closed) /\ Versioned(Closed)
<1>1. Closed \in Handle
  BY StoreAssumption DEF Closed, Handle, Step
<1>2. Closed.pc = "closed" /\ Closed.lock = Nil /\ ~Closed.known
  BY DEF Closed
<1> QED
  BY <1>1, <1>2 DEF Placed, Keyed, Versioned, OpenSteps, WholeSteps, KeySteps

LEMMA VersionTyped == ASSUME NEW e \in Entries PROVE VersionIn(e) \in 0 .. MaxVersion
BY StoreAssumption DEF VersionIn, Entries, Sealed, Version

LEMMA InitInv == Init => Inv
<1> SUFFICES ASSUME Init PROVE Inv
  OBVIOUS
<1>1. TypeOK
  BY Constants, StoreAssumption, ClosedIsSound DEF Init, TypeOK, Entries
<1>2. \A p \in Proc : Placed(store[p]) /\ Keyed(store[p]) /\ Versioned(store[p])
  BY ClosedIsSound DEF Init
<1>3. Apart
  BY DEF Init, Apart, Closed
<1>4. DiskKeys
  BY DEF Init, DiskKeys
<1>5. entries[1].state = Nil /\ disk[1].state = Nil /\ acknowledged[1] = 0
  BY Constants DEF Init
<1>6. OrderedFits /\ AcknowledgedFits /\ Versions
  BY <1>5 DEF OrderedFits, AcknowledgedFits, Versions, VersionIn
<1> QED
  BY <1>1, <1>2, <1>3, <1>4, <1>6 DEF Inv

-----------------------------------------------------------------------------
(* A step that changes nothing but what one process holds and the bytes of  *)
(* key files.                                                               *)
BytesTyped == written \subseteq Key /\ durable \subseteq Key /\ abandoned \subseteq Key
Quiet == UNCHANGED <<root, entries, disk, acknowledged, keys, powerLosses, ordered>> /\ BytesTyped'

LEMMA BytesStay == ASSUME Inv, UNCHANGED keyBytes PROVE BytesTyped'
BY DEF Inv, TypeOK, BytesTyped, keyBytes

LEMMA HandleKeeps ==
  ASSUME Inv, NEW p \in Proc, NEW h \in Handle, Become(p, h), Quiet,
         Placed(h), Keyed(h), Versioned(h),
         \/ h.lock = store[p].lock
         \/ \A q \in Proc : store[q].lock # h.lock
         \/ h.lock = Nil
  PROVE  Inv'
<1>1. store' = [store EXCEPT ![p] = h] /\ store \in [Proc -> Handle]
  BY DEF Become, Inv, TypeOK
<1>2. \A q \in Proc : store'[q] = IF q = p THEN h ELSE store[q]
  BY <1>1
<1>3. TypeOK'
  BY <1>1 DEF Inv, TypeOK, Quiet, BytesTyped
<1>4. \A q \in Proc : (Placed(store[q]) /\ Keyed(store[q]) /\ Versioned(store[q]))'
  <2>1. ASSUME NEW q \in Proc
        PROVE  Placed(store'[q]) /\ Keyed(store'[q]) /\ Versioned(store'[q])
    BY <1>2 DEF Inv
  <2>2. UNCHANGED <<root, entries, disk>>
    BY DEF Quiet
  <2>3. ASSUME NEW q \in Proc
        PROVE  Placed(store[q])' /\ Keyed(store[q])' /\ Versioned(store[q])'
    BY <2>1, <2>2 DEF Placed, Keyed, Versioned, VersionIn, Fits
  <2> QED
    BY <2>3
<1>5. Apart'
  BY <1>2 DEF Inv, Apart
<1>6. DiskKeys' /\ OrderedFits' /\ AcknowledgedFits' /\ Versions'
  BY DEF Inv, Quiet, DiskKeys, OrderedFits, AcknowledgedFits, Fits, Versions, VersionIn
<1> QED
  BY <1>3, <1>4, <1>5, <1>6 DEF Inv

LEMMA FailKeeps == ASSUME Inv, NEW p \in Proc, Fail(p), Quiet PROVE Inv'
<1>1. Closed.lock = Nil
  BY DEF Closed
<1> QED
  BY <1>1, ClosedIsSound, HandleKeeps DEF Fail

LEMMA LockKeeps == ASSUME Inv, NEW p \in Proc, Lock(p) PROVE Inv'
<1> DEFINE h == [Closed EXCEPT !.pc = "identify", !.lock = root]
<1>0. Closed \in Handle /\ Closed.known = FALSE
  BY ClosedIsSound DEF Closed
<1>1. h \in Handle /\ h.pc = "identify" /\ h.lock = root /\ ~h.known
  BY <1>0 DEF Handle, Step, Inv, TypeOK
<1>2. root \in Dir /\ root # Nil /\ root <= root
  BY Constants DEF Inv, TypeOK, Dir
<1>3. Become(p, h) /\ Quiet /\ \A q \in Proc : store[q].lock # h.lock
  BY <1>1, BytesStay DEF Lock, Quiet
<1> HIDE DEF h
<1>4. Placed(h) /\ Keyed(h) /\ Versioned(h)
  BY <1>1, <1>2 DEF Placed, Keyed, Versioned, OpenSteps, WholeSteps, KeySteps
<1> QED
  BY <1>1, <1>3, <1>4, HandleKeeps

\* What the invariant says of the process that takes a step.
LEMMA Typed ==
  ASSUME Inv, NEW p \in Proc
  PROVE  /\ store[p] \in Handle /\ root \in Dir /\ root # Nil
         /\ Placed(store[p]) /\ Keyed(store[p]) /\ Versioned(store[p])
         /\ \A d \in Dir : entries[d] \in Entries /\ disk[d] \in Entries
BY Constants DEF Inv, TypeOK

LEMMA IdentifyKeeps == ASSUME Inv, NEW p \in Proc, Identify(p) PROVE Inv'
<1> DEFINE h == [store[p] EXCEPT !.pc = "load", !.directory = root]
<1>1. /\ h \in Handle /\ h.pc = "load" /\ h.lock = store[p].lock /\ h.known = store[p].known
  BY Typed DEF Handle, Step
<1>2. Become(p, h) /\ Quiet /\ store[p].pc = "identify"
  BY BytesStay DEF Identify, Quiet, At
<1> HIDE DEF h
<1>3. Placed(h) /\ Keyed(h) /\ Versioned(h)
  BY <1>1, <1>2, Typed DEF Placed, Keyed, Versioned, OpenSteps, WholeSteps, KeySteps
<1> QED
  BY <1>1, <1>2, <1>3, HandleKeeps

LEMMA OpenKeyKeeps == ASSUME Inv, NEW p \in Proc, OpenKey(p) PROVE Inv'
<1> DEFINE h == [store[p] EXCEPT !.pc = "read key", !.keyFile = root, !.key = entries[root].key]
<1>1. entries[root].key \in Key
  BY Typed DEF OpenKey, Entries
<1>2. /\ h \in Handle /\ h.pc = "read key" /\ h.lock = store[p].lock
      /\ h.keyFile = root /\ h.key = entries[root].key /\ h.known = store[p].known
  BY <1>1, Typed DEF Handle, Step
<1>3. Become(p, h) /\ Quiet /\ store[p].pc = "load"
  BY BytesStay DEF OpenKey, Quiet, At
<1> HIDE DEF h
<1>4. Placed(h) /\ Keyed(h) /\ Versioned(h)
  BY <1>1, <1>2, <1>3, Typed DEF Placed, Keyed, Versioned, OpenSteps, WholeSteps, KeySteps
<1> QED
  BY <1>2, <1>3, <1>4, HandleKeeps

\* A step from one part of opening to the next.
LEMMA MoveKeeps ==
  ASSUME Inv, NEW p \in Proc, NEW pc \in {"sync key", "revalidate"}, Goto(p, pc), Quiet,
         store[p].pc \in {"read key", "fill", "sync key"}
  PROVE  Inv'
<1> DEFINE h == [store[p] EXCEPT !.pc = pc]
<1>1. /\ h \in Handle /\ h.pc = pc /\ h.lock = store[p].lock
      /\ h.keyFile = store[p].keyFile /\ h.key = store[p].key /\ h.known = store[p].known
  BY Typed DEF Handle, Step
<1>2. Become(p, h)
  BY DEF Goto
<1> HIDE DEF h
<1>3. Placed(h) /\ Keyed(h) /\ Versioned(h)
  BY <1>1, Typed DEF Placed, Keyed, Versioned, OpenSteps, WholeSteps, KeySteps
<1> QED
  BY <1>1, <1>2, <1>3, HandleKeeps

LEMMA ReadKeyKeeps == ASSUME Inv, NEW p \in Proc, ReadKey(p) PROVE Inv'
<1>1. Quiet /\ store[p].pc = "read key"
  BY BytesStay DEF ReadKey, Quiet, At
<1> QED
  BY <1>1, FailKeeps, MoveKeeps DEF ReadKey

LEMMA FillKeyKeeps == ASSUME Inv, NEW p \in Proc, FillKey(p) PROVE Inv'
<1>1. store[p].pc = "fill" /\ store[p].key \in Key
  BY Typed DEF FillKey, At, Keyed, KeySteps
<1>2. Quiet
  BY <1>1 DEF FillKey, Quiet, BytesTyped, Inv, TypeOK
<1> QED
  BY <1>1, <1>2, MoveKeeps DEF FillKey

LEMMA RevalidateKeeps == ASSUME Inv, NEW p \in Proc, Revalidate(p) PROVE Inv'
<1>1. CASE ~SameFiles(p)
  BY <1>1, FailKeeps, BytesStay DEF Revalidate, Quiet
<1>2. CASE SameFiles(p)
  <2> DEFINE h == [store[p] EXCEPT !.pc = "open"]
  <2>1. /\ h \in Handle /\ h.pc = "open" /\ h.lock = store[p].lock /\ h.directory = store[p].directory
        /\ h.keyFile = store[p].keyFile /\ h.key = store[p].key /\ h.known = store[p].known
    BY Typed DEF Handle, Step
  <2>2. Become(p, h) /\ Quiet /\ store[p].pc = "revalidate"
    BY <1>2, BytesStay DEF Revalidate, Goto, Quiet, At
  <2>3. store[p].lock = root /\ store[p].directory = root /\ store[p].keyFile = root
    BY <1>2 DEF SameFiles
  <2>4. ~h.known /\ root \in Dir /\ store[p].key \in Key /\ entries[root].key = store[p].key
    BY <2>1, <2>2, <2>3, Typed DEF Keyed, Versioned, OpenSteps, WholeSteps, KeySteps
  <2> HIDE DEF h
  <2>5. Placed(h) /\ Keyed(h) /\ Versioned(h)
    BY <2>1, <2>2, <2>3, <2>4, Typed DEF Placed, Keyed, Versioned, OpenSteps, WholeSteps, KeySteps
  <2> QED
    BY <2>1, <2>2, <2>5, HandleKeeps
<1> QED
  BY <1>1, <1>2

LEMMA ReadKeeps == ASSUME Inv, NEW p \in Proc, Read(p) PROVE Inv'
<1> DEFINE good == SameFiles(p)
                   /\ (entries[root].state # Nil => entries[root].state.key = store[p].key)
           h == [store[p] EXCEPT !.version = VersionIn(entries[root]), !.known = TRUE]
<1>1. CASE ~good
  BY <1>1, FailKeeps, BytesStay DEF Read, Quiet
<1>2. CASE good
  <2>1. /\ h \in Handle /\ h.pc = store[p].pc /\ h.lock = store[p].lock
        /\ h.directory = store[p].directory /\ h.keyFile = store[p].keyFile
        /\ h.key = store[p].key /\ h.version = VersionIn(entries[root])
    BY Typed, VersionTyped DEF Handle
  <2>2. Become(p, h) /\ Quiet /\ store[p].pc = "open"
    BY <1>2, BytesStay DEF Read, Quiet, At
  <2>3. store[p].lock = root
    BY <1>2 DEF SameFiles
  <2> HIDE DEF h
  <2>4. Placed(h) /\ Keyed(h)
    BY <2>1, <2>2, Typed DEF Placed, Keyed, OpenSteps, WholeSteps, KeySteps
  <2>5. h.pc = "open" /\ h.lock = root
    BY <2>1, <2>2, <2>3
  <2>6. Versioned(h)
    BY <2>1, <2>5 DEF Versioned, OpenSteps
  <2> QED
    BY <2>1, <2>2, <2>4, <2>5, <2>6, HandleKeeps
<1> QED
  BY <1>1, <1>2

LEMMA StartWriteKeeps == ASSUME Inv, NEW p \in Proc, StartWrite(p) PROVE Inv'
<1>1. CASE ~SameFiles(p)
  BY <1>1, FailKeeps, BytesStay DEF StartWrite, Quiet
<1>2. CASE SameFiles(p)
  <2> DEFINE h == [store[p] EXCEPT !.pc = "write", !.version = @ + 1]
  <2>1. store[p].version + 1 \in 0 .. MaxVersion
    BY Typed, StoreAssumption DEF StartWrite, Handle
  <2>2. /\ h \in Handle /\ h.pc = "write" /\ h.lock = store[p].lock
        /\ h.directory = store[p].directory /\ h.keyFile = store[p].keyFile
        /\ h.key = store[p].key /\ h.version = store[p].version + 1
    BY <2>1, Typed DEF Handle, Step
  <2>3. Become(p, h) /\ Quiet /\ store[p].pc = "open" /\ store[p].known
    BY <1>2, BytesStay DEF StartWrite, Quiet, At
  <2> HIDE DEF h
  <2>8. Placed(store[p]) /\ Keyed(store[p])
    BY Typed
  <2>9. Placed(h)
    BY <2>2, <2>3, <2>8 DEF Placed, OpenSteps
  <2>10. Keyed(h)
    BY <2>2, <2>3, <2>8 DEF Keyed, OpenSteps, WholeSteps, KeySteps
  <2>4. Placed(h) /\ Keyed(h)
    BY <2>9, <2>10
  <2>5. h.version # 0
    BY <2>2, Typed, StoreAssumption DEF Handle
  <2>6. h.lock = 1 => store[p].version = VersionIn(entries[1])
    BY <2>2, <2>3, Typed DEF Versioned
  <2>7. Versioned(h)
    BY <2>2, <2>5, <2>6 DEF Versioned, OpenSteps
  <2> QED
    BY <2>2, <2>3, <2>4, <2>7, HandleKeeps
<1> QED
  BY <1>1, <1>2

LEMMA WriteTemporaryKeeps == ASSUME Inv, NEW p \in Proc, WriteTemporary(p) PROVE Inv'
<1> DEFINE h == [store[p] EXCEPT !.pc = "rename", !.temporary = root]
<1>1. /\ h \in Handle /\ h.pc = "rename" /\ h.lock = store[p].lock
      /\ h.directory = store[p].directory /\ h.keyFile = store[p].keyFile
      /\ h.key = store[p].key /\ h.version = store[p].version
  BY Typed DEF Handle, Step
<1>2. Become(p, h) /\ Quiet /\ store[p].pc = "write"
  BY BytesStay DEF WriteTemporary, Quiet, At
<1> HIDE DEF h
<1>3. Placed(h) /\ Keyed(h) /\ Versioned(h)
  BY <1>1, <1>2, Typed DEF Placed, Keyed, Versioned, OpenSteps, WholeSteps, KeySteps
<1> QED
  BY <1>1, <1>2, <1>3, HandleKeeps

LEMMA SyncKeyKeeps == ASSUME Inv, NEW p \in Proc, SyncKey(p) PROVE Inv'
<1>1. store[p].pc = "sync key" /\ store[p].key \in Key
  BY Typed DEF SyncKey, At, Keyed, WholeSteps, KeySteps
<1>2. Quiet
  BY <1>1 DEF SyncKey, Quiet, BytesTyped, Inv, TypeOK
<1> QED
  BY <1>1, <1>2, MoveKeeps DEF SyncKey

LEMMA ExitKeeps == ASSUME Inv, NEW p \in Proc, Exit(p) PROVE Inv'
<1>1. abandoned' \subseteq Key
  BY Typed DEF Exit, At, Keyed, WholeSteps, KeySteps, Inv, TypeOK
<1>2. Quiet
  BY <1>1 DEF Exit, Quiet, BytesTyped, Inv, TypeOK
<1> QED
  BY <1>2, FailKeeps DEF Exit

-----------------------------------------------------------------------------
(* Steps that change a directory.                                           *)

LEMMA BecomeIs ==
  ASSUME Inv, NEW p \in Proc, NEW h \in Handle, Become(p, h)
  PROVE  /\ store' \in [Proc -> Handle]
         /\ store'[p] = h
         /\ \A q \in Proc : q # p => store'[q] = store[q]
BY DEF Become, Inv, TypeOK

LEMMA CreateKeyKeeps == ASSUME Inv, NEW p \in Proc, CreateKey(p) PROVE Inv'
<1> DEFINE h == [store[p] EXCEPT !.pc = "fill", !.keyFile = root, !.key = keys + 1]
           e == [entries[root] EXCEPT !.key = keys + 1]
<1>1. /\ keys + 1 \in Key /\ keys + 1 \in 0 .. MaxKeys
  BY StoreAssumption DEF CreateKey, Inv, TypeOK, Key
<1>2. /\ h \in Handle /\ h.pc = "fill" /\ h.lock = store[p].lock
      /\ h.keyFile = root /\ h.key = keys + 1 /\ h.known = store[p].known
  BY <1>1, Typed DEF Handle, Step
<1>3. /\ Become(p, h) /\ store[p].pc = "load" /\ entries[root].key = Nil
      /\ entries' = [entries EXCEPT ![root] = e] /\ keys' = keys + 1
      /\ UNCHANGED <<root, disk, keyBytes, acknowledged, powerLosses, ordered>>
  BY DEF CreateKey, At
<1>4. e \in Entries /\ e.key = keys + 1 /\ e.state = entries[root].state
  BY <1>1, Typed DEF Entries
<1> HIDE DEF h, e
<1>5. /\ store' \in [Proc -> Handle]
      /\ store'[p].pc = "fill" /\ store'[p].lock = store[p].lock /\ store'[p].keyFile = root
      /\ store'[p].key = keys + 1 /\ store'[p].known = store[p].known
      /\ \A q \in Proc : q # p => store'[q] = store[q]
  BY <1>2, <1>3, BecomeIs
<1>6. /\ entries' \in [Dir -> Entries] /\ entries'[root] = e
      /\ \A d \in Dir : d # root => entries'[d] = entries[d]
  BY <1>3, <1>4, Typed DEF Inv, TypeOK
<1>7. TypeOK'
  BY <1>1, <1>3, <1>5, <1>6, BytesStay DEF Inv, TypeOK, BytesTyped
<1>8. /\ VersionIn(entries[1])' = VersionIn(entries[1])
      /\ Fits(entries[1]) => Fits(entries[1])' /\ entries'[1] = entries[1]
      /\ entries'[1].state = entries[1].state
      /\ VersionIn(disk[1])' = VersionIn(disk[1])
      /\ Fits(disk[1])' <=> Fits(disk[1])
  BY <1>3, <1>4, <1>6, Typed, Constants DEF VersionIn, Fits, Entries, Sealed
<1>9. ASSUME NEW q \in Proc PROVE (Placed(store[q]) /\ Keyed(store[q]) /\ Versioned(store[q]))'
  <2>1. CASE q = p
    <3>1. store'[p].known = FALSE
      BY <1>3, <1>5, Typed DEF Versioned, OpenSteps, Handle
    <3> QED
      BY <2>1, <3>1, <1>1, <1>3, <1>4, <1>5, <1>6, Typed
      DEF Placed, Keyed, Versioned, OpenSteps, WholeSteps, KeySteps
  <2>2. CASE q # p
    <3>1. Placed(store[q])'
      BY <2>2, <1>3, <1>5, Typed DEF Placed
    <3>2. Keyed(store[q])'
      BY <2>2, <1>3, <1>4, <1>5, <1>6, Typed, Constants DEF Keyed
    <3>3. Versioned(store[q])'
      <4>1. store'[q] = store[q] /\ Versioned(store[q])
        BY <2>2, <1>5, Typed
      <4> QED
        BY <4>1, <1>3, <1>8 DEF Versioned
    <3> QED
      BY <3>1, <3>2, <3>3
  <2> QED
    BY <2>1, <2>2
<1>10. Apart'
  BY <1>2, <1>3, <1>4, <1>5, Typed, Constants DEF Inv, Apart, Keyed
<1>11. DiskKeys'
  BY <1>3, <1>4, <1>6, Constants DEF Inv, DiskKeys
<1>12. OrderedFits' /\ AcknowledgedFits'
  BY <1>3, <1>6, <1>8, Typed, Constants DEF Inv, OrderedFits, AcknowledgedFits
<1>13. Versions'
  BY <1>3, <1>8, Constants DEF Inv, Versions
<1> QED
  BY <1>7, <1>9, <1>10, <1>11, <1>12, <1>13 DEF Inv

\* While the first directory is at the path, one process at most has it.
LEMMA FirstHolder ==
  ASSUME Inv, root = 1, NEW p \in Proc, store[p].pc \in OpenSteps
  PROVE  /\ store[p].lock = 1 /\ store[p].directory = 1 /\ store[p].keyFile = 1
         /\ store[p].key \in Key /\ entries[1].key = store[p].key
         /\ \A q \in Proc : q # p => store[q].pc = "closed" /\ store[q].lock = Nil
<1>1. \A q \in Proc : store[q].lock # Nil => store[q].lock = 1
  <2> SUFFICES ASSUME NEW q \in Proc, store[q].lock # Nil PROVE store[q].lock = 1
    OBVIOUS
  <2>1. store[q].lock \in Dir /\ store[q].lock <= 1
    BY Typed DEF Handle, Placed
  <2> QED
    BY <2>1, StoreAssumption DEF Dir
<1>2. store[p].lock # Nil
  BY Typed DEF Placed, OpenSteps
<1>3. store[p].lock = 1 /\ store[p].directory = 1 /\ store[p].keyFile = 1
  BY <1>1, <1>2, Typed DEF Placed
<1>4. store[p].key \in Key /\ entries[1].key = store[p].key
  BY <1>3, Typed DEF Keyed, WholeSteps, KeySteps
<1>5. \A q \in Proc : q # p => store[q].lock = Nil
  BY <1>1, <1>2 DEF Inv, Apart
<1> QED
  BY <1>3, <1>4, <1>5, Typed DEF Placed

LEMMA RenameKeeps == ASSUME Inv, NEW p \in Proc, Rename(p) PROVE Inv'
<1>0. CASE store[p].temporary # root
  BY <1>0, FailKeeps, BytesStay DEF Rename, Quiet
<1> SUFFICES ASSUME store[p].temporary = root PROVE Inv'
  BY <1>0
<1> DEFINE h == [store[p] EXCEPT !.pc = "sync directory", !.temporary = Nil]
           new == [version |-> store[p].version, key |-> store[p].key]
           e == [entries[root] EXCEPT !.state = new]
<1>1. /\ store[p].pc = "rename" /\ store[p].lock = store[p].keyFile /\ store[p].key \in Key
      /\ store[p].version \in Version /\ store[p].lock = store[p].directory
  <2>1. store[p].pc = "rename"
    BY DEF Rename, At
  <2>2. store[p].lock = store[p].keyFile /\ store[p].lock = store[p].directory
    BY <2>1, Typed DEF Placed, OpenSteps
  <2>3. store[p].key \in Key
    BY <2>1, Typed DEF Keyed, OpenSteps, WholeSteps, KeySteps
  <2>4. store[p].version # 0 /\ store[p].version \in 0 .. MaxVersion
    BY <2>1, Typed DEF Versioned, Handle
  <2> QED
    BY <2>1, <2>2, <2>3, <2>4, StoreAssumption DEF Version
<1>2. /\ h \in Handle /\ h.pc = "sync directory" /\ h.lock = store[p].lock
      /\ h.keyFile = store[p].keyFile /\ h.key = store[p].key /\ h.version = store[p].version
      /\ h.directory = store[p].directory
  BY Typed DEF Handle, Step
<1>3. /\ Become(p, h) /\ entries' = [entries EXCEPT ![root] = e]
      /\ UNCHANGED <<root, disk, keyBytes, acknowledged, keys, powerLosses, ordered>>
  BY DEF Rename
<1>4. /\ new \in Sealed /\ new.version = store[p].version /\ new.key = store[p].key
      /\ e \in Entries /\ e.key = entries[root].key /\ e.state = new
  BY <1>1, Typed DEF Entries, Sealed
<1> HIDE DEF h, e, new
<1>5. /\ store' \in [Proc -> Handle]
      /\ store'[p].pc = "sync directory" /\ store'[p].lock = store[p].lock
      /\ store'[p].keyFile = store[p].keyFile /\ store'[p].key = store[p].key
      /\ store'[p].version = store[p].version /\ store'[p].directory = store[p].directory
      /\ \A q \in Proc : q # p => store'[q] = store[q]
  BY <1>2, <1>3, BecomeIs
<1>6. /\ entries' \in [Dir -> Entries] /\ entries'[root] = e
      /\ \A d \in Dir : d # root => entries'[d] = entries[d]
      /\ \A d \in Dir : entries'[d].key = entries[d].key
  BY <1>3, <1>4, Typed DEF Inv, TypeOK
<1>7. TypeOK'
  BY <1>3, <1>5, <1>6, BytesStay DEF Inv, TypeOK, BytesTyped
<1>8. VersionIn(disk[1])' = VersionIn(disk[1]) /\ (Fits(disk[1])' <=> Fits(disk[1]))
  BY <1>3 DEF VersionIn, Fits
<1>9. ASSUME root # 1
      PROVE  /\ VersionIn(entries[1])' = VersionIn(entries[1])
             /\ Fits(entries[1])' <=> Fits(entries[1])
             /\ entries'[1] = entries[1]
  <2>1. entries'[1] = entries[1]
    BY <1>6, <1>9, Constants
  <2> QED
    BY <2>1 DEF VersionIn, Fits
<1>10. ASSUME root = 1
       PROVE  /\ Fits(entries[1])'
              /\ VersionIn(entries[1])' = store[p].version
              /\ VersionIn(entries[1])' = VersionIn(entries[1]) + 1
              /\ \A q \in Proc : q # p => store[q].pc = "closed" /\ store[q].lock = Nil
  <2>1. /\ store[p].lock = 1 /\ entries[1].key = store[p].key
        /\ \A q \in Proc : q # p => store[q].pc = "closed" /\ store[q].lock = Nil
    BY <1>1, <1>10, FirstHolder DEF OpenSteps
  <2>2. entries'[1] = e /\ new # Nil
    BY <1>4, <1>6, <1>10, Constants
  <2>3. Fits(entries[1])' /\ VersionIn(entries[1])' = store[p].version
    BY <2>1, <2>2, <1>4, <1>10 DEF Fits, VersionIn
  <2>4. store[p].version = VersionIn(entries[1]) + 1
    BY <1>1, <2>1, Typed DEF Versioned
  <2> QED
    BY <2>1, <2>3, <2>4
<1>11. ASSUME NEW q \in Proc PROVE (Placed(store[q]) /\ Keyed(store[q]) /\ Versioned(store[q]))'
  <2>1. CASE q = p
    <3>3. Placed(store[q])'
      BY <2>1, <1>1, <1>3, <1>5, Typed DEF Placed, OpenSteps
    <3>4. store[p].keyFile \in Dir /\ entries[store[p].keyFile].key = store[p].key
      BY <1>1, Typed DEF Keyed, OpenSteps, WholeSteps, KeySteps
    <3>1. Placed(store[q])' /\ Keyed(store[q])'
      BY <2>1, <3>3, <3>4, <1>1, <1>5, <1>6 DEF Keyed, OpenSteps, WholeSteps, KeySteps
    <3>2. Versioned(store[q])'
      BY <2>1, <1>3, <1>5, <1>10 DEF Versioned, OpenSteps
    <3> QED
      BY <3>1, <3>2
  <2>2. CASE q # p
    <3>3. Placed(store[q])'
      BY <2>2, <1>3, <1>5, Typed DEF Placed
    <3>4. Keyed(store[q])'
      <4>1. store'[q] = store[q] /\ Keyed(store[q])
        BY <2>2, <1>5, Typed
      <4> QED
        BY <4>1, <1>6 DEF Keyed
    <3>1. Placed(store[q])' /\ Keyed(store[q])'
      BY <3>3, <3>4
    <3>2. Versioned(store[q])'
      <4>1. store'[q] = store[q] /\ Versioned(store[q])
        BY <2>2, <1>5, Typed
      <4>2. CASE root = 1
        BY <2>2, <4>1, <4>2, <1>3, <1>10 DEF Versioned, OpenSteps
      <4>3. CASE root # 1
        BY <4>1, <4>3, <1>3, <1>8, <1>9 DEF Versioned
      <4> QED
        BY <4>2, <4>3
    <3> QED
      BY <3>1, <3>2
  <2> QED
    BY <2>1, <2>2
<1>12. Apart'
  <2>1. \A q \in Proc : store'[q].lock = store[q].lock
    BY <1>5
  <2> QED
    BY <2>1 DEF Inv, Apart
<1>13. DiskKeys'
  BY <1>3, <1>6 DEF Inv, DiskKeys
<1>14. OrderedFits' /\ AcknowledgedFits'
  BY <1>3, <1>8, <1>9, <1>10 DEF Inv, OrderedFits, AcknowledgedFits
<1>15. Versions'
  <2>1. VersionIn(entries[1]) \in Nat /\ VersionIn(disk[1]) \in Nat
    BY Typed, VersionTyped, Constants, StoreAssumption
  <2> QED
    BY <2>1, <1>3, <1>8, <1>9, <1>10 DEF Inv, Versions
<1> QED
  BY <1>7, <1>11, <1>12, <1>13, <1>14, <1>15 DEF Inv

LEMMA SyncDirectoryKeeps == ASSUME Inv, NEW p \in Proc, SyncDirectory(p) PROVE Inv'
<1> DEFINE h == [store[p] EXCEPT !.pc = "confirm"]
           e == entries[root]
<1>1. store[p].pc = "sync directory"
  BY DEF SyncDirectory, At
<1>2. /\ h \in Handle /\ h.pc = "confirm" /\ h.lock = store[p].lock
      /\ h.keyFile = store[p].keyFile /\ h.key = store[p].key /\ h.version = store[p].version
      /\ h.directory = store[p].directory /\ h.known = store[p].known
  BY Typed DEF Handle, Step
<1>3. /\ Become(p, h) /\ disk' = [disk EXCEPT ![root] = e]
      /\ UNCHANGED <<root, entries, keyBytes, acknowledged, keys, powerLosses, ordered>>
  BY DEF SyncDirectory, Goto
<1>4. e \in Entries /\ e.state = entries[root].state /\ e.key = entries[root].key
  BY Typed
<1> HIDE DEF h, e
<1>5. /\ store' \in [Proc -> Handle]
      /\ store'[p].pc = "confirm" /\ store'[p].lock = store[p].lock
      /\ store'[p].keyFile = store[p].keyFile /\ store'[p].key = store[p].key
      /\ store'[p].version = store[p].version /\ store'[p].directory = store[p].directory
      /\ \A q \in Proc : q # p => store'[q] = store[q]
  BY <1>2, <1>3, BecomeIs
<1>6. /\ disk' \in [Dir -> Entries] /\ disk'[root] = e
      /\ \A d \in Dir : d # root => disk'[d] = disk[d]
  BY <1>3, <1>4, Typed DEF Inv, TypeOK
<1>7. TypeOK'
  BY <1>3, <1>5, <1>6, BytesStay DEF Inv, TypeOK, BytesTyped
<1>8. VersionIn(entries[1])' = VersionIn(entries[1]) /\ (Fits(entries[1])' <=> Fits(entries[1]))
  BY <1>3 DEF VersionIn, Fits
<1>9. ASSUME root # 1
      PROVE  /\ VersionIn(disk[1])' = VersionIn(disk[1])
             /\ Fits(disk[1])' <=> Fits(disk[1])
             /\ disk'[1] = disk[1]
  <2>1. disk'[1] = disk[1]
    BY <1>6, <1>9, Constants
  <2> QED
    BY <2>1 DEF VersionIn, Fits
<1>10. ASSUME root = 1
       PROVE  /\ Fits(entries[1]) /\ Fits(disk[1])'
              /\ disk'[1].state = entries'[1].state
              /\ VersionIn(entries[1]) = store[p].version
              /\ VersionIn(disk[1])' = VersionIn(entries[1])
              /\ \A q \in Proc : q # p => store[q].pc = "closed" /\ store[q].lock = Nil
  <2>1. /\ entries[1].key \in Key
        /\ \A q \in Proc : q # p => store[q].pc = "closed" /\ store[q].lock = Nil
    BY <1>1, <1>10, FirstHolder DEF OpenSteps
  <2>2. Fits(entries[1]) /\ VersionIn(entries[1]) = store[p].version
    BY <1>1, <1>10, Typed DEF Versioned
  <2>3. disk'[1].state = entries[1].state /\ disk'[1].key = entries[1].key
    BY <2>1, <1>4, <1>6, <1>10, Constants
  <2>4. Fits(disk[1])' /\ VersionIn(disk[1])' = VersionIn(entries[1])
    BY <2>2, <2>3 DEF Fits, VersionIn
  <2> QED
    BY <2>1, <2>2, <2>3, <2>4, <1>3
<1>11. ASSUME NEW q \in Proc PROVE (Placed(store[q]) /\ Keyed(store[q]) /\ Versioned(store[q]))'
  <2>1. CASE q = p
    <3>1. Placed(store[q])'
      BY <2>1, <1>1, <1>3, <1>5, Typed DEF Placed, OpenSteps
    <3>2. Keyed(store[q])'
      BY <2>1, <1>1, <1>3, <1>5, Typed DEF Keyed, OpenSteps, WholeSteps, KeySteps
    <3>3. Versioned(store[q])'
      BY <2>1, <1>3, <1>5, <1>8, <1>10 DEF Versioned, OpenSteps
    <3> QED
      BY <3>1, <3>2, <3>3
  <2>2. CASE q # p
    <3>1. Placed(store[q])'
      BY <2>2, <1>3, <1>5, Typed DEF Placed
    <3>2. Keyed(store[q])'
      BY <2>2, <1>3, <1>5, Typed DEF Keyed
    <3>3. Versioned(store[q])'
      <4>1. store'[q] = store[q] /\ Versioned(store[q])
        BY <2>2, <1>5, Typed
      <4>2. CASE root = 1
        BY <2>2, <4>1, <4>2, <1>3, <1>10 DEF Versioned, OpenSteps
      <4>3. CASE root # 1
        BY <4>1, <4>3, <1>3, <1>8, <1>9 DEF Versioned
      <4> QED
        BY <4>2, <4>3
    <3> QED
      BY <3>1, <3>2, <3>3
  <2> QED
    BY <2>1, <2>2
<1>12. Apart'
  <2>1. \A q \in Proc : store'[q].lock = store[q].lock
    BY <1>5
  <2> QED
    BY <2>1 DEF Inv, Apart
<1>13. DiskKeys'
  BY <1>3, <1>4, <1>6, Typed DEF Inv, DiskKeys
<1>14. OrderedFits' /\ AcknowledgedFits'
  BY <1>3, <1>8, <1>9, <1>10 DEF Inv, OrderedFits, AcknowledgedFits
<1>15. Versions'
  <2>1. /\ VersionIn(entries[1]) \in Nat /\ VersionIn(disk[1]) \in Nat
        /\ acknowledged[1] \in Nat
    BY Typed, VersionTyped, Constants, StoreAssumption DEF Inv, TypeOK
  <2> QED
    BY <2>1, <1>3, <1>8, <1>9, <1>10 DEF Inv, Versions
<1> QED
  BY <1>7, <1>11, <1>12, <1>13, <1>14, <1>15 DEF Inv

LEMMA ConfirmKeeps == ASSUME Inv, NEW p \in Proc, Confirm(p) PROVE Inv'
<1>0. CASE ~SameFiles(p)
  BY <1>0, FailKeeps, BytesStay DEF Confirm, Quiet
<1> SUFFICES ASSUME SameFiles(p) PROVE Inv'
  BY <1>0
<1> DEFINE h == [store[p] EXCEPT !.pc = "open"]
<1>1. /\ store[p].pc = "confirm" /\ store[p].lock = root
      /\ store[p].version \in 0 .. MaxVersion
  BY Typed DEF Confirm, At, SameFiles, Handle
<1>2. /\ h \in Handle /\ h.pc = "open" /\ h.lock = store[p].lock
      /\ h.keyFile = store[p].keyFile /\ h.key = store[p].key /\ h.version = store[p].version
      /\ h.directory = store[p].directory /\ h.known = store[p].known
  BY Typed DEF Handle, Step
<1>3. /\ Become(p, h) /\ acknowledged' = [acknowledged EXCEPT ![root] = store[p].version]
      /\ UNCHANGED <<root, entries, disk, keyBytes, keys, powerLosses, ordered>>
  BY <1>1 DEF Confirm, Goto
<1> HIDE DEF h
<1>5. /\ store' \in [Proc -> Handle]
      /\ store'[p].pc = "open" /\ store'[p].lock = store[p].lock
      /\ store'[p].keyFile = store[p].keyFile /\ store'[p].key = store[p].key
      /\ store'[p].version = store[p].version /\ store'[p].directory = store[p].directory
      /\ \A q \in Proc : q # p => store'[q] = store[q]
  BY <1>2, <1>3, BecomeIs
<1>6. /\ acknowledged' \in [Dir -> 0 .. MaxVersion]
      /\ acknowledged'[1] = IF root = 1 THEN store[p].version ELSE acknowledged[1]
  BY <1>1, <1>3, Typed, Constants DEF Inv, TypeOK
<1>7. TypeOK'
  BY <1>3, <1>5, <1>6, BytesStay DEF Inv, TypeOK, BytesTyped
<1>8. /\ VersionIn(entries[1])' = VersionIn(entries[1]) /\ (Fits(entries[1])' <=> Fits(entries[1]))
      /\ VersionIn(disk[1])' = VersionIn(disk[1]) /\ (Fits(disk[1])' <=> Fits(disk[1]))
  BY <1>3 DEF VersionIn, Fits
<1>9. root = 1 => /\ Fits(entries[1]) /\ Fits(disk[1])
                  /\ VersionIn(entries[1]) = store[p].version
                  /\ VersionIn(disk[1]) = store[p].version
  BY <1>1, Typed DEF Versioned, VersionIn
<1>10. ASSUME NEW q \in Proc PROVE (Placed(store[q]) /\ Keyed(store[q]) /\ Versioned(store[q]))'
  <2>1. CASE q = p
    <3>1. Placed(store[q])'
      BY <2>1, <1>1, <1>3, <1>5, Typed DEF Placed, OpenSteps
    <3>2. Keyed(store[q])'
      BY <2>1, <1>1, <1>3, <1>5, Typed DEF Keyed, OpenSteps, WholeSteps, KeySteps
    <3>3. Versioned(store[q])'
      BY <2>1, <1>1, <1>3, <1>5, <1>8, <1>9 DEF Versioned, OpenSteps
    <3> QED
      BY <3>1, <3>2, <3>3
  <2>2. CASE q # p
    <3>1. Placed(store[q])' /\ Keyed(store[q])'
      BY <2>2, <1>3, <1>5, Typed DEF Placed, Keyed
    <3>2. Versioned(store[q])'
      BY <2>2, <1>3, <1>5, <1>8, Typed DEF Versioned, OpenSteps
    <3> QED
      BY <3>1, <3>2
  <2> QED
    BY <2>1, <2>2
<1>11. Apart'
  <2>1. \A q \in Proc : store'[q].lock = store[q].lock
    BY <1>5
  <2> QED
    BY <2>1 DEF Inv, Apart
<1>12. DiskKeys'
  BY <1>3 DEF Inv, DiskKeys
<1>13. OrderedFits' /\ AcknowledgedFits'
  BY <1>3, <1>6, <1>8, <1>9 DEF Inv, OrderedFits, AcknowledgedFits
<1>14. Versions'
  BY <1>1, <1>6, <1>8, <1>9, StoreAssumption DEF Inv, Versions
<1> QED
  BY <1>7, <1>10, <1>11, <1>12, <1>13, <1>14 DEF Inv

-----------------------------------------------------------------------------
(* Steps of the file system and of those who move directories.              *)

LEMMA WriteBackKeyKeeps == ASSUME Inv, NEW d \in Dir, WriteBackKey(d) PROVE Inv'
<1> DEFINE k == entries[d].key
<1>1. disk' = [disk EXCEPT ![d].key = k]
  BY DEF WriteBackKey
<1>2. /\ disk[d].key = Nil /\ UNCHANGED <<root, entries, keyBytes, store, acknowledged, keys, powerLosses, ordered>>
  BY DEF WriteBackKey, Inv, DiskKeys
<1>3. k \in Key \cup {Nil}
  BY Typed DEF WriteBackKey, Inv, TypeOK, Entries
<1>4. /\ disk' \in [Dir -> Entries] /\ disk'[d].key = k
      /\ \A f \in Dir : disk'[f].state = disk[f].state
      /\ \A f \in Dir : f # d => disk'[f] = disk[f]
  BY <1>1, <1>3 DEF Inv, TypeOK, Entries
<1>5. TypeOK'
  BY <1>2, <1>4, BytesStay DEF Inv, TypeOK, BytesTyped
<1>6. /\ VersionIn(entries[1])' = VersionIn(entries[1]) /\ (Fits(entries[1])' <=> Fits(entries[1]))
  BY <1>2 DEF VersionIn, Fits
<1>7. VersionIn(disk[1])' = VersionIn(disk[1]) /\ disk'[1].state = disk[1].state
  <2>1. disk'[1].state = disk[1].state
    BY <1>4, Constants
  <2> QED
    BY <2>1 DEF VersionIn
<1>8. Fits(disk[1]) => Fits(disk[1])'
  <2>1. Fits(disk[1]) => disk[1].key \in Key
    BY Constants DEF Inv, TypeOK, Fits, Entries, Sealed
  <2>2. Fits(disk[1]) => disk'[1] = disk[1]
    BY <2>1, <1>2, <1>4, Constants
  <2> QED
    BY <2>2 DEF Fits
<1>9. ASSUME NEW q \in Proc PROVE (Placed(store[q]) /\ Keyed(store[q]) /\ Versioned(store[q]))'
  <2>1. Placed(store[q])' /\ Keyed(store[q])'
    BY <1>2, Typed DEF Placed, Keyed
  <2>2. Versioned(store[q])'
    BY <1>2, <1>6, <1>7, <1>8, Typed DEF Versioned
  <2> QED
    BY <2>1, <2>2
<1>10. Apart'
  BY <1>2 DEF Inv, Apart
<1>11. DiskKeys'
  BY <1>2, <1>4 DEF Inv, DiskKeys
<1>12. OrderedFits' /\ AcknowledgedFits' /\ Versions'
  BY <1>2, <1>6, <1>7, <1>8 DEF Inv, OrderedFits, AcknowledgedFits, Versions
<1> QED
  BY <1>5, <1>9, <1>10, <1>11, <1>12 DEF Inv

LEMMA WriteBackStateKeeps == ASSUME Inv, NEW d \in Dir, WriteBackState(d) PROVE Inv'
<1>1. /\ disk' = [disk EXCEPT ![d].state = entries[d].state]
      /\ disk[d].state # entries[d].state
      /\ ordered => disk[d].key = entries[d].key
      /\ UNCHANGED <<root, entries, keyBytes, store, acknowledged, keys, powerLosses, ordered>>
  BY DEF WriteBackState
<1>2. /\ disk' \in [Dir -> Entries] /\ disk'[d].state = entries[d].state
      /\ \A f \in Dir : disk'[f].key = disk[f].key
      /\ \A f \in Dir : f # d => disk'[f] = disk[f]
  BY <1>1 DEF Inv, TypeOK, Entries
<1>3. TypeOK'
  BY <1>1, <1>2, BytesStay DEF Inv, TypeOK, BytesTyped
<1>4. /\ VersionIn(entries[1])' = VersionIn(entries[1]) /\ (Fits(entries[1])' <=> Fits(entries[1]))
  BY <1>1 DEF VersionIn, Fits
<1>5. ASSUME d # 1
      PROVE  /\ disk'[1] = disk[1] /\ VersionIn(disk[1])' = VersionIn(disk[1])
             /\ Fits(disk[1])' <=> Fits(disk[1])
  <2>1. disk'[1] = disk[1]
    BY <1>2, <1>5, Constants
  <2> QED
    BY <2>1 DEF VersionIn, Fits
<1>6. ASSUME d = 1
      PROVE  /\ disk'[1].state = entries[1].state /\ disk'[1].key = disk[1].key
             /\ VersionIn(disk[1])' = VersionIn(entries[1])
             /\ Fits(disk[1]) => disk[1].key = entries[1].key
  <2>1. disk'[1].state = entries[1].state /\ disk'[1].key = disk[1].key
    BY <1>2, <1>6
  <2>2. Fits(disk[1]) => disk[1].key \in Key
    BY Constants DEF Inv, TypeOK, Fits, Entries, Sealed
  <2>3. Fits(disk[1]) => disk[1].key = entries[1].key
    BY <2>2, Constants DEF Inv, DiskKeys
  <2> QED
    BY <2>1, <2>3 DEF VersionIn
<1>7. ASSUME NEW q \in Proc PROVE (Placed(store[q]) /\ Keyed(store[q]) /\ Versioned(store[q]))'
  <2>1. Placed(store[q])' /\ Keyed(store[q])'
    BY <1>1, Typed DEF Placed, Keyed
  <2>2. Versioned(store[q])'
    BY <1>1, <1>4, <1>5, Typed DEF Versioned
  <2> QED
    BY <2>1, <2>2
<1>8. Apart'
  BY <1>1 DEF Inv, Apart
<1>9. DiskKeys'
  BY <1>1, <1>2 DEF Inv, DiskKeys
<1>10. OrderedFits' /\ AcknowledgedFits'
  <2>1. CASE d = 1
    BY <2>1, <1>1, <1>4, <1>6 DEF Inv, OrderedFits, AcknowledgedFits, Fits
  <2>2. CASE d # 1
    BY <2>2, <1>1, <1>4, <1>5 DEF Inv, OrderedFits, AcknowledgedFits
  <2> QED
    BY <2>1, <2>2
<1>11. Versions'
  <2>1. /\ VersionIn(entries[1]) \in Nat /\ VersionIn(disk[1]) \in Nat
        /\ acknowledged[1] \in Nat
    BY VersionTyped, Constants, StoreAssumption DEF Inv, TypeOK
  <2> QED
    BY <2>1, <1>1, <1>4, <1>5, <1>6 DEF Inv, Versions
<1> QED
  BY <1>3, <1>7, <1>8, <1>9, <1>10, <1>11 DEF Inv

LEMMA PowerLossKeeps == ASSUME Inv, PowerLoss PROVE Inv'
<1>1. /\ entries' = disk /\ store' = [p \in Proc |-> Closed]
      /\ BytesTyped'
      /\ UNCHANGED <<root, disk, acknowledged, keys, ordered>>
      /\ powerLosses' \in 0 .. MaxPowerLoss
  BY StoreAssumption DEF PowerLoss, BytesTyped, Inv, TypeOK
<1>2. TypeOK'
  BY <1>1, ClosedIsSound DEF Inv, TypeOK, BytesTyped
<1>3. Closed.pc = "closed" /\ Closed.lock = Nil /\ ~Closed.known
  BY DEF Closed
<1>4. ASSUME NEW q \in Proc PROVE (Placed(store[q]) /\ Keyed(store[q]) /\ Versioned(store[q]))'
  BY <1>1, <1>3 DEF Placed, Keyed, Versioned, OpenSteps, WholeSteps, KeySteps
<1>5. Apart' /\ DiskKeys'
  BY <1>1, <1>3 DEF Apart, DiskKeys
<1>6. /\ VersionIn(entries[1])' = VersionIn(disk[1]) /\ (Fits(entries[1])' <=> Fits(disk[1]))
      /\ VersionIn(disk[1])' = VersionIn(disk[1]) /\ (Fits(disk[1])' <=> Fits(disk[1]))
      /\ VersionIn(disk[1]) \in Nat
  BY <1>1, VersionTyped, Constants, StoreAssumption DEF VersionIn, Fits, Inv, TypeOK
<1>7. OrderedFits' /\ AcknowledgedFits' /\ Versions'
  BY <1>1, <1>6 DEF Inv, OrderedFits, AcknowledgedFits, Versions
<1> QED
  BY <1>2, <1>4, <1>5, <1>7 DEF Inv

LEMMA ReplaceDirectoryKeeps == ASSUME Inv, ReplaceDirectory PROVE Inv'
<1>1. /\ root \in Dir /\ root' = root + 1 /\ root' \in Dir /\ root' # 1
      /\ UNCHANGED <<entries, disk, keyBytes, store, acknowledged, keys, powerLosses, ordered>>
  BY StoreAssumption DEF ReplaceDirectory, Inv, TypeOK, Dir
<1>2. TypeOK'
  BY <1>1, BytesStay DEF Inv, TypeOK, BytesTyped
<1>3. VersionIn(entries[1])' = VersionIn(entries[1]) /\ VersionIn(disk[1])' = VersionIn(disk[1])
  BY <1>1 DEF VersionIn
<1>4. ASSUME NEW q \in Proc PROVE (Placed(store[q]) /\ Keyed(store[q]) /\ Versioned(store[q]))'
  <2>1. store[q].lock # Nil => store[q].lock \in Dir /\ store[q].lock <= root'
    BY <1>1, Typed, Constants DEF Placed, Handle, Dir
  <2>2. Placed(store[q])'
    BY <1>1, <2>1, Typed DEF Placed
  <2>3. Keyed(store[q])' /\ Versioned(store[q])'
    BY <1>1, <1>3, Typed DEF Keyed, Versioned
  <2> QED
    BY <2>2, <2>3
<1>5. Apart' /\ DiskKeys'
  BY <1>1 DEF Inv, Apart, DiskKeys
<1>6. OrderedFits' /\ AcknowledgedFits' /\ Versions'
  BY <1>1, <1>3 DEF Inv, OrderedFits, AcknowledgedFits, Versions, Fits
<1> QED
  BY <1>2, <1>4, <1>5, <1>6 DEF Inv

LEMMA StutterKeeps == ASSUME Inv, UNCHANGED vars PROVE Inv'
<1>1. UNCHANGED <<root, entries, disk, keyBytes, store, acknowledged, keys, powerLosses, ordered>>
  BY DEF vars
<1>2. ASSUME NEW q \in Proc PROVE (Placed(store[q]) /\ Keyed(store[q]) /\ Versioned(store[q]))'
  BY <1>1, Typed DEF Placed, Keyed, Versioned, VersionIn, Fits
<1>3. TypeOK' /\ Apart' /\ DiskKeys' /\ OrderedFits' /\ AcknowledgedFits' /\ Versions'
  BY <1>1 DEF keyBytes, Inv, TypeOK, Apart, DiskKeys, OrderedFits, AcknowledgedFits, Versions, Fits, VersionIn
<1> QED
  BY <1>2, <1>3 DEF Inv

LEMMA NextKeeps == Inv /\ [Next]_vars => Inv'
<1> SUFFICES ASSUME Inv, [Next]_vars PROVE Inv'
  OBVIOUS
<1>1. ASSUME NEW p \in Proc, Open(p) \/ Read(p) \/ Write(p) \/ Exit(p) PROVE Inv'
  BY <1>1, LockKeeps, IdentifyKeeps, OpenKeyKeeps, ReadKeyKeeps, CreateKeyKeeps, FillKeyKeeps, SyncKeyKeeps,
     RevalidateKeeps, ReadKeeps, StartWriteKeeps, WriteTemporaryKeeps, RenameKeeps,
     SyncDirectoryKeeps, ConfirmKeeps, ExitKeeps
  DEF Open, Write
<1>2. ASSUME NEW d \in Dir, WriteBackKey(d) \/ WriteBackState(d) PROVE Inv'
  BY <1>2, WriteBackKeyKeeps, WriteBackStateKeeps
<1> QED
  BY <1>1, <1>2, PowerLossKeeps, ReplaceDirectoryKeeps, StutterKeeps DEF Next

-----------------------------------------------------------------------------
(* The bytes of the keys.  Whoever opens a key file only reads it, so what  *)
(* is known of its bytes comes from the process that made it.               *)

\* Who uses a key has seen its bytes.
Whole ==
  /\ durable \subseteq written
  /\ \A p \in Proc : store[p].pc \in WholeSteps => store[p].key \in written

\* Bytes that are not safe yet are being synchronized by their maker.
Watched ==
  \A k \in written \ (durable \cup abandoned) :
    \E p \in Proc : store[p].pc = "sync key" /\ store[p].key = k

AcknowledgedKept == acknowledged[1] # 0 => entries[1].key \in durable \cup abandoned

KeyInv == Whole /\ Watched /\ AcknowledgedKept

LEMMA InitKeyInv == Init => KeyInv
<1> SUFFICES ASSUME Init PROVE KeyInv
  OBVIOUS
<1>1. \A p \in Proc : store[p].pc = "closed"
  BY DEF Init, Closed
<1>3. Whole
  BY <1>1 DEF Init, Whole, OpenSteps, WholeSteps
<1>4. Watched /\ AcknowledgedKept
  BY Constants DEF Init, Watched, AcknowledgedKept
<1> QED
  BY <1>3, <1>4 DEF KeyInv

\* A step of one process that moves no key file.
LEMMA KeyHandle ==
  ASSUME Inv, KeyInv, NEW p \in Proc, NEW h \in Handle, Become(p, h),
         \A d \in Dir : entries'[d].key = entries[d].key,
         written \subseteq written', durable' \subseteq written',
         durable \subseteq durable', abandoned \subseteq abandoned',
         h.pc \in WholeSteps => h.key \in written',
         \A k \in written' \ (durable' \cup abandoned') :
           \/ h.pc = "sync key" /\ h.key = k
           \/ k \in written /\ ~(store[p].pc = "sync key" /\ store[p].key = k),
         acknowledged'[1] # 0 => acknowledged[1] # 0 \/ entries[1].key \in durable \cup abandoned
  PROVE  KeyInv'
<1>1. store'[p] = h /\ \A q \in Proc : q # p => store'[q] = store[q]
  BY BecomeIs
<1>3. Whole'
  BY <1>1 DEF KeyInv, Whole
<1>4. Watched'
  <2> SUFFICES ASSUME NEW k \in written' \ (durable' \cup abandoned')
               PROVE  \E q \in Proc : store'[q].pc = "sync key" /\ store'[q].key = k
    BY DEF Watched
  <2>1. CASE h.pc = "sync key" /\ h.key = k
    BY <1>1, <2>1
  <2>2. CASE k \in written /\ ~(store[p].pc = "sync key" /\ store[p].key = k)
    <3>1. PICK q \in Proc : store[q].pc = "sync key" /\ store[q].key = k
      BY <2>2 DEF KeyInv, Watched
    <3> QED
      BY <1>1, <2>2, <3>1
  <2> QED
    BY <2>1, <2>2
<1>5. AcknowledgedKept'
  BY Constants DEF KeyInv, AcknowledgedKept
<1> QED
  BY <1>3, <1>4, <1>5 DEF KeyInv

\* One that uses the key it has, or none.
LEMMA KeyUser ==
  ASSUME Inv, KeyInv, NEW p \in Proc, NEW h \in Handle, Become(p, h),
         \A d \in Dir : entries'[d].key = entries[d].key,
         UNCHANGED keyBytes,
         store[p].pc # "sync key", h.pc # "sync key",
         h.pc \in WholeSteps => store[p].pc \in WholeSteps /\ h.key = store[p].key,
         acknowledged'[1] # 0 => acknowledged[1] # 0 \/ entries[1].key \in durable \cup abandoned
  PROVE  KeyInv'
<1>1. UNCHANGED <<written, durable, abandoned>> /\ durable \subseteq written
  BY DEF keyBytes, KeyInv, Whole
<1>2. h.pc \in WholeSteps => h.key \in written
  BY DEF KeyInv, Whole
<1> QED
  BY <1>1, <1>2, KeyHandle

LEMMA KeyFail ==
  ASSUME Inv, KeyInv, NEW p \in Proc, Fail(p), store[p].pc # "sync key",
         UNCHANGED <<entries, keyBytes, acknowledged>>
  PROVE  KeyInv'
<1>1. Closed \in Handle /\ Closed.pc = "closed" /\ "closed" \notin WholeSteps
  BY ClosedIsSound DEF Closed, OpenSteps, WholeSteps
<1> QED
  BY <1>1, KeyUser DEF Fail

\* The bytes of the first directory's key are safe once its store is open.
LEMMA FirstKeySafe ==
  ASSUME Inv, KeyInv, root = 1, NEW p \in Proc, store[p].pc \in OpenSteps
  PROVE  entries[1].key \in durable \cup abandoned
<1>1. /\ store[p].key \in Key /\ entries[1].key = store[p].key
      /\ \A q \in Proc : q # p => store[q].pc = "closed"
  BY FirstHolder
<1>2. store[p].key \in written /\ store[p].pc # "sync key"
  BY DEF KeyInv, Whole, WholeSteps, OpenSteps
<1>3. \A q \in Proc : store[q].pc # "sync key"
  BY <1>1, <1>2
<1> QED
  BY <1>1, <1>2, <1>3 DEF KeyInv, Watched

LEMMA OpenKeepsKeys ==
  ASSUME Inv, KeyInv, NEW p \in Proc,
         Lock(p) \/ Identify(p) \/ OpenKey(p) \/ ReadKey(p) \/ Revalidate(p) \/ Read(p)
  PROVE  KeyInv'
<1>0. /\ UNCHANGED <<entries, keyBytes, acknowledged>>
      /\ UNCHANGED <<written, durable, abandoned>>
  BY DEF Lock, Identify, OpenKey, ReadKey, Revalidate, Read, keyBytes
<1>1. CASE Lock(p)
  <2> DEFINE h == [Closed EXCEPT !.pc = "identify", !.lock = root]
  <2>1. h \in Handle /\ h.pc = "identify" /\ Become(p, h) /\ store[p].pc = "closed"
    BY <1>1, ClosedIsSound, Typed DEF Lock, At, Handle, Step
  <2> HIDE DEF h
  <2> QED
    BY <1>0, <2>1, KeyUser DEF OpenSteps, WholeSteps
<1>2. CASE Identify(p)
  <2> DEFINE h == [store[p] EXCEPT !.pc = "load", !.directory = root]
  <2>1. h \in Handle /\ h.pc = "load" /\ Become(p, h) /\ store[p].pc = "identify"
    BY <1>2, Typed DEF Identify, At, Handle, Step
  <2> HIDE DEF h
  <2> QED
    BY <1>0, <2>1, KeyUser DEF OpenSteps, WholeSteps
<1>3. CASE OpenKey(p)
  <2> DEFINE h == [store[p] EXCEPT !.pc = "read key", !.keyFile = root, !.key = entries[root].key]
  <2>1. entries[root].key \in Key
    BY <1>3, Typed DEF OpenKey, Entries
  <2>2. /\ h \in Handle /\ h.pc = "read key" /\ h.lock = store[p].lock /\ h.keyFile = root
        /\ Become(p, h) /\ store[p].pc = "load"
    BY <1>3, <2>1, Typed DEF OpenKey, At, Handle, Step
  <2>3. durable \subseteq written
    BY DEF KeyInv, Whole
  <2> HIDE DEF h
  <2> QED
    BY <1>0, <2>2, <2>3, KeyHandle DEF OpenSteps, WholeSteps
<1>4. CASE ReadKey(p)
  <2>1. store[p].pc = "read key"
    BY <1>4 DEF ReadKey, At
  <2>2. CASE store[p].key \notin written
    BY <1>0, <1>4, <2>1, <2>2, KeyFail DEF ReadKey
  <2>3. CASE store[p].key \in written
    <3> DEFINE h == [store[p] EXCEPT !.pc = "revalidate"]
    <3>1. /\ h \in Handle /\ h.pc = "revalidate" /\ h.lock = store[p].lock
          /\ h.keyFile = store[p].keyFile /\ h.key = store[p].key /\ Become(p, h)
      BY <1>4, <2>3, Typed DEF ReadKey, Goto, Handle, Step
    <3>2. durable \subseteq written
      BY DEF KeyInv, Whole
    <3> HIDE DEF h
    <3> QED
      BY <1>0, <2>1, <2>3, <3>1, <3>2, KeyHandle
  <2> QED
    BY <2>2, <2>3
<1>5. CASE Revalidate(p)
  <2>1. store[p].pc = "revalidate"
    BY <1>5 DEF Revalidate, At
  <2>2. CASE ~SameFiles(p)
    BY <1>0, <1>5, <2>1, <2>2, KeyFail DEF Revalidate
  <2>3. CASE SameFiles(p)
    <3> DEFINE h == [store[p] EXCEPT !.pc = "open"]
    <3>1. /\ h \in Handle /\ h.pc = "open" /\ h.lock = store[p].lock
          /\ h.keyFile = store[p].keyFile /\ h.key = store[p].key /\ Become(p, h)
      BY <1>5, <2>3, Typed DEF Revalidate, Goto, Handle, Step
    <3> HIDE DEF h
    <3> QED
      BY <1>0, <2>1, <3>1, KeyUser DEF OpenSteps, WholeSteps
  <2> QED
    BY <2>2, <2>3
<1>6. CASE Read(p)
  <2> DEFINE h == [store[p] EXCEPT !.version = VersionIn(entries[root]), !.known = TRUE]
  <2>1. store[p].pc = "open"
    BY <1>6 DEF Read, At
  <2>2. CASE Fail(p)
    BY <1>0, <2>1, <2>2, KeyFail
  <2>3. CASE Become(p, h)
    <3>1. /\ h \in Handle /\ h.pc = store[p].pc /\ h.lock = store[p].lock
          /\ h.keyFile = store[p].keyFile /\ h.key = store[p].key
      BY Typed, VersionTyped DEF Handle
    <3> HIDE DEF h
    <3> QED
      BY <1>0, <2>1, <2>3, <3>1, KeyUser DEF OpenSteps, WholeSteps
  <2> QED
    BY <1>6, <2>2, <2>3 DEF Read
<1> QED
  BY <1>1, <1>2, <1>3, <1>4, <1>5, <1>6

LEMMA CreateKeepsKeys ==
  ASSUME Inv, KeyInv, NEW p \in Proc, CreateKey(p) \/ FillKey(p) \/ SyncKey(p) \/ Exit(p)
  PROVE  KeyInv'
<1>0. durable \subseteq written
  BY DEF KeyInv, Whole
<1>1. CASE CreateKey(p)
  <2> DEFINE h == [store[p] EXCEPT !.pc = "fill", !.keyFile = root, !.key = keys + 1]
  <2>1. /\ keys + 1 \in Key /\ keys \in Nat /\ keys' = keys + 1
        /\ store[p].pc = "load" /\ entries[root].key = Nil
        /\ UNCHANGED <<written, durable, abandoned, acknowledged>>
    BY <1>1, StoreAssumption DEF CreateKey, At, keyBytes, Inv, TypeOK, Key
  <2>2. /\ h \in Handle /\ h.pc = "fill" /\ h.lock = store[p].lock /\ h.keyFile = root
        /\ Become(p, h)
    BY <1>1, <2>1, Typed DEF CreateKey, Handle, Step
  <2> HIDE DEF h
  <2>4. store'[p] = h /\ \A q \in Proc : q # p => store'[q] = store[q]
    BY <2>2, BecomeIs
  <2>5. /\ entries'[root].key = keys + 1
        /\ \A d \in Dir : d # root => entries'[d].key = entries[d].key
    BY <1>1, Typed DEF CreateKey, Inv, TypeOK, Entries
  <2>7. Whole'
    BY <2>1, <2>2, <2>4 DEF KeyInv, Whole, OpenSteps, WholeSteps
  <2>8. Watched'
    BY <2>1, <2>4 DEF KeyInv, Watched
  <2>9. AcknowledgedKept'
    <3>1. acknowledged[1] # 0 => entries[1].key # Nil
      BY Constants, Typed DEF Inv, AcknowledgedFits, Fits, Entries, Sealed
    <3> QED
      BY <2>1, <2>5, <3>1, Constants DEF KeyInv, AcknowledgedKept
  <2> QED
    BY <2>7, <2>8, <2>9 DEF KeyInv
<1>2. CASE FillKey(p)
  <2> DEFINE h == [store[p] EXCEPT !.pc = "sync key"]
  <2>1. /\ h \in Handle /\ h.pc = "sync key" /\ h.lock = store[p].lock /\ h.key = store[p].key
        /\ h.keyFile = store[p].keyFile /\ Become(p, h) /\ store[p].pc = "fill"
    BY <1>2, Typed DEF FillKey, At, Goto, Handle, Step
  <2>3. /\ written' = written \cup {h.key}
        /\ UNCHANGED <<durable, abandoned, entries, acknowledged>>
    BY <1>2, <2>1 DEF FillKey
  <2> HIDE DEF h
  <2> QED
    BY <1>0, <2>1, <2>3, KeyHandle
<1>3. CASE SyncKey(p)
  <2> DEFINE h == [store[p] EXCEPT !.pc = "revalidate"]
  <2>1. /\ h \in Handle /\ h.pc = "revalidate" /\ h.lock = store[p].lock /\ h.key = store[p].key
        /\ h.keyFile = store[p].keyFile /\ Become(p, h) /\ store[p].pc = "sync key"
    BY <1>3, Typed DEF SyncKey, At, Goto, Handle, Step
  <2>2. h.key \in written
    BY <2>1 DEF KeyInv, Whole, WholeSteps
  <2>3. /\ durable' = durable \cup {h.key}
        /\ UNCHANGED <<written, abandoned, entries, acknowledged>>
    BY <1>3, <2>1 DEF SyncKey
  <2> HIDE DEF h
  <2> QED
    BY <1>0, <2>1, <2>2, <2>3, KeyHandle
<1>4. CASE Exit(p)
  <2>1. /\ UNCHANGED <<written, durable, entries, acknowledged>>
        /\ abandoned \subseteq abandoned'
        /\ store[p].pc = "sync key" => store[p].key \in abandoned'
        /\ Become(p, Closed)
    BY <1>4 DEF Exit, At, Fail
  <2>2. Closed \in Handle /\ Closed.pc = "closed" /\ "closed" \notin WholeSteps
    BY ClosedIsSound DEF Closed, OpenSteps, WholeSteps
  <2> QED
    BY <1>0, <2>1, <2>2, KeyHandle
<1> QED
  BY <1>1, <1>2, <1>3, <1>4

LEMMA WriteKeepsKeys == ASSUME Inv, KeyInv, NEW p \in Proc, Write(p) PROVE KeyInv'
<1>0. /\ store[p].pc \in OpenSteps /\ store[p].pc # "sync key"
      /\ UNCHANGED keyBytes
      /\ \A d \in Dir : entries'[d].key = entries[d].key
  <2>1. UNCHANGED entries => \A d \in Dir : entries'[d].key = entries[d].key
    OBVIOUS
  <2>2. Rename(p) => \A d \in Dir : entries'[d].key = entries[d].key
    BY Typed DEF Rename, Inv, TypeOK, Entries
  <2> QED
    BY <2>1, <2>2 DEF Write, StartWrite, WriteTemporary, Rename, SyncDirectory, Confirm, At, OpenSteps
<1>1. CASE UNCHANGED entries /\ UNCHANGED acknowledged /\ Fail(p)
  BY <1>0, <1>1, KeyFail
<1>2. ASSUME NEW h \in Handle, Become(p, h), h.pc \in OpenSteps, h.key = store[p].key,
             acknowledged'[1] # 0 => acknowledged[1] # 0 \/ entries[1].key \in durable \cup abandoned
      PROVE  KeyInv'
  <2>1. h.pc # "sync key" /\ h.pc \in WholeSteps /\ store[p].pc \in WholeSteps
    BY <1>0, <1>2 DEF OpenSteps, WholeSteps
  <2> QED
    BY <1>0, <1>2, <2>1, KeyUser
<1>3. CASE StartWrite(p) /\ SameFiles(p)
  <2> DEFINE h == [store[p] EXCEPT !.pc = "write", !.version = @ + 1]
  <2>1. store[p].version + 1 \in 0 .. MaxVersion
    BY <1>3, Typed, StoreAssumption DEF StartWrite, Handle
  <2>2. /\ h \in Handle /\ h.pc = "write" /\ h.lock = store[p].lock
        /\ h.keyFile = store[p].keyFile /\ h.key = store[p].key
    BY <2>1, Typed DEF Handle, Step
  <2>3. Become(p, h) /\ UNCHANGED acknowledged
    BY <1>3 DEF StartWrite
  <2> HIDE DEF h
  <2> QED
    BY <1>2, <2>2, <2>3 DEF OpenSteps
<1>4. CASE WriteTemporary(p)
  <2> DEFINE h == [store[p] EXCEPT !.pc = "rename", !.temporary = root]
  <2>1. /\ h \in Handle /\ h.pc = "rename" /\ h.lock = store[p].lock
        /\ h.keyFile = store[p].keyFile /\ h.key = store[p].key
    BY Typed DEF Handle, Step
  <2>2. Become(p, h) /\ UNCHANGED acknowledged
    BY <1>4 DEF WriteTemporary
  <2> HIDE DEF h
  <2> QED
    BY <1>2, <2>1, <2>2 DEF OpenSteps
<1>5. CASE Rename(p) /\ store[p].temporary = root
  <2> DEFINE h == [store[p] EXCEPT !.pc = "sync directory", !.temporary = Nil]
  <2>1. /\ h \in Handle /\ h.pc = "sync directory" /\ h.lock = store[p].lock
        /\ h.keyFile = store[p].keyFile /\ h.key = store[p].key
    BY Typed DEF Handle, Step
  <2>2. Become(p, h) /\ UNCHANGED acknowledged
    BY <1>5 DEF Rename
  <2> HIDE DEF h
  <2> QED
    BY <1>2, <2>1, <2>2 DEF OpenSteps
<1>6. CASE SyncDirectory(p)
  <2> DEFINE h == [store[p] EXCEPT !.pc = "confirm"]
  <2>1. /\ h \in Handle /\ h.pc = "confirm" /\ h.lock = store[p].lock
        /\ h.keyFile = store[p].keyFile /\ h.key = store[p].key
    BY Typed DEF Handle, Step
  <2>2. Become(p, h) /\ UNCHANGED acknowledged
    BY <1>6 DEF SyncDirectory, Goto
  <2> HIDE DEF h
  <2> QED
    BY <1>2, <2>1, <2>2 DEF OpenSteps
<1>7. CASE Confirm(p) /\ SameFiles(p)
  <2> DEFINE h == [store[p] EXCEPT !.pc = "open"]
  <2>1. /\ h \in Handle /\ h.pc = "open" /\ h.lock = store[p].lock
        /\ h.keyFile = store[p].keyFile /\ h.key = store[p].key
    BY Typed DEF Handle, Step
  <2>2. Become(p, h) /\ acknowledged' = [acknowledged EXCEPT ![store[p].lock] = store[p].version]
        /\ store[p].lock = root
    BY <1>7 DEF Confirm, Goto, SameFiles
  <2>3. CASE root = 1
    BY <1>0, <1>2, <2>1, <2>2, <2>3, FirstKeySafe DEF OpenSteps
  <2>4. CASE root # 1
    <3>1. acknowledged'[1] = acknowledged[1]
      BY <2>2, <2>4, Constants DEF Inv, TypeOK
    <3> HIDE DEF h
    <3> QED
      BY <1>2, <2>1, <2>2, <3>1 DEF OpenSteps
  <2> QED
    BY <2>3, <2>4
<1> QED
  BY <1>1, <1>3, <1>4, <1>5, <1>6, <1>7 DEF Write, StartWrite, Rename, Confirm

LEMMA PowerLossKeepsKeys == ASSUME Inv, KeyInv, PowerLoss PROVE KeyInv'
<1>1. /\ entries' = disk /\ written' = durable' /\ durable \subseteq durable'
      /\ UNCHANGED <<abandoned, acknowledged>>
      /\ \A p \in Proc : store'[p].pc = "closed"
  BY DEF PowerLoss, Closed
<1>2. \A d \in Dir : entries'[d].key # Nil => entries'[d].key = entries[d].key
  BY <1>1 DEF Inv, DiskKeys
<1>4. Whole' /\ Watched'
  BY <1>1 DEF Whole, Watched, OpenSteps, WholeSteps
<1>5. AcknowledgedKept'
  <2>1. acknowledged[1] # 0 => disk[1].key \in Key
    BY Constants DEF Inv, TypeOK, AcknowledgedFits, Fits, Entries, Sealed
  <2> QED
    BY <1>1, <1>2, <2>1, Constants DEF KeyInv, AcknowledgedKept
<1> QED
  BY <1>4, <1>5 DEF KeyInv

LEMMA RestKeepsKeys ==
  ASSUME Inv, KeyInv, UNCHANGED <<entries, keyBytes, store, acknowledged>>
  PROVE  KeyInv'
<1>1. UNCHANGED <<entries, written, durable, abandoned, store, acknowledged>>
  BY DEF keyBytes
<1>2. Whole' /\ AcknowledgedKept'
  BY <1>1 DEF KeyInv, Whole, AcknowledgedKept
<1>3. Watched'
  BY <1>1 DEF KeyInv, Watched
<1> QED
  BY <1>2, <1>3 DEF KeyInv

LEMMA NextKeepsKeys == ASSUME Inv, KeyInv, [Next]_vars PROVE KeyInv'
<1>1. ASSUME NEW p \in Proc, Open(p) \/ Read(p) \/ Write(p) \/ Exit(p) PROVE KeyInv'
  BY <1>1, OpenKeepsKeys, CreateKeepsKeys, WriteKeepsKeys DEF Open
<1>2. ASSUME NEW d \in Dir, WriteBackKey(d) \/ WriteBackState(d) PROVE KeyInv'
  BY <1>2, RestKeepsKeys DEF WriteBackKey, WriteBackState
<1>3. CASE ReplaceDirectory \/ UNCHANGED vars
  BY <1>3, RestKeepsKeys DEF ReplaceDirectory, vars
<1> QED
  BY <1>1, <1>2, <1>3, PowerLossKeepsKeys DEF Next

-----------------------------------------------------------------------------
(* The whole inductive invariant holds of every reachable state.            *)
THEOREM InvariantHolds == Spec => [](Inv /\ KeyInv)
<1>1. Init => Inv /\ KeyInv
  BY InitInv, InitKeyInv
<1>2. Inv /\ KeyInv /\ [Next]_vars => (Inv /\ KeyInv)'
  BY NextKeeps, NextKeepsKeys
<1> QED
  BY <1>1, <1>2, PTL DEF Spec

(* Every reachable state is well typed (StateStore, SealKey and the files). *)
THEOREM TypeCorrect == Spec => []TypeOK
<1>1. Inv => TypeOK
  BY DEF Inv
<1> QED
  BY <1>1, InvariantHolds, PTL

(* The lock, the directory and the key of a store that is open are of one   *)
(* place that nobody else has (open_named and its revalidation).            *)
THEOREM Exclusive == Spec => []OpenIsExclusive
<1>1. Inv => OpenIsExclusive
  <2> SUFFICES ASSUME Inv, NEW p \in Proc, store[p].pc \in OpenSteps
               PROVE  /\ store[p].lock = store[p].directory
                      /\ store[p].lock = store[p].keyFile
                      /\ \A q \in Proc \ {p} : store[q].lock # store[p].lock
    BY DEF OpenIsExclusive, OpenSteps
  <2>1. store[p].lock # Nil /\ store[p].lock = store[p].directory /\ store[p].lock = store[p].keyFile
    BY Typed DEF Placed, OpenSteps
  <2>2. \A q \in Proc \ {p} : store[q].lock # store[p].lock
    BY <2>1 DEF Inv, Apart
  <2> QED
    BY <2>1, <2>2
<1> QED
  BY <1>1, InvariantHolds, PTL

(* An acknowledged state carries the seal of the key beside it, as          *)
(* processes see it and as a power loss would leave it, and the bytes of    *)
(* that key are on disk, unless its maker was killed between writing and    *)
(* synchronizing them (create_seal_key, load_or_create_seal_key,            *)
(* StateStore::write, sync_directory).  Where the file system keeps the     *)
(* order of entries, no state is ever left under a key that is not its own, *)
(* acknowledged or not.                                                     *)
THEOREM Sealing == Spec => []SealFitsKey
<1>1. Inv /\ KeyInv => SealFitsKey
  <2> SUFFICES ASSUME Inv, KeyInv PROVE SealFitsKey
    OBVIOUS
  <2>1. ASSUME NEW e \in {entries[1], disk[1]}
        PROVE  /\ acknowledged[1] # 0 => e.state # Nil /\ e.key = e.state.key
               /\ ordered /\ e.state # Nil => e.key = e.state.key
    <3>1. acknowledged[1] # 0 => Fits(e)
      BY DEF Inv, AcknowledgedFits
    <3>2. ordered /\ e.state # Nil => Fits(e)
      BY DEF Inv, OrderedFits
    <3> QED
      BY <3>1, <3>2 DEF Fits
  <2>2. acknowledged[1] # 0 => entries[1].key \in durable \cup abandoned
    BY DEF KeyInv, AcknowledgedKept
  <2> QED
    BY <2>1, <2>2 DEF SealFitsKey
<1> QED
  BY <1>1, InvariantHolds, PTL

-----------------------------------------------------------------------------
(* The refinement: what each step does to the version that is visible and   *)
(* to the one that is acknowledged.                                         *)
RegisterStep ==
  \/ VersionIn(entries[1])' = VersionIn(entries[1]) + 1 /\ acknowledged'[1] = acknowledged[1]
  \/ VersionIn(entries[1])' = VersionIn(entries[1]) /\ acknowledged'[1] = VersionIn(entries[1])
  \/ VersionIn(entries[1])' \in acknowledged[1] .. VersionIn(entries[1]) /\ acknowledged'[1] = acknowledged[1]
  \/ VersionIn(entries[1])' = VersionIn(entries[1]) /\ acknowledged'[1] = acknowledged[1]

LEMMA QuietSteps ==
  ASSUME UNCHANGED acknowledged, entries'[1].state = entries[1].state
  PROVE  RegisterStep
BY DEF RegisterStep, VersionIn

LEMMA RenameIsPut == ASSUME Inv, NEW p \in Proc, Rename(p) PROVE RegisterStep
<1>1. CASE store[p].temporary = root /\ root = 1
  <2>1. store[p].pc = "rename" /\ store[p].lock = 1
    BY <1>1, FirstHolder DEF Rename, At, OpenSteps
  <2>2. store[p].version = VersionIn(entries[1]) + 1
    BY <2>1, Typed DEF Versioned
  <2>3. store[p].version \in Version /\ store[p].key \in Key
    <3>1. store[p].key \in Key
      BY <2>1, Typed DEF Keyed, OpenSteps, WholeSteps, KeySteps
    <3>2. store[p].version # 0 /\ store[p].version \in 0 .. MaxVersion
      BY <2>1, Typed DEF Versioned, Handle
    <3> QED
      BY <3>1, <3>2, StoreAssumption DEF Version
  <2>4. [version |-> store[p].version, key |-> store[p].key] # Nil
    BY <2>3, Constants DEF Sealed
  <2>5. entries'[1].state = [version |-> store[p].version, key |-> store[p].key]
    BY <1>1, Constants DEF Rename, Inv, TypeOK, Entries
  <2>6. VersionIn(entries[1])' = store[p].version
    BY <2>4, <2>5 DEF VersionIn
  <2> QED
    BY <2>2, <2>6 DEF RegisterStep, Rename
<1>2. CASE store[p].temporary = root /\ root # 1
  BY <1>2, Constants, QuietSteps DEF Rename, Inv, TypeOK
<1>3. CASE store[p].temporary # root
  BY <1>3, QuietSteps DEF Rename
<1> QED
  BY <1>1, <1>2, <1>3

LEMMA ConfirmIsAcknowledge == ASSUME Inv, NEW p \in Proc, Confirm(p) PROVE RegisterStep
<1>0. VersionIn(entries[1])' = VersionIn(entries[1])
  BY DEF Confirm, VersionIn
<1>1. CASE SameFiles(p) /\ root = 1
  <2>1. store[p].lock = 1 /\ store[p].version = VersionIn(entries[1])
    BY <1>1, Typed DEF Confirm, At, SameFiles, Versioned
  <2>2. acknowledged'[1] = store[p].version
    BY <1>1, <2>1, Constants DEF Confirm, Inv, TypeOK
  <2> QED
    BY <1>0, <2>1, <2>2 DEF RegisterStep
<1>2. CASE SameFiles(p) /\ root # 1
  <2>1. acknowledged'[1] = acknowledged[1]
    BY <1>2, Constants DEF Confirm, SameFiles, Inv, TypeOK
  <2> QED
    BY <1>0, <2>1 DEF RegisterStep
<1>3. CASE ~SameFiles(p)
  BY <1>0, <1>3 DEF Confirm, RegisterStep
<1> QED
  BY <1>1, <1>2, <1>3

LEMMA PowerLossTakesBack == ASSUME Inv, PowerLoss PROVE RegisterStep
<1>1. VersionIn(entries[1])' = VersionIn(disk[1]) /\ acknowledged' = acknowledged
  BY DEF PowerLoss, VersionIn
<1>2. /\ VersionIn(disk[1]) \in Nat /\ VersionIn(entries[1]) \in Nat /\ acknowledged[1] \in Nat
  BY VersionTyped, Constants, StoreAssumption DEF Inv, TypeOK
<1> QED
  BY <1>1, <1>2 DEF Inv, Versions, RegisterStep

LEMMA KeyOnly ==
  ASSUME Inv, NEW d, NEW k, entries' = [entries EXCEPT ![d].key = k]
  PROVE  entries'[1].state = entries[1].state
<1>1. 1 \in Dir /\ entries \in [Dir -> Entries]
  BY Constants DEF Inv, TypeOK
<1>2. CASE d = 1
  BY <1>1, <1>2 DEF Entries
<1>3. CASE d # 1
  BY <1>1, <1>3
<1> QED
  BY <1>2, <1>3

LEMMA NextIsRegisterStep == ASSUME Inv, [Next]_vars PROVE RegisterStep
<1>1. ASSUME NEW p \in Proc, Open(p) \/ Read(p) \/ Exit(p) PROVE RegisterStep
  <2>1. CASE CreateKey(p)
    BY <2>1, KeyOnly, QuietSteps DEF CreateKey
  <2>3. CASE UNCHANGED <<entries, acknowledged>>
    BY <2>3, QuietSteps
  <2> QED
    BY <1>1, <2>1, <2>3
    DEF Open, Lock, Identify, OpenKey, ReadKey, FillKey, SyncKey, Revalidate, Read, Exit
<1>2. ASSUME NEW p \in Proc, Write(p) PROVE RegisterStep
  <2>1. CASE Rename(p)
    BY <2>1, RenameIsPut
  <2>2. CASE Confirm(p)
    BY <2>2, ConfirmIsAcknowledge
  <2>3. CASE StartWrite(p) \/ WriteTemporary(p) \/ SyncDirectory(p)
    BY <2>3, QuietSteps DEF StartWrite, WriteTemporary, SyncDirectory
  <2> QED
    BY <1>2, <2>1, <2>2, <2>3 DEF Write
<1>3. ASSUME NEW d \in Dir, WriteBackKey(d) \/ WriteBackState(d) PROVE RegisterStep
  BY <1>3, QuietSteps DEF WriteBackKey, WriteBackState
<1>4. CASE ReplaceDirectory \/ UNCHANGED vars
  BY <1>4, QuietSteps DEF ReplaceDirectory, vars
<1> QED
  BY <1>1, <1>2, <1>3, <1>4, PowerLossTakesBack DEF Next

(* The store of the first directory implements one durable register: the    *)
(* versions that become visible follow one another and what a write was     *)
(* acknowledged for is never taken back, whatever processes, power losses   *)
(* and replaced directories do.                                             *)
THEOREM ImplementsRegister == Spec => RegisterSpec
<1>1. Init => Register!Init
  BY Constants DEF Init, Register!Init, VersionIn
<1>2. Inv /\ [Next]_vars => [Register!Next]_(Register!vars)
  <2> SUFFICES ASSUME Inv, [Next]_vars PROVE [Register!Next]_(Register!vars)
    OBVIOUS
  <2> QED
    BY NextIsRegisterStep
    DEF RegisterStep, Register!Next, Register!Put, Register!Acknowledge, Register!TakeBack, Register!vars
<1> QED
  BY <1>1, <1>2, InvariantHolds, PTL DEF Spec, RegisterSpec, Register!Spec
=============================================================================
