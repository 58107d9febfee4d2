------------------------------ MODULE StateStore ------------------------------
(***************************************************************************)
(* The file store of one deployment: a directory with a lock file, a seal  *)
(* key made on first use and state.json, which is replaced through a       *)
(* temporary file and read back only if its seal fits the key.  Processes  *)
(* may die between any two steps, the machine may lose power with part of  *)
(* the file system unwritten, and somebody may put another directory in    *)
(* the place of the one a process has opened.                              *)
(***************************************************************************)
EXTENDS Naturals

CONSTANTS
  Proc,         \* processes that use the store
  MaxVersion,   \* bound on the versions written
  MaxKeys,      \* bound on the keys made
  MaxDirs,      \* 1 + bound on replacements of the directory
  MaxPowerLoss, \* bound on power losses
  Nil           \* absent, or nothing read yet

Dir == 1 .. MaxDirs
Key == 1 .. MaxKeys
Version == 1 .. MaxVersion
Sealed == [version : Version, key : Key]
Entries == [key : Key \cup {Nil}, state : Sealed \cup {Nil}]

ASSUME StoreAssumption ==
  /\ MaxVersion \in Nat
  /\ MaxKeys \in Nat
  /\ MaxDirs \in Nat \ {0}
  /\ MaxPowerLoss \in Nat
  /\ Nil \notin Nat /\ Nil \notin Sealed

VARIABLES
  root,         \* the directory at the node's path
  entries,      \* each directory as processes see it
  disk,         \* each directory as a power loss leaves it
  written,      \* key files that have their 32 bytes, as processes see them
  durable,      \* those of them whose bytes no power loss can take back
  abandoned,    \* those whose maker ended before it had synchronized them
  store,        \* what each process holds of the store
  acknowledged, \* the last version a write into a directory returned Ok for
  keys,         \* keys made so far
  powerLosses,
  ordered       \* the file system writes entries back in the order they were made

keyBytes == <<written, durable, abandoned>>
vars == <<root, entries, disk, keyBytes, store, acknowledged, keys, powerLosses, ordered>>

Step == {"closed", "identify", "load", "read key", "fill", "sync key", "revalidate",
         "open", "write", "rename", "sync directory", "confirm"}

Handle == [pc : Step,
           lock : Dir \cup {Nil},        \* directory of the locked lock file
           directory : Dir \cup {Nil},   \* identity of the directory
           keyFile : Dir \cup {Nil},     \* directory of the key file
           key : Key \cup {Nil},         \* the key file it opened, and the key in it
           version : 0 .. MaxVersion,    \* last version read or written
           known : BOOLEAN,              \* it has read the state
           temporary : Dir \cup {Nil}]   \* directory of the temporary file

Closed == [pc |-> "closed", lock |-> Nil, directory |-> Nil, keyFile |-> Nil, key |-> Nil,
           version |-> 0, known |-> FALSE, temporary |-> Nil]

TypeOK ==
  /\ root \in Dir
  /\ entries \in [Dir -> Entries]
  /\ disk \in [Dir -> Entries]
  /\ written \subseteq Key /\ durable \subseteq Key /\ abandoned \subseteq Key
  /\ store \in [Proc -> Handle]
  /\ acknowledged \in [Dir -> 0 .. MaxVersion]
  /\ keys \in 0 .. MaxKeys
  /\ powerLosses \in 0 .. MaxPowerLoss
  /\ ordered \in BOOLEAN

Init ==
  /\ root = 1
  /\ entries = [d \in Dir |-> [key |-> Nil, state |-> Nil]]
  /\ disk = entries
  /\ written = {} /\ durable = {} /\ abandoned = {}
  /\ store = [p \in Proc |-> Closed]
  /\ acknowledged = [d \in Dir |-> 0]
  /\ keys = 0
  /\ powerLosses = 0
  /\ ordered \in BOOLEAN

-----------------------------------------------------------------------------
At(p, pc) == store[p].pc = pc
Become(p, handle) == store' = [store EXCEPT ![p] = handle]
Goto(p, pc) == Become(p, [store[p] EXCEPT !.pc = pc])
Fail(p) == Become(p, Closed)

(* revalidate_filesystem_identity: the paths still name what was opened. *)
SameFiles(p) == {store[p].lock, store[p].directory, store[p].keyFile} = {root}

VersionIn(entry) == IF entry.state = Nil THEN 0 ELSE entry.state.version

-----------------------------------------------------------------------------
(* open_named *)

(* As if the lock were not tried. *)
LockShared(p) ==
  /\ At(p, "closed")
  /\ Become(p, [Closed EXCEPT !.pc = "identify", !.lock = root])
  /\ UNCHANGED <<root, entries, disk, keyBytes, acknowledged, keys, powerLosses, ordered>>

Lock(p) ==
  /\ At(p, "closed")
  /\ \A q \in Proc : store[q].lock # root
  /\ Become(p, [Closed EXCEPT !.pc = "identify", !.lock = root])
  /\ UNCHANGED <<root, entries, disk, keyBytes, acknowledged, keys, powerLosses, ordered>>

Identify(p) ==
  /\ At(p, "identify")
  /\ Become(p, [store[p] EXCEPT !.pc = "load", !.directory = root])
  /\ UNCHANGED <<root, entries, disk, keyBytes, acknowledged, keys, powerLosses, ordered>>

(* load_or_create_seal_key: a file that is not 32 bytes long is an error.   *)
OpenKey(p) ==
  /\ At(p, "load")
  /\ entries[root].key # Nil
  /\ Become(p, [store[p] EXCEPT !.pc = "read key", !.keyFile = root, !.key = entries[root].key])
  /\ UNCHANGED <<root, entries, disk, keyBytes, acknowledged, keys, powerLosses, ordered>>

ReadKey(p) ==
  /\ At(p, "read key")
  /\ IF store[p].key \in written THEN Goto(p, "revalidate") ELSE Fail(p)
  /\ UNCHANGED <<root, entries, disk, keyBytes, acknowledged, keys, powerLosses, ordered>>

(* create_seal_key: create_new, write_all, sync_all, three steps. *)
CreateKey(p) ==
  /\ At(p, "load")
  /\ entries[root].key = Nil
  /\ keys < MaxKeys
  /\ keys' = keys + 1
  /\ entries' = [entries EXCEPT ![root].key = keys']
  /\ Become(p, [store[p] EXCEPT !.pc = "fill", !.keyFile = root, !.key = keys'])
  /\ UNCHANGED <<root, disk, keyBytes, acknowledged, powerLosses, ordered>>

FillKey(p) ==
  /\ At(p, "fill")
  /\ written' = written \cup {store[p].key}
  /\ Goto(p, "sync key")
  /\ UNCHANGED <<root, entries, disk, durable, abandoned, acknowledged, keys, powerLosses, ordered>>

(* As if a new key were not synchronized. *)
KeepKeyInCache(p) ==
  /\ At(p, "sync key")
  /\ Goto(p, "revalidate")
  /\ UNCHANGED <<root, entries, disk, keyBytes, acknowledged, keys, powerLosses, ordered>>

(* The bytes are on disk then; the entry of the file need not be.  Nobody   *)
(* else synchronizes them: a process that finds the file only reads it.     *)
SyncKey(p) ==
  /\ At(p, "sync key")
  /\ durable' = durable \cup {store[p].key}
  /\ Goto(p, "revalidate")
  /\ UNCHANGED <<root, entries, disk, written, abandoned, acknowledged, keys, powerLosses, ordered>>

Revalidate(p) ==
  /\ At(p, "revalidate")
  /\ IF SameFiles(p) THEN Goto(p, "open") ELSE Fail(p)
  /\ UNCHANGED <<root, entries, disk, keyBytes, acknowledged, keys, powerLosses, ordered>>

-----------------------------------------------------------------------------
(* read: what is there must carry the seal of the key. *)
Read(p) ==
  /\ At(p, "open")
  /\ IF /\ SameFiles(p)
        /\ entries[root].state # Nil => entries[root].state.key = store[p].key
       THEN Become(p, [store[p] EXCEPT !.version = VersionIn(entries[root]), !.known = TRUE])
       ELSE Fail(p)
  /\ UNCHANGED <<root, entries, disk, keyBytes, acknowledged, keys, powerLosses, ordered>>

-----------------------------------------------------------------------------
(* write: the version after the one the process knows. *)

StartWrite(p) ==
  /\ At(p, "open")
  /\ store[p].known
  /\ store[p].version < MaxVersion
  /\ IF SameFiles(p)
       THEN Become(p, [store[p] EXCEPT !.pc = "write", !.version = @ + 1])
       ELSE Fail(p)
  /\ UNCHANGED <<root, entries, disk, keyBytes, acknowledged, keys, powerLosses, ordered>>

(* The temporary file is written and synchronized where the path leads. *)
WriteTemporary(p) ==
  /\ At(p, "write")
  /\ Become(p, [store[p] EXCEPT !.pc = "rename", !.temporary = root])
  /\ UNCHANGED <<root, entries, disk, keyBytes, acknowledged, keys, powerLosses, ordered>>

(* As if the directory were not synchronized after the rename. *)
RenameOnly(p) ==
  /\ At(p, "rename")
  /\ IF store[p].temporary = root
       THEN /\ entries' = [entries EXCEPT
                 ![root].state = [version |-> store[p].version, key |-> store[p].key]]
            /\ Become(p, [store[p] EXCEPT !.pc = "confirm", !.temporary = Nil])
       ELSE Fail(p) /\ UNCHANGED entries
  /\ UNCHANGED <<root, disk, keyBytes, acknowledged, keys, powerLosses, ordered>>

Rename(p) ==
  /\ At(p, "rename")
  /\ IF store[p].temporary = root
       THEN /\ entries' = [entries EXCEPT
                 ![root].state = [version |-> store[p].version, key |-> store[p].key]]
            /\ Become(p, [store[p] EXCEPT !.pc = "sync directory", !.temporary = Nil])
       ELSE Fail(p) /\ UNCHANGED entries
  /\ UNCHANGED <<root, disk, keyBytes, acknowledged, keys, powerLosses, ordered>>

(* sync_directory: the names in it, not the bytes of the files they name. *)
SyncDirectory(p) ==
  /\ At(p, "sync directory")
  /\ disk' = [disk EXCEPT ![root] = entries[root]]
  /\ Goto(p, "confirm")
  /\ UNCHANGED <<root, entries, keyBytes, acknowledged, keys, powerLosses, ordered>>

(* As if a finished write were not checked against the paths again. *)
ConfirmBlindly(p) ==
  /\ At(p, "confirm")
  /\ Goto(p, "open")
  /\ acknowledged' = [acknowledged EXCEPT ![store[p].lock] = store[p].version]
  /\ UNCHANGED <<root, entries, disk, keyBytes, keys, powerLosses, ordered>>

Confirm(p) ==
  /\ At(p, "confirm")
  /\ IF SameFiles(p)
       THEN /\ Goto(p, "open")
            /\ acknowledged' = [acknowledged EXCEPT ![store[p].lock] = store[p].version]
       ELSE Fail(p) /\ UNCHANGED acknowledged
  /\ UNCHANGED <<root, entries, disk, keyBytes, keys, powerLosses, ordered>>

-----------------------------------------------------------------------------
(* The end of a process, killed or not: its lock is released, a temporary   *)
(* file it leaves is never read.                                            *)
Exit(p) ==
  /\ ~At(p, "closed")
  /\ abandoned' = IF At(p, "sync key") THEN abandoned \cup {store[p].key} ELSE abandoned
  /\ Fail(p)
  /\ UNCHANGED <<root, entries, disk, written, durable, acknowledged, keys, powerLosses, ordered>>

(* The file system writes back on its own: the key's entry, the state's     *)
(* entry, in the order they were made if it keeps that.                     *)
WriteBackKey(d) ==
  /\ disk[d].key # entries[d].key
  /\ disk' = [disk EXCEPT ![d].key = entries[d].key]
  /\ UNCHANGED <<root, entries, keyBytes, store, acknowledged, keys, powerLosses, ordered>>

WriteBackState(d) ==
  /\ disk[d].state # entries[d].state
  /\ ordered => disk[d].key = entries[d].key
  /\ disk' = [disk EXCEPT ![d].state = entries[d].state]
  /\ UNCHANGED <<root, entries, keyBytes, store, acknowledged, keys, powerLosses, ordered>>

(* Bytes nobody synchronized may have been written back by then, or not.    *)
PowerLoss ==
  /\ powerLosses < MaxPowerLoss
  /\ powerLosses' = powerLosses + 1
  /\ entries' = disk
  /\ \E unsynced \in SUBSET (written \ durable) : durable' = durable \cup unsynced
  /\ written' = durable'
  /\ store' = [p \in Proc |-> Closed]
  /\ UNCHANGED <<root, disk, abandoned, acknowledged, keys, ordered>>

(* Somebody moves the directory away and another one into its place. *)
ReplaceDirectory ==
  /\ root < MaxDirs
  /\ root' = root + 1
  /\ UNCHANGED <<entries, disk, keyBytes, store, acknowledged, keys, powerLosses, ordered>>

-----------------------------------------------------------------------------
Open(p) == Lock(p) \/ Identify(p) \/ OpenKey(p) \/ ReadKey(p) \/ CreateKey(p) \/ FillKey(p) \/ SyncKey(p)
           \/ Revalidate(p)
Write(p) == StartWrite(p) \/ WriteTemporary(p) \/ Rename(p) \/ SyncDirectory(p) \/ Confirm(p)

Next ==
  \/ \E p \in Proc : Open(p) \/ Read(p) \/ Write(p) \/ Exit(p)
  \/ \E d \in Dir : WriteBackKey(d) \/ WriteBackState(d)
  \/ PowerLoss
  \/ ReplaceDirectory

Spec == Init /\ [][Next]_vars

-----------------------------------------------------------------------------
(* Properties *)

(* The store of the directory a process locked is one durable register:     *)
(* versions follow one another, whoever writes them, and no crash, power    *)
(* loss or replaced directory takes back one whose write returned Ok.       *)
Register == INSTANCE DurableRegister
              WITH visible <- VersionIn(entries[1]), acknowledged <- acknowledged[1]
RegisterSpec == Register!Spec

(* No state without its key.  An acknowledged version can be read back: its *)
(* seal fits the key file, now and after a power loss, and the bytes of     *)
(* that file are on disk, unless its maker ended between writing and        *)
(* synchronizing them: whoever opens the store next only reads the file,    *)
(* and a power loss may then leave a state under a short key.  A key left   *)
(* short by a crash otherwise locks the deployment out of its directory,    *)
(* never out of a state.  Where entries reach the disk in order, even a     *)
(* state whose write did not return is never left under another key.        *)
SealFitsKey ==
  /\ \A e \in {entries[1], disk[1]} :
       /\ acknowledged[1] # 0 => e.state # Nil /\ e.key = e.state.key
       /\ ordered /\ e.state # Nil => e.key = e.state.key
  /\ acknowledged[1] # 0 => entries[1].key \in durable \cup abandoned

(* A process that has the store open has the lock, the directory and the    *)
(* key of one place, and no other process has it.                           *)
OpenIsExclusive ==
  \A p \in Proc : store[p].pc \in {"open", "write", "rename", "sync directory", "confirm"} =>
    /\ store[p].lock = store[p].directory
    /\ store[p].lock = store[p].keyFile
    /\ \A q \in Proc \ {p} : store[q].lock # store[p].lock
=============================================================================
