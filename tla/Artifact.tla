------------------------------ MODULE Artifact ------------------------------
(***************************************************************************)
(* artifact: a directory of artifacts in a store, local or S3.             *)
(*                                                                         *)
(* Put stores a file and then records it in Dir.entries; nothing makes the *)
(* two one step, and several callers do it at once.  Finalize copies the   *)
(* entries and stores the copy as index.json, which LoadIndex reads back,  *)
(* in this process or a later one: the entries live in memory only.        *)
(*                                                                         *)
(* A reference or a namespace is the sequence of its segments: "a//b" is   *)
(* <<"a", "", "b">>, "/a" is <<"", "a">> and the empty string <<"">>.      *)
(* Of a segment only the blanks before and after it matter: BuildKey takes *)
(* them off both ends of a cleaned reference, the tables say what is left. *)
(***************************************************************************)
EXTENDS Integers, SequencesExt

CONSTANTS Writers,     \* goroutines that call Put or PutReader
          TrimLeft,    \* each segment without the blanks before it,
          TrimRight,   \* and without those after it
          Base,        \* the directories of LocalStore's absolute baseDir
          Namespaces,  \* what Store.Dir may be given
          GivenRefs,   \* what Put and PutReader may be given
          Contents,    \* what a file may contain, and its checksum
          MaxEntries,  \* bound on the entries of one process
          Torn, None

Segments == DOMAIN TrimLeft
Nowhere == {"", "."}  \* segments that lead nowhere
Up == ".."
IndexFile == "index.json"

ASSUME ArtifactAssumption ==
    /\ Segments \subseteq STRING
    /\ TrimLeft \in [Segments -> Segments] /\ TrimRight \in [Segments -> Segments]
    /\ Nowhere \cup {Up, IndexFile} \subseteq Segments
    /\ \A s \in Nowhere \cup {Up, IndexFile} : TrimLeft[s] = s /\ TrimRight[s] = s
    /\ Base \in Seq(STRING \ (Nowhere \cup {Up})) \ {<<>>}
    /\ Namespaces \subseteq Seq(Segments) \ {<<>>}
    /\ GivenRefs \subseteq Seq(Segments) \ {<<>>}
    /\ MaxEntries \in Nat
    /\ Torn # None
    /\ {Torn, None} \cap Contents = {}

VARIABLES
    backend,  \* the Storer
    dir,      \* the namespace as given to Store.Dir
    files,    \* what the store has in each place but the index's
    index,    \* what it has in the index's place
    entries,  \* Dir.entries
    pc, job,  \* where each writer is, and the entry it is to record
    fin,      \* where Finalize is; it has one caller at a time
    copied,   \* the entries Finalize has copied
    mine,     \* ghost: the stored index was written by this process
    tainted   \* ghost: places whose last call failed or met another call

vars == <<backend, dir, files, index, entries, pc, job, fin, copied, mine, tainted>>

-----------------------------------------------------------------------------
(* References and keys                                                     *)

\* path.Clean, on segments: the path after each of them, and after the last.
CleanStep(path, seg) ==
    IF seg \in Nowhere THEN path
    ELSE IF seg = Up /\ path # <<>> /\ Last(path) # Up THEN Front(path)
    ELSE Append(path, seg)
Paths(ref) ==
    LET path[n \in 0 .. Len(ref)] == IF n = 0 THEN <<>> ELSE CleanStep(path[n - 1], ref[n])
    IN  path
Clean(ref) == Paths(ref)[Len(ref)]

\* cleanRef accepts ref: it is neither empty nor absolute, and does not lead
\* out of the namespace or to its root.
Relative(ref) == ref[1] # ""
Legal(ref) ==
    /\ Relative(ref)
    /\ Clean(ref) # <<>>
    /\ Clean(ref)[1] # Up

Namespace == Clean(dir)

\* strings.TrimSpace, and the segments a part gives to BuildKey: none if it is
\* blank.  The part was cleaned before; nothing cleans it afterwards.
TrimSpace(p) ==
    LET left == [i \in DOMAIN p |-> IF i = 1 THEN TrimLeft[p[i]] ELSE p[i]]
    IN  [i \in DOMAIN p |-> IF i = Len(p) THEN TrimRight[left[i]] ELSE left[i]]
Padded(p) == TrimSpace(p) # p
Part(p) == IF TrimSpace(p) = <<"">> THEN <<>> ELSE TrimSpace(p)
BuildKey(ref) == Part(Namespace) \o Part(ref)

\* filepath.Join(baseDir, key): cleaned, and a step up from the root of the
\* file system stays there.
Resolve(key) ==
    LET path == Clean(Base \o key)
    IN  SubSeq(path, 1 + Cardinality({i \in DOMAIN path : path[i] = Up}), Len(path))

\* LocalStore.pathForWrite: the key stays below the base directory.
InBase(key) == IsPrefix(Base, Resolve(key))

\* The place of a reference in the store: a path, or the key of an object.
Location(ref) == IF backend = "local" THEN Resolve(BuildKey(ref)) ELSE BuildKey(ref)
IndexLocation == Location(<<IndexFile>>)

\* A file stands where a directory is needed, or the other way round.
Blocked(place) ==
    \E other \in DOMAIN files \cup (IF index = None THEN {} ELSE {IndexLocation}) :
        IsStrictPrefix(other, place) \/ IsStrictPrefix(place, other)

\* The store lets a Put begin.
Accepts(ref) == backend = "local" => InBase(BuildKey(ref)) /\ ~Blocked(Location(ref))

\* Mutant of Writable: the reference cleaned and not checked.
WritableUnchecked(ref) == Legal(dir) /\ Accepts(Clean(ref))

\* Every operation of a Dir with an illegal namespace, and every Put of an
\* illegal reference, returns an error and does nothing.
Writable(ref) == Legal(dir) /\ Legal(ref) /\ Accepts(Clean(ref))

-----------------------------------------------------------------------------
(* The store and what a reader gets                                        *)

\* The store once x is written in a place.
With(key, x) == [k \in DOMAIN files \cup {key} |-> IF k = key THEN x ELSE files[k]]

Exists(ref) == Location(ref) \in DOMAIN files
Get(ref) == files[Location(ref)]

\* An index of LoadIndex is usable if there is one and it is whole.
Loads == index \notin {None, Torn}
Refs(ix) == {ix[i].ref : i \in DOMAIN ix}
\* The first entry with the reference.
Find(ix, ref) == ix[SelectInSeq(ix, LAMBDA e : e.ref = ref)]

-----------------------------------------------------------------------------
\* References are cleaned before they are used.
CleanRefs == {Clean(ref) : ref \in GivenRefs}
Keys == {Location(ref) : ref \in CleanRefs}
Entry == [ref : CleanRefs, checksum : Contents]
ASSUME IndexAssumption == Torn \notin Seq(Entry) /\ None \notin Seq(Entry)

PC == {"idle", "storing", "recording"}

\* Only a local file is ever seen half written.
Parts == IF backend = "local" THEN {Torn} ELSE {}

TypeOK ==
    /\ backend \in {"local", "s3"}
    /\ dir \in Namespaces
    /\ DOMAIN files \subseteq Keys
    /\ \A k \in DOMAIN files : files[k] \in Contents \cup Parts
    /\ index \in {None, Torn} => index \in {None} \cup Parts
    /\ Loads => index \in Seq(Entry)
    /\ entries \in Seq(Entry) /\ copied \in Seq(Entry)
    /\ pc \in [Writers -> PC]
    /\ job \in [Writers -> Entry \cup {None}]
    /\ \A w \in Writers : pc[w] # "idle" => job[w] \in Entry
    /\ fin \in {"idle", "storing"}
    /\ mine \in BOOLEAN
    /\ tainted \subseteq Keys

Init ==
    /\ backend \in {"local", "s3"}
    /\ dir \in Namespaces
    /\ files = << >>
    /\ index = None
    /\ entries = <<>> /\ copied = <<>>
    /\ pc = [w \in Writers |-> "idle"]
    /\ job = [w \in Writers |-> None]
    /\ fin = "idle"
    /\ mine = FALSE
    /\ tainted = {}

\* Who is in a Put of the key.
At(key) == {w \in Writers : pc[w] # "idle" /\ Location(job[w].ref) = key}
JobKey(w) == Location(job[w].ref)

-----------------------------------------------------------------------------
(* Put, PutReader                                                          *)

\* The local file is truncated, or begun; in S3 nothing is seen before the
\* end.  A Put that fails before this has no effect and is no step.  Callers
\* leave index.json, however they spell it, to Finalize.
PutBegin(w, ref, x) ==
    LET key == Location(Clean(ref)) IN
    /\ pc[w] = "idle"
    /\ Len(entries) + Cardinality({v \in Writers : pc[v] # "idle"}) < MaxEntries
    /\ Writable(ref)
    /\ key # IndexLocation
    /\ files' = IF backend = "local" THEN With(key, Torn) ELSE files
    /\ pc' = [pc EXCEPT ![w] = "storing"]
    /\ job' = [job EXCEPT ![w] = [ref |-> Clean(ref), checksum |-> x]]
    /\ tainted' = IF At(key) # {} THEN tainted \cup {key} ELSE tainted \ {key}
    /\ UNCHANGED <<backend, dir, index, entries, fin, copied, mine>>

\* The file is written.  Two local writers of one file may mix their bytes.
PutStored(w) ==
    /\ pc[w] = "storing"
    /\ \E x \in {job[w].checksum} \cup
                (IF JobKey(w) \in tainted THEN Parts ELSE {}) :
          files' = With(JobKey(w), x)
    /\ pc' = [pc EXCEPT ![w] = "recording"]
    /\ UNCHANGED <<backend, dir, index, entries, job, fin, copied, mine, tainted>>

\* Mutant of PutFails: recorded all the same.
PutFailsRecorded(w) ==
    /\ pc[w] = "storing"
    /\ pc' = [pc EXCEPT ![w] = "recording"]
    /\ tainted' = tainted \cup {JobKey(w)}
    /\ UNCHANGED <<backend, dir, files, index, entries, job, fin, copied, mine>>

\* The write breaks off: the local file is left as far as it got, the S3
\* object as it was, or as it was to be if only the answer is lost.
PutFails(w) ==
    /\ pc[w] = "storing"
    /\ \/ UNCHANGED files
       \/ files' = With(JobKey(w), IF backend = "local" THEN Torn ELSE job[w].checksum)
    /\ pc' = [pc EXCEPT ![w] = "idle"]
    /\ job' = [job EXCEPT ![w] = None]
    /\ tainted' = tainted \cup {JobKey(w)}
    /\ UNCHANGED <<backend, dir, index, entries, fin, copied, mine>>

\* Mutant of Record: the newest entry comes first.
RecordInFront(w) ==
    /\ pc[w] = "recording"
    /\ entries' = <<job[w]>> \o entries
    /\ pc' = [pc EXCEPT ![w] = "idle"]
    /\ job' = [job EXCEPT ![w] = None]
    /\ UNCHANGED <<backend, dir, files, index, fin, copied, mine, tainted>>

Record(w) ==
    /\ pc[w] = "recording"
    /\ entries' = Append(entries, job[w])
    /\ pc' = [pc EXCEPT ![w] = "idle"]
    /\ job' = [job EXCEPT ![w] = None]
    /\ UNCHANGED <<backend, dir, files, index, fin, copied, mine, tainted>>

-----------------------------------------------------------------------------
(* Finalize                                                                *)

\* Mutant of FinalizeBegin: any backend's index is begun in place.
FinalizeInPlace ==
    /\ Legal(dir) /\ Accepts(<<IndexFile>>)
    /\ fin = "idle"
    /\ fin' = "storing"
    /\ copied' = entries
    /\ index' = Torn
    /\ UNCHANGED <<backend, dir, files, entries, pc, job, mine, tainted>>

FinalizeBegin ==
    /\ Legal(dir) /\ Accepts(<<IndexFile>>)
    /\ fin = "idle"
    /\ fin' = "storing"
    /\ copied' = entries
    /\ index' = IF backend = "local" THEN Torn ELSE index
    /\ UNCHANGED <<backend, dir, files, entries, pc, job, mine, tainted>>

FinalizeStored ==
    /\ fin = "storing"
    /\ fin' = "idle"
    /\ index' = copied /\ mine' = TRUE
    /\ copied' = <<>>
    /\ UNCHANGED <<backend, dir, files, entries, pc, job, tainted>>

FinalizeFails ==
    /\ fin = "storing"
    /\ fin' = "idle"
    /\ \/ UNCHANGED <<index, mine>>
       \/ backend = "s3" /\ index' = copied /\ mine' = TRUE
    /\ copied' = <<>>
    /\ UNCHANGED <<backend, dir, files, entries, pc, job, tainted>>

\* The process ends at any point and another one opens the same directory.
Restart ==
    /\ entries' = <<>> /\ copied' = <<>>
    /\ pc' = [w \in Writers |-> "idle"]
    /\ job' = [w \in Writers |-> None]
    /\ fin' = "idle"
    /\ mine' = FALSE
    /\ tainted' = {}
    /\ UNCHANGED <<backend, dir, files, index>>

Next ==
    \/ \E w \in Writers :
          \/ \E ref \in GivenRefs, x \in Contents : PutBegin(w, ref, x)
          \/ PutStored(w) \/ PutFails(w) \/ Record(w)
    \/ FinalizeBegin \/ FinalizeStored \/ FinalizeFails
    \/ Restart

Spec == Init /\ [][Next]_vars

-----------------------------------------------------------------------------
(* Properties                                                              *)

\* Legal without Clean: a relative reference that never steps above where it
\* starts and does not end there.
Named(ref, n) == {i \in 1 .. n : ref[i] \notin Nowhere \cup {Up}}
Ups(ref, n) == {i \in 1 .. n : ref[i] = Up}
Depth(ref, n) == Cardinality(Named(ref, n)) - Cardinality(Ups(ref, n))
Lexical(ref) ==
    /\ Relative(ref)
    /\ \A n \in DOMAIN ref : Depth(ref, n) >= 0
    /\ Depth(ref, Len(ref)) > 0

\* Where the files of the namespace belong.
Root == IF backend = "local" THEN Resolve(Part(Namespace)) ELSE Part(Namespace)

\* No reference leads out of the base directory of a local store, and none that
\* has no blanks around it leads out of the namespace, however it is written: its
\* place is a proper descendant, with no segment left for the store to resolve
\* unless the namespace itself has blanks around it.
KeysConfined ==
    \A k \in DOMAIN files :
        /\ backend = "local" => IsPrefix(Base, k)
        /\ \/ \E ref \in CleanRefs : Padded(ref) /\ k = Location(ref)
           \/ IsStrictPrefix(Root, k) /\ (Padded(Namespace) \/ Clean(k) = k)

\* Whatever is recorded, or named by an index that loads, of this process or
\* an earlier one, is in the store, whichever writes failed and wherever a
\* process ended.  The index that this process stored is what it had recorded
\* at some time, in the same order: entries are only added behind it.
IndexFaithful ==
    /\ \A ref \in Refs(entries) : Exists(ref)
    /\ Loads => \A ref \in Refs(index) : Exists(ref)
    /\ mine /\ Loads => IsPrefix(index, entries)

\* A reference none of whose calls failed since its last clean Put, met
\* another or is under way.
Settled(ref) == Location(ref) \notin tainted /\ At(Location(ref)) = {}

\* For settled references the last checksum recorded for their place is that
\* of the stored file, however often the file was replaced and whichever
\* spelling it was stored under; and if it was stored once, what Find returns
\* from this process's index is that of what Get returns.
ChecksumsTrue ==
    \A ref \in {r \in Refs(entries) : Settled(r)} :
        LET at == {i \in DOMAIN entries : Location(entries[i].ref) = Location(ref)} IN
        /\ entries[Max(at)].checksum = Get(ref)
        /\ mine /\ Loads /\ ref \in Refs(index) /\ Cardinality(at) = 1 =>
              Find(index, ref).checksum = Get(ref)

=============================================================================
