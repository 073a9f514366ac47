------------------------ MODULE SemanticIndex_proofs ------------------------
(***************************************************************************)
(* Proofs about the semantic index, for any number of files and threads.   *)
(***************************************************************************)
EXTENDS SemanticIndex, FiniteSetTheorems, TLAPS

-----------------------------------------------------------------------------
(* Types *)

LEMMA WithTyped ==
    ASSUME NEW g, NEW S, NEW T, IsPartial(g, S, T), NEW x \in S, NEW v \in T
    PROVE  /\ IsPartial(With(g, x, v), S, T)
           /\ DOMAIN With(g, x, v) = DOMAIN g \cup {x}
           /\ \A y \in DOMAIN g \cup {x} : With(g, x, v)[y] = IF y = x THEN v ELSE g[y]
BY DEF IsPartial, With

LEMMA EmptyTyped == \A S, T : IsPartial(Empty, S, T)
BY DEF IsPartial, Empty

\* A number of a file is a natural number, in a table of any size.
LEMMA IdTyped ==
    ASSUME NEW fs \in SUBSET Files, NEW f \in fs
    PROVE  IdIn(fs, f) \in Nat
<1> DEFINE upto == {g \in fs : g <= f}
<1>1. upto \in SUBSET Nat /\ f \in Nat /\ \A g \in upto : g <= f
    BY IndexAssumption
<1>2. IsFiniteSet(upto)
    BY <1>1, FS_BoundedSetOfNaturals
<1> QED
    BY <1>2, FS_CardinalityType DEF IdIn

\* The companion of the files table has the listed times and no others.
LEMMA MetaTyped ==
    ASSUME NEW times, IsTimes(times)
    PROVE  /\ IsPartial(MetaOf(times), Nat, Nat)
           /\ \A i \in DOMAIN MetaOf(times) : \E f \in DOMAIN times : MetaOf(times)[i] = times[f]
<1> DEFINE ids == {IdIn(DOMAIN times, f) : f \in DOMAIN times}
           of(i) == CHOOSE f \in DOMAIN times : IdIn(DOMAIN times, f) = i
<1>1. ids \subseteq Nat
    BY IdTyped DEF IsTimes, IsPartial
<1>2. MetaOf(times) = [i \in ids |-> times[of(i)]]
    BY DEF MetaOf
<1>3. \A i \in ids : of(i) \in DOMAIN times
    OBVIOUS
<1>4. \A i \in ids : times[of(i)] \in Nat
    BY <1>3 DEF IsTimes, IsPartial
<1> HIDE DEF ids, of
<1> QED
    BY <1>1, <1>2, <1>3, <1>4 DEF IsPartial

\* A time read back is one of the companion's, or none.
LEMMA TimeTyped ==
    ASSUME NEW meta, meta = None \/ IsPartial(meta, Nat, Nat), NEW fs, NEW f
    PROVE  /\ TimeOf(meta, fs, f) \in Nat
           /\ \/ TimeOf(meta, fs, f) = 0
              \/ meta # None /\ \E i \in DOMAIN meta : TimeOf(meta, fs, f) = meta[i]
BY DEF TimeOf, IsPartial

LEMMA ScannedTyped ==
    ASSUME JobTypeOK
    PROVE  /\ IsTimes(Scanned.at) /\ IsTables(Scanned)
           /\ Scanned.at = found /\ Scanned.files = hashed
<1>1. DOMAIN found \subseteq Files /\ parsed \in [DOMAIN parsed -> Texts] /\ DOMAIN parsed \subseteq Files
    BY DEF JobTypeOK, IsTexts, IsTimes, IsPartial
<1>2. IsSymbols([f \in DOMAIN parsed |-> SymbolsOf[parsed[f]]])
    BY <1>1 DEF IsSymbols, IsPartial
<1>3. IsDeps([f \in DOMAIN parsed |-> DepsOf[parsed[f]] \cap DOMAIN found])
    BY <1>1, IndexAssumption DEF IsDeps, IsPartial
<1> QED
    BY <1>2, <1>3 DEF Scanned, IsTables, JobTypeOK

LEMMA OnDiskTyped ==
    ASSUME DiskTypeOK, Persisted
    PROVE  IsTimes(OnDisk.at) /\ IsTables(OnDisk)
<1> DEFINE at == [f \in DOMAIN disk.files |-> TimeOf(disk.meta, DOMAIN disk.files, f)]
<1>1. IsTables(OnDisk)
    BY DEF DiskTypeOK, Persisted, OnDisk, IsTables
<1>2. DOMAIN disk.files \subseteq Files
    BY DEF DiskTypeOK, Persisted, IsTexts, IsPartial
<1>3. \A f \in DOMAIN disk.files : TimeOf(disk.meta, DOMAIN disk.files, f) \in Nat
    BY TimeTyped DEF DiskTypeOK
<1>4. IsTimes(at)
    BY <1>2, <1>3 DEF IsTimes, IsPartial
<1> QED
    BY <1>1, <1>4 DEF OnDisk

LEMMA TablesAre ==
    /\ Len(Tables) = 5
    /\ Tables[1] = "files" /\ Tables[2] = "meta" /\ Tables[3] = "symbols"
    /\ Tables[4] = "deps" /\ Tables[5] = "core"
    /\ \A i \in 1 .. 5 : Tables[i] \in TableNames
BY DEF Tables, TableNames

LEMMA IdleTyped ==
    [w \in Workers |-> Idle] \in [Workers -> {Idle} \cup [file : Files, text : Texts \cup {None}]]
OBVIOUS

LEMMA ReturnTyped == Return => JobTypeOK'
<1> SUFFICES ASSUME Return PROVE JobTypeOK'
    OBVIOUS
<1>1. IsTimes(found') /\ IsTexts(hashed') /\ IsTexts(parsed')
    BY EmptyTyped DEF Return, IsTimes, IsTexts
<1>2. table' \in 1 .. Len(Tables)
    BY TablesAre DEF Return
<1> QED
    BY <1>1, <1>2, IdleTyped DEF Return, JobTypeOK

LEMMA ListTyped == JobTypeOK /\ (\E g \in {"check", "scan"} : List(g)) => JobTypeOK'
BY EmptyTyped DEF List, JobTypeOK, IsTimes, IsTexts

LEMMA InitTyped == Init => TypeOK
<1> SUFFICES ASSUME Init PROVE TypeOK
    OBVIOUS
<1>1. src \in [Files -> {None} \cup [text : Texts, at : Nat]]
    BY IndexAssumption DEF Init
<1>2. DiskTypeOK
    BY DEF Init, DiskTypeOK, TableNames
<1>3. IsTimes(served.at) /\ IsTables(served)
    BY EmptyTyped DEF Init, NoIndex, IsTimes, IsTables, IsTexts, IsSymbols, IsDeps
<1>4. JobTypeOK
    <2>1. IsTimes(found) /\ IsTexts(hashed) /\ IsTexts(parsed)
        BY EmptyTyped DEF Init, IsTimes, IsTexts
    <2>2. table \in 1 .. Len(Tables)
        BY TablesAre DEF Init
    <2> QED
        BY <2>1, <2>2, IdleTyped DEF Init, JobTypeOK
<1> QED
    BY <1>1, <1>2, <1>3, <1>4 DEF Init, TypeOK

-----------------------------------------------------------------------------
(* Every step keeps the types *)

LEMMA EditTyped ==
    ASSUME TypeOK, NEW f \in Files,
           Delete(f) \/ \E t \in Texts : Edit(f, t)
    PROVE  TypeOK'
<1>1. src' \in [Files -> {None} \cup [text : Texts, at : Nat]] /\ clock' \in Nat
    BY DEF TypeOK, Delete, Edit
<1>2. UNCHANGED <<disk, served, ahead, doubtful, pc, goal, todo, found, queue, worker, failed,
                  hashed, parsed, table>>
    BY DEF Delete, Edit, history, job
<1> QED
    BY <1>1, <1>2 DEF TypeOK, DiskTypeOK, JobTypeOK

\* The steps between requests and answers, which leave the sources alone.
Serving ==
    \/ AskQuery \/ AskRebuild
    \/ AnswerFromMemory \/ AnswerFromDisk \/ FallToRebuild
    \/ ScanFails \/ WriteFails \/ Publish \/ Crash

LEMMA ServingTyped == TypeOK /\ Serving => TypeOK'
<1> SUFFICES ASSUME TypeOK, Serving PROVE TypeOK'
    OBVIOUS
<1>1. UNCHANGED <<src, clock, disk, ahead>>
    BY DEF Serving, AskQuery, AskRebuild, AnswerFromMemory, AnswerFromDisk, FallToRebuild,
           ScanFails, WriteFails, Publish, Crash, history
<1>2. JobTypeOK'
    <2>1. Return \/ \E g \in {"check", "scan"} : List(g)
        BY DEF Serving, AskQuery, AskRebuild, AnswerFromMemory, AnswerFromDisk, FallToRebuild,
               ScanFails, WriteFails, Publish, Crash
    <2> QED
        BY <2>1, ReturnTyped, ListTyped DEF TypeOK
<1>3. IsTimes(served'.at) /\ IsTables(served') /\ doubtful' \in BOOLEAN
    <2>1. CASE AnswerFromDisk
        BY <2>1, OnDiskTyped DEF AnswerFromDisk, Verified, TypeOK
    <2>2. CASE Publish
        BY <2>2, ScannedTyped DEF Publish, TypeOK
    <2>3. CASE Crash
        BY <2>3, EmptyTyped DEF Crash, NoIndex, IsTimes, IsTables, IsTexts, IsSymbols, IsDeps
    <2>4. CASE UNCHANGED <<served, history>>
        BY <2>4 DEF TypeOK, history
    <2> QED
        BY <2>1, <2>2, <2>3, <2>4
        DEF Serving, AskQuery, AskRebuild, AnswerFromMemory, FallToRebuild, ScanFails, WriteFails
<1> QED
    BY <1>1, <1>2, <1>3 DEF TypeOK, DiskTypeOK

\* The steps of the listing and of the scan, which change nothing else.
Reading ==
    \/ \E f \in Files : Stat(f)
    \/ StartScan \/ ScanSucceeds
    \/ \E w \in Workers : Work(w)

LEMMA ReadingTyped == TypeOK /\ Reading => TypeOK'
<1> SUFFICES ASSUME TypeOK, Reading PROVE TypeOK'
    OBVIOUS
<1>1. UNCHANGED <<src, clock, disk, ahead, doubtful, served>>
    BY DEF Reading, Stat, StartScan, ScanSucceeds, Work, Take, Hash, Parse, history
<1>2. JobTypeOK'
    <2> USE DEF JobTypeOK, TypeOK
    <2>1. CASE \E f \in Files : Stat(f)
        <3>1. PICK f \in Files : Stat(f)
            BY <2>1
        <3>2. src[f] = None \/ src[f].at \in Nat
            OBVIOUS
        <3>3. IsTimes(found')
            BY <3>1, <3>2, WithTyped DEF Stat, IsTimes
        <3> QED
            BY <3>1, <3>3 DEF Stat
    <2>2. CASE StartScan \/ ScanSucceeds
        BY <2>2 DEF StartScan, ScanSucceeds, IsTimes, IsPartial
    <2>3. ASSUME NEW w \in Workers, Take(w) PROVE JobTypeOK'
        BY <2>3 DEF Take
    <2>4. ASSUME NEW w \in Workers, Hash(w) PROVE JobTypeOK'
        <3>1. worker[w].file \in Files
            BY <2>4, IndexAssumption DEF Hash, Idle
        <3>2. src[worker[w].file] = None \/ src[worker[w].file].text \in Texts
            BY <3>1
        <3>3. worker' \in [Workers -> {Idle} \cup [file : Files, text : Texts \cup {None}]]
            <4>1. CASE src[worker[w].file] = None
                BY <2>4, <4>1 DEF Hash, Fail
            <4>2. CASE src[worker[w].file] # None
                <5>1. worker[w] \in [file : Files, text : Texts \cup {None}]
                    BY <3>1, IndexAssumption DEF Idle
                <5>2. [worker[w] EXCEPT !.text = src[worker[w].file].text]
                          \in [file : Files, text : Texts \cup {None}]
                    BY <3>2, <4>2, <5>1
                <5>3. worker' = [worker EXCEPT ![w] = [worker[w] EXCEPT !.text = src[worker[w].file].text]]
                    BY <2>4, <4>2 DEF Hash
                <5> QED
                    BY <5>2, <5>3
            <4> QED
                BY <4>1, <4>2
        <3> QED
            BY <2>4, <3>3 DEF Hash, Fail
    <2>5. ASSUME NEW w \in Workers, Parse(w) PROVE JobTypeOK'
        <3>1. worker[w].text \in Texts /\ worker[w].file \in Files
            BY <2>5, IndexAssumption DEF Parse, Idle
        <3>2. worker' \in [Workers -> {Idle} \cup [file : Files, text : Texts \cup {None}]]
            BY <2>5 DEF Parse, Fail
        <3>3. IsTexts(hashed') /\ IsTexts(parsed')
            <4>1. CASE UNCHANGED <<hashed, parsed>>
                BY <4>1 DEF IsTexts, IsPartial
            <4>2. CASE ~UNCHANGED <<hashed, parsed>>
                <5>1. /\ hashed' = With(hashed, worker[w].file, worker[w].text)
                      /\ parsed' = With(parsed, worker[w].file, src[worker[w].file].text)
                      /\ src[worker[w].file].text \in Texts
                    BY <2>5, <3>1, <4>2 DEF Parse, Fail
                <5> QED
                    BY <3>1, <5>1, WithTyped DEF IsTexts
            <4> QED
                BY <4>1, <4>2
        <3> QED
            BY <2>5, <3>2, <3>3 DEF Parse, Fail
    <2> QED
        BY <1>1, <2>1, <2>2, <2>3, <2>4, <2>5 DEF Reading, Work
<1> QED
    BY <1>1, <1>2 DEF TypeOK, DiskTypeOK

\* What a rename puts in place, table by table.
LEMMA RenameDoes ==
    ASSUME TypeOK, Rename
    PROVE  /\ \A t \in TableNames : t # Tables[table] => disk'[t] = disk[t]
           /\ table = 1 => disk'.files = hashed
           /\ table = 2 => disk'.meta = MetaOf(found) /\ ahead'
           /\ table = 3 => disk'.symbols = Scanned.symbols
           /\ table = 4 => disk'.deps = Scanned.deps
           /\ table = 5 => disk'.core = Hashes /\ ~ahead' /\ pc' = "publish"
           /\ table \notin {2, 5} => ahead' = ahead
           /\ table # 5 => pc' = "write" /\ table' = table + 1
           /\ DOMAIN disk' = TableNames
<1>1. table \in 1 .. 5 /\ DOMAIN disk = TableNames
    BY TablesAre DEF TypeOK, JobTypeOK, DiskTypeOK
<1>2. disk' = [disk EXCEPT ![Tables[table]] = Written(Tables[table])]
    BY DEF Rename
<1>3. DOMAIN disk' = TableNames /\ \A t \in TableNames : t # Tables[table] => disk'[t] = disk[t]
    BY <1>1, <1>2
<1>4. disk'[Tables[table]] = Written(Tables[table])
    BY <1>1, <1>2, TablesAre
<1>5. ahead' = CASE Tables[table] = "meta" -> TRUE
                 [] Tables[table] = "core" -> FALSE
                 [] OTHER -> ahead
    BY DEF Rename
<1>6. IF table < 5 THEN pc' = "write" /\ table' = table + 1 ELSE pc' = "publish" /\ UNCHANGED table
    BY TablesAre DEF Rename
<1>7. Scanned.files = hashed
    BY DEF Scanned
<1>8. CASE table = 1
    <2>1. Tables[table] = "files" /\ Written("files") = Scanned["files"]
        BY <1>8, TablesAre DEF Written
    <2> QED
        BY <1>3, <1>4, <1>5, <1>6, <1>7, <1>8, <2>1
<1>9. CASE table = 2
    <2>1. Tables[table] = "meta" /\ Written("meta") = MetaOf(found)
        BY <1>9, TablesAre DEF Written
    <2> QED
        BY <1>3, <1>4, <1>5, <1>6, <1>9, <2>1
<1>10. CASE table = 3
    <2>1. Tables[table] = "symbols" /\ Written("symbols") = Scanned["symbols"]
        BY <1>10, TablesAre DEF Written
    <2> QED
        BY <1>3, <1>4, <1>5, <1>6, <1>10, <2>1
<1>11. CASE table = 4
    <2>1. Tables[table] = "deps" /\ Written("deps") = Scanned["deps"]
        BY <1>11, TablesAre DEF Written
    <2> QED
        BY <1>3, <1>4, <1>5, <1>6, <1>11, <2>1
<1>12. CASE table = 5
    <2>1. Tables[table] = "core" /\ Written("core") = Hashes
        BY <1>12, TablesAre DEF Written
    <2> QED
        BY <1>3, <1>4, <1>5, <1>6, <1>12, <2>1
<1> QED
    BY <1>1, <1>8, <1>9, <1>10, <1>11, <1>12

LEMMA RemoveDoes ==
    ASSUME TypeOK, RemoveOld
    PROVE  /\ \A t \in TableNames : t # Tables[table] => disk'[t] = disk[t]
           /\ disk'[Tables[table]] = None
           /\ DOMAIN disk' = TableNames
BY TablesAre DEF TypeOK, JobTypeOK, DiskTypeOK, RemoveOld

\* Only complete tables are used for core.idx.
TablesInPlace ==
    pc \in {"write", "rename"} =>
        /\ table > 1 => disk.files = hashed
        /\ table > 2 => disk.meta = MetaOf(found) /\ ahead
        /\ table > 3 => disk.symbols = Scanned.symbols
        /\ table > 4 => disk.deps = Scanned.deps

LEMMA WritingTyped ==
    ASSUME TypeOK, TablesInPlace, RemoveOld \/ Rename
    PROVE  TypeOK'
<1>1. UNCHANGED <<src, clock, served, doubtful, goal, todo, found, queue, worker, failed, hashed, parsed>>
    BY DEF RemoveOld, Rename, history
<1>2. table \in 1 .. 5
    BY TablesAre DEF TypeOK, JobTypeOK
<1>3. JobTypeOK'
    <2>1. pc' \in {"write", "rename", "publish"} /\ table' \in 1 .. Len(Tables)
        <3>1. CASE RemoveOld
            BY <3>1, <1>2, TablesAre DEF RemoveOld
        <3>2. CASE Rename
            <4>1. IF table < 5 THEN pc' = "write" /\ table' = table + 1
                              ELSE pc' = "publish" /\ UNCHANGED table
                BY <3>2, TablesAre DEF Rename
            <4> QED
                BY <4>1, <1>2, TablesAre
        <3> QED
            BY <3>1, <3>2
    <2> QED
        BY <1>1, <2>1 DEF TypeOK, JobTypeOK
<1>4. ahead' \in BOOLEAN
    BY DEF TypeOK, RemoveOld, Rename, history
<1>5. DiskTypeOK'
    <2> USE DEF TypeOK, DiskTypeOK
    <2>1. CASE RemoveOld
        <3>1. \A t \in TableNames : disk'[t] = None \/ disk'[t] = disk[t]
            BY <2>1, RemoveDoes
        <3>2. /\ disk'.files = None \/ disk'.files = disk.files
              /\ disk'.meta = None \/ disk'.meta = disk.meta
              /\ disk'.symbols = None \/ disk'.symbols = disk.symbols
              /\ disk'.deps = None \/ disk'.deps = disk.deps
              /\ disk'.core = None \/ disk'.core = disk.core
            BY <3>1 DEF TableNames
        <3> QED
            BY <2>1, <3>2, RemoveDoes
    <2>2. CASE Rename
        <3>1. /\ IsTexts(hashed) /\ IsSymbols(Scanned.symbols) /\ IsDeps(Scanned.deps)
              /\ IsPartial(MetaOf(found), Nat, Nat)
            BY ScannedTyped, MetaTyped DEF JobTypeOK, IsTables
        <3>2. table = 5 => IsTables(Hashes)
            BY <2>2, <3>1 DEF TablesInPlace, Rename, Hashes, IsTables
        <3> QED
            BY <1>2, <2>2, <3>1, <3>2, RenameDoes, TablesAre DEF TableNames
    <2> QED
        BY <2>1, <2>2
<1> QED
    BY <1>1, <1>3, <1>4, <1>5 DEF TypeOK

-----------------------------------------------------------------------------
(* The order of a rebuild *)

\* Nothing is left of an earlier scan when a list is made, the hash and the
\* symbols of a file come together, and only a complete scan is written.
ScanInOrder ==
    /\ pc \in {"idle", "list"} =>
           /\ DOMAIN hashed = {} /\ table = 1
           /\ \A w \in Workers : worker[w] = Idle
    /\ pc = "scan" => table = 1
    /\ DOMAIN parsed = DOMAIN hashed
    /\ pc \in {"write", "rename", "publish"} => DOMAIN hashed = DOMAIN found
    /\ pc = "publish" => disk.core = [files |-> hashed, symbols |-> Scanned.symbols,
                                      deps |-> Scanned.deps]

Ordered == TypeOK /\ TablesInPlace /\ ScanInOrder

LEMMA InitOrdered == Init => Ordered
<1> SUFFICES ASSUME Init PROVE Ordered
    OBVIOUS
<1>1. TypeOK
    BY InitTyped
<1> QED
    BY <1>1 DEF Init, Ordered, TablesInPlace, ScanInOrder, Empty

LEMMA ReturnOrdered == Return => TablesInPlace' /\ ScanInOrder'
BY DEF Return, TablesInPlace, ScanInOrder, Empty

LEMMA NextOrdered == Ordered /\ [Next]_vars => Ordered'
<1> SUFFICES ASSUME Ordered, [Next]_vars PROVE Ordered'
    OBVIOUS
<1> USE DEF Ordered
<1>1. CASE UNCHANGED vars
    <2>1. UNCHANGED <<src, clock, disk, ahead, served, doubtful, pc, goal, todo, found, queue, worker,
                      failed, hashed, parsed, table>>
        BY <1>1 DEF vars, history, job
    <2>2. Scanned' = Scanned
        BY <2>1 DEF Scanned
    <2>3. TypeOK'
        BY <2>1 DEF TypeOK, DiskTypeOK, JobTypeOK
    <2> QED
        BY <2>1, <2>2, <2>3 DEF TablesInPlace, ScanInOrder
<1>2. ASSUME NEW f \in Files, Delete(f) \/ \E t \in Texts : Edit(f, t) PROVE Ordered'
    <2>1. UNCHANGED <<disk, ahead, pc, found, worker, hashed, parsed, table>>
        BY <1>2 DEF Delete, Edit, history, job
    <2>2. Scanned' = Scanned
        BY <2>1 DEF Scanned
    <2> QED
        BY <1>2, <2>1, <2>2, EditTyped DEF TablesInPlace, ScanInOrder
<1>3. CASE Serving
    <2>1. TypeOK'
        BY <1>3, ServingTyped
    <2>2. CASE Return
        BY <2>1, <2>2, ReturnOrdered
    <2>3. CASE AskQuery \/ AskRebuild \/ FallToRebuild
        BY <2>1, <2>3 DEF AskQuery, AskRebuild, FallToRebuild, Listed, List, TablesInPlace, ScanInOrder
    <2> QED
        BY <1>3, <2>2, <2>3
        DEF Serving, AnswerFromMemory, AnswerFromDisk, ScanFails, WriteFails, Publish, Crash
<1>4. CASE Reading
    <2>1. TypeOK'
        BY <1>4, ReadingTyped
    <2>2. CASE \E f \in Files : Stat(f)
        BY <2>1, <2>2 DEF Stat, TablesInPlace, ScanInOrder
    <2>3. CASE StartScan
        BY <2>1, <2>3 DEF StartScan, Listed, TablesInPlace, ScanInOrder
    <2>4. CASE ScanSucceeds
        BY <2>1, <2>4 DEF ScanSucceeds, Joined, Scanning, Complete, TablesInPlace, ScanInOrder
    <2>5. ASSUME NEW w \in Workers, Work(w) PROVE Ordered'
        <3>1. pc = "scan" /\ UNCHANGED <<pc, found, table>>
            BY <2>5 DEF Work, Take, Hash, Parse, Scanning
        <3>2. DOMAIN parsed' = DOMAIN hashed'
            BY <2>5 DEF Work, Take, Hash, Parse, Fail, With, ScanInOrder
        <3> QED
            BY <2>1, <3>1, <3>2 DEF TablesInPlace, ScanInOrder
    <2> QED
        BY <1>4, <2>2, <2>3, <2>4, <2>5 DEF Reading
<1>5. CASE RemoveOld \/ Rename
    <2>1. TypeOK' /\ table \in 1 .. 5
        BY <1>5, WritingTyped, TablesAre DEF TypeOK, JobTypeOK
    <2>2. UNCHANGED <<found, worker, hashed, parsed>> /\ pc \in {"write", "rename"}
        BY <1>5 DEF RemoveOld, Rename
    <2>3. Scanned' = Scanned /\ Scanned.files = hashed
        BY <2>2 DEF Scanned
    <2>4. CASE RemoveOld
        <3>1. UNCHANGED <<table, ahead>> /\ pc' = "rename"
            BY <2>4 DEF RemoveOld, history
        <3>2. TablesInPlace'
            BY <2>1, <2>2, <2>3, <2>4, <3>1, RemoveDoes, TablesAre DEF TablesInPlace, TableNames
        <3> QED
            BY <2>1, <2>2, <3>1, <3>2 DEF ScanInOrder
    <2>5. CASE Rename
        <3>1. TablesInPlace'
            <4>1. CASE table = 5
                BY <4>1, <2>5, RenameDoes DEF TablesInPlace
            <4>2. CASE table # 5
                BY <4>2, <2>1, <2>2, <2>3, <2>5, RenameDoes, TablesAre DEF TablesInPlace, TableNames
            <4> QED
                BY <4>1, <4>2
        <3>2. ScanInOrder'
            <4>1. CASE table = 5
                BY <4>1, <2>2, <2>3, <2>5, RenameDoes DEF TablesInPlace, ScanInOrder, Hashes
            <4>2. CASE table # 5
                BY <4>2, <2>2, <2>5, RenameDoes DEF ScanInOrder
            <4> QED
                BY <4>1, <4>2
        <3> QED
            BY <2>1, <3>1, <3>2
    <2> QED
        BY <1>5, <2>4, <2>5
<1> QED
    BY <1>1, <1>2, <1>3, <1>4, <1>5 DEF Next, Dispatch, Serving, Reading

LEMMA AlwaysOrdered == Spec => []Ordered
BY InitOrdered, NextOrdered, PTL DEF Spec

(* The types of the variables, for any files and threads. *)
THEOREM TypeCorrect == Spec => []TypeOK
<1>1. Ordered => TypeOK
    BY DEF Ordered
<1> QED
    BY <1>1, AlwaysOrdered, PTL

-----------------------------------------------------------------------------
(* What is served and what core.idx vouches for *)

CoreComplete ==
    disk.core # None => /\ DOMAIN disk.core.symbols = DOMAIN disk.core.files
                        /\ DOMAIN disk.core.deps = DOMAIN disk.core.files

\* Between two rebuilds core.idx, if there is one, has the hashes of what is
\* served.
CoreIsServed ==
    HasIndex /\ disk.core # None /\ pc # "publish" =>
        disk.core = [files |-> served.files, symbols |-> served.symbols, deps |-> served.deps]

Vouched == IndexIsComplete /\ CoreComplete /\ CoreIsServed

\* The steps that leave both alone.
LEMMA CoreKept ==
    ASSUME Vouched, UNCHANGED <<disk, served>>, pc = "publish" => pc' = "publish"
    PROVE  Vouched'
BY DEF Vouched, IndexIsComplete, CoreComplete, CoreIsServed, HasIndex

LEMMA ScannedComplete ==
    ASSUME TypeOK
    PROVE  DOMAIN Scanned.symbols = DOMAIN parsed /\ DOMAIN Scanned.deps = DOMAIN parsed
BY DEF Scanned

LEMMA InitVouched == Init => Vouched
BY DEF Init, Vouched, IndexIsComplete, CoreComplete, CoreIsServed, HasIndex, NoIndex, TableNames

LEMMA NextVouched == Ordered /\ Vouched /\ [Next]_vars => Vouched'
<1> SUFFICES ASSUME Ordered, Vouched, [Next]_vars PROVE Vouched'
    OBVIOUS
<1>1. CASE UNCHANGED vars
    BY <1>1, CoreKept DEF vars, job
<1>2. ASSUME NEW f \in Files, Delete(f) \/ \E t \in Texts : Edit(f, t) PROVE Vouched'
    BY <1>2, CoreKept DEF Delete, Edit, job
<1>3. CASE Reading
    <2>1. UNCHANGED <<disk, served>> /\ pc # "publish"
        BY <1>3 DEF Reading, Stat, StartScan, Listed, ScanSucceeds, Joined, Scanning, Work, Take, Hash, Parse
    <2> QED
        BY <2>1, CoreKept
<1>4. CASE AskQuery \/ AskRebuild \/ AnswerFromMemory \/ FallToRebuild \/ ScanFails \/ WriteFails
    <2>1. UNCHANGED <<disk, served>> /\ pc # "publish"
        BY <1>4 DEF AskQuery, AskRebuild, AnswerFromMemory, FallToRebuild, ScanFails, WriteFails,
                    Listed, Joined, Scanning
    <2> QED
        BY <2>1, CoreKept
<1>5. CASE AnswerFromDisk
    <2>1. disk' = disk /\ served' = OnDisk /\ disk.core # None /\ disk.core = Hashes
        BY <1>5 DEF AnswerFromDisk, Verified, Persisted
    <2>2. /\ DOMAIN OnDisk.at = DOMAIN disk.files
          /\ OnDisk.files = disk.files /\ OnDisk.symbols = disk.symbols /\ OnDisk.deps = disk.deps
        BY DEF OnDisk
    <2> QED
        BY <2>1, <2>2 DEF Vouched, IndexIsComplete, CoreComplete, CoreIsServed, Hashes
<1>6. CASE Publish
    <2>1. disk' = disk /\ served' = Scanned /\ pc = "publish"
        BY <1>6 DEF Publish
    <2>2. Scanned.at = found /\ Scanned.files = hashed
        BY DEF Scanned
    <2>3. /\ DOMAIN hashed = DOMAIN found /\ DOMAIN parsed = DOMAIN hashed
          /\ disk.core = [files |-> hashed, symbols |-> Scanned.symbols, deps |-> Scanned.deps]
        BY <2>1 DEF Ordered, ScanInOrder
    <2> QED
        BY <2>1, <2>2, <2>3, ScannedComplete
        DEF Ordered, Vouched, IndexIsComplete, CoreComplete, CoreIsServed
<1>7. CASE Crash
    BY <1>7 DEF Crash, Vouched, IndexIsComplete, CoreComplete, CoreIsServed, HasIndex, NoIndex
<1>8. CASE RemoveOld
    <2>1. served' = served /\ pc # "publish"
        BY <1>8 DEF RemoveOld
    <2>2. disk'.core = None \/ disk'.core = disk.core
        BY <1>8, RemoveDoes DEF Ordered, TableNames
    <2> QED
        BY <2>1, <2>2 DEF Vouched, IndexIsComplete, CoreComplete, CoreIsServed, HasIndex
<1>9. CASE Rename
    <2>1. served' = served /\ pc = "rename"
        BY <1>9 DEF Rename
    <2>2. CASE table = 5
        <3>1. disk'.core = [files |-> hashed, symbols |-> Scanned.symbols, deps |-> Scanned.deps]
            BY <1>9, <2>1, <2>2, RenameDoes DEF Ordered, TablesInPlace, Hashes
        <3>2. DOMAIN parsed = DOMAIN hashed /\ pc' = "publish"
            BY <1>9, <2>2, RenameDoes DEF Ordered, ScanInOrder
        <3> QED
            BY <2>1, <3>1, <3>2, ScannedComplete
            DEF Ordered, Vouched, IndexIsComplete, CoreComplete, CoreIsServed
    <2>3. CASE table # 5
        <3>1. Tables[table] # "core"
            BY <2>3, TablesAre DEF Ordered, TypeOK, JobTypeOK
        <3>2. disk'.core = disk.core
            BY <1>9, <3>1, RenameDoes DEF Ordered, TableNames
        <3> QED
            BY <2>1, <3>2 DEF Vouched, IndexIsComplete, CoreComplete, CoreIsServed, HasIndex
    <2> QED
        BY <2>2, <2>3
<1> QED
    BY <1>1, <1>2, <1>3, <1>4, <1>5, <1>6, <1>7, <1>8, <1>9 DEF Next, Dispatch, Reading

LEMMA AlwaysVouched == Spec => [](Ordered /\ Vouched)
<1>1. Init => Ordered /\ Vouched
    BY InitOrdered, InitVouched
<1>2. Ordered /\ Vouched /\ [Next]_vars => (Ordered /\ Vouched)'
    BY NextOrdered, NextVouched
<1> QED
    BY <1>1, <1>2, PTL DEF Spec

(* Whatever rebuilds have failed, been cut short or been undone by a crash, *)
(* tables that pass ai_verify between two requests are those the daemon     *)
(* serves: core.idx is removed or written last (rebuildIndex).              *)
THEOREM ApprovedIsServed == Spec => []VerifiedIsServed
<1>1. Vouched => VerifiedIsServed
    BY DEF Vouched, CoreIsServed, VerifiedIsServed, Verified, Persisted, Hashes
<1> QED
    BY <1>1, AlwaysVouched, PTL

(* Every served file has its hash, its symbols and its dependencies, from a *)
(* scan or from the disk, for any number of threads (runFullScan).          *)
THEOREM ServedIsComplete == Spec => []IndexIsComplete
<1>1. Vouched => IndexIsComplete
    BY DEF Vouched
<1> QED
    BY <1>1, AlwaysVouched, PTL

-----------------------------------------------------------------------------
(* Times of modification *)

MetaTimes == IF disk.meta = None THEN {} ELSE {disk.meta[i] : i \in DOMAIN disk.meta}
FoundTimes == {found[f] : f \in DOMAIN found}
ServedTimes == {served.at[f] : f \in DOMAIN served.at}

\* A source has a time other than the one that stands for none, and nothing is
\* noted from the future.
Past ==
    /\ \A f \in Files : src[f] # None => src[f].at \in 1 .. clock
    /\ \A m \in MetaTimes \cup FoundTimes \cup ServedTimes : m <= clock

\* If the file has that time, it has that text.
Tells(f, m, t) == src[f] # None /\ src[f].at = m => src[f].text = t

\* What a scan has read is right about every time that is noted so far.
ScanTells ==
    \A m \in MetaTimes \cup FoundTimes :
        /\ \A w \in Workers : worker[w].text # None => Tells(worker[w].file, m, worker[w].text)
        /\ \A f \in DOMAIN hashed : Tells(f, m, hashed[f]) /\ Tells(f, m, parsed[f])

\* The hashes of files.tbl are right about the times of files.meta, whichever
\* rebuilds the two are of ...
FilesTell ==
    \A m \in MetaTimes :
        disk.files # None => \A f \in DOMAIN disk.files : Tells(f, m, disk.files[f])

\* ... but the symbols that core.idx vouches for are so only as long as
\* files.meta is not ahead of it.
CoreTells ==
    ~ahead /\ disk.core # None =>
        \A m \in MetaTimes : \A f \in DOMAIN disk.core.files :
            src[f] # None /\ src[f].at = m =>
                /\ disk.core.symbols[f] = SymbolsOf[src[f].text]
                /\ disk.core.deps[f] = DepsOf[src[f].text] \cap DOMAIN disk.core.files

Timely == Past /\ ScanTells /\ FilesTell /\ CoreTells /\ FreshIsCurrent

LEMMA InitTimely == Init => Timely
<1> SUFFICES ASSUME Init PROVE Timely
    OBVIOUS
<1>1. /\ disk.meta = None /\ disk.files = None /\ disk.core = None
      /\ DOMAIN found = {} /\ DOMAIN served.at = {} /\ DOMAIN hashed = {}
      /\ \A w \in Workers : worker[w].text = None
    BY DEF Init, TableNames, Empty, NoIndex, Idle
<1>2. \A f \in Files : src[f] # None => src[f].at = 1
    BY IndexAssumption DEF Init
<1>3. clock = 1
    BY DEF Init
<1> QED
    BY <1>1, <1>2, <1>3
    DEF Timely, Past, ScanTells, FilesTell, CoreTells, FreshIsCurrent, MetaTimes, FoundTimes, ServedTimes

\* A file that is changed or deleted has none of the times that are noted.
LEMMA EditTimely ==
    ASSUME Ordered, Vouched, Timely, NEW f \in Files, Delete(f) \/ \E t \in Texts : Edit(f, t)
    PROVE  Timely'
<1>1. UNCHANGED <<disk, ahead, served, doubtful, found, worker, hashed, parsed>>
    BY DEF Delete, Edit, history, job
<1>2. UNCHANGED <<MetaTimes, FoundTimes, ServedTimes>>
    BY <1>1 DEF MetaTimes, FoundTimes, ServedTimes
<1>3. clock \in Nat /\ clock' = clock + 1
    BY DEF Ordered, TypeOK, Delete, Edit
<1>4. /\ \A g \in Files \ {f} : src'[g] = src[g]
      /\ src'[f] # None => src'[f].at = clock + 1
    BY <1>3 DEF Ordered, TypeOK, Delete, Edit
<1>5. \A m \in MetaTimes \cup FoundTimes \cup ServedTimes : m \in Nat /\ m <= clock
    BY DEF Timely, Past, MetaTimes, FoundTimes, ServedTimes, Ordered, TypeOK, DiskTypeOK, JobTypeOK,
           IsTimes, IsPartial
<1>6. \A g \in Files, m \in MetaTimes \cup FoundTimes \cup ServedTimes :
          src'[g] # None /\ src'[g].at = m => src'[g] = src[g]
    BY <1>3, <1>4, <1>5
<1>7. \A g \in Files, m \in MetaTimes \cup FoundTimes \cup ServedTimes :
          \A t : Tells(g, m, t) => Tells(g, m, t)'
    BY <1>6 DEF Tells
<1>8. Past'
    <2>1. \A g \in Files : src'[g] # None => src'[g].at \in 1 .. clock + 1
        BY <1>3, <1>4 DEF Timely, Past
    <2> QED
        BY <1>2, <1>3, <1>5, <2>1 DEF Past
<1>9. ScanTells'
    <2>1. \A w \in Workers : worker[w].text # None => worker[w].file \in Files
        BY DEF Ordered, TypeOK, JobTypeOK, Idle
    <2>2. \A g \in DOMAIN hashed : g \in Files
        BY DEF Ordered, TypeOK, JobTypeOK, IsTexts, IsPartial
    <2> QED
        BY <1>1, <1>2, <1>7, <2>1, <2>2 DEF Timely, ScanTells
<1>10. FilesTell'
    <2>1. disk.files # None => \A g \in DOMAIN disk.files : g \in Files
        BY DEF Ordered, TypeOK, DiskTypeOK, IsTexts, IsPartial
    <2> QED
        BY <1>1, <1>2, <1>7, <2>1 DEF Timely, FilesTell
<1>11. CoreTells'
    <2>1. disk.core # None => \A g \in DOMAIN disk.core.files : g \in Files
        BY DEF Ordered, TypeOK, DiskTypeOK, IsTables, IsTexts, IsPartial
    <2> QED
        BY <1>1, <1>2, <1>6, <2>1 DEF Timely, CoreTells
<1>12. FreshIsCurrent'
    <2>1. \A g \in DOMAIN served.at : g \in Files
        BY DEF Ordered, TypeOK, IsTimes, IsPartial
    <2> QED
        BY <1>1, <1>6, <2>1 DEF Timely, FreshIsCurrent, ServedTimes
<1> QED
    BY <1>8, <1>9, <1>10, <1>11, <1>12 DEF Timely

\* When there is nothing of a scan, what is listed may change.
LEMMA ListingTimely ==
    ASSUME Timely, UNCHANGED <<src, clock, disk, ahead>>,
           DOMAIN hashed' = {}, \A w \in Workers : worker'[w].text = None,
           \A m \in (FoundTimes \cup ServedTimes)' : m <= clock, FreshIsCurrent'
    PROVE  Timely'
<1>1. MetaTimes' = MetaTimes
    BY DEF MetaTimes
<1>2. Past'
    BY <1>1 DEF Timely, Past
<1>3. ScanTells'
    BY DEF ScanTells
<1>4. FilesTell' /\ CoreTells'
    BY <1>1 DEF Timely, FilesTell, CoreTells, Tells
<1> QED
    BY <1>2, <1>3, <1>4 DEF Timely

LEMMA ReadingTimely ==
    ASSUME Ordered, Timely, Reading
    PROVE  Timely'
<1>1. /\ UNCHANGED <<src, clock, disk, ahead, served, doubtful>>
      /\ UNCHANGED <<MetaTimes, ServedTimes>>
    <2>1. UNCHANGED <<src, clock, disk, ahead, served, doubtful>>
        BY DEF Reading, Stat, StartScan, ScanSucceeds, Work, Take, Hash, Parse, history
    <2> QED
        BY <2>1 DEF MetaTimes, ServedTimes
<1>2. FilesTell' /\ CoreTells' /\ FreshIsCurrent'
    BY <1>1 DEF Timely, FilesTell, CoreTells, FreshIsCurrent, Tells
<1>3. CASE \E f \in Files : Stat(f)
    <2>1. PICK f \in Files : Stat(f)
        BY <1>3
    <2>2. DOMAIN hashed' = {} /\ \A w \in Workers : worker'[w].text = None
        BY <2>1 DEF Ordered, ScanInOrder, Stat, Idle
    <2>3. \A m \in FoundTimes' : m \in FoundTimes \/ m <= clock
        <3>1. CASE src[f] = None
            BY <2>1, <3>1 DEF Stat, FoundTimes
        <3>2. CASE src[f] # None
            <4>1. found' = With(found, f, src[f].at) /\ src[f].at <= clock
                BY <2>1, <3>2 DEF Stat, Timely, Past, Ordered, TypeOK
            <4> QED
                BY <4>1 DEF FoundTimes, With
        <3> QED
            BY <3>1, <3>2
    <2> QED
        BY <1>1, <1>2, <2>2, <2>3, ListingTimely DEF Timely, Past
<1>4. CASE ~\E f \in Files : Stat(f)
    <2>1. found' = found
        BY <1>4 DEF Reading, StartScan, ScanSucceeds, Work, Take, Hash, Parse
    <2>2. FoundTimes' = FoundTimes
        BY <2>1 DEF FoundTimes
    <2>3. Past'
        BY <1>1, <2>2 DEF Timely, Past
    <2>4. ScanTells'
        <3>1. CASE StartScan \/ ScanSucceeds
            BY <1>1, <2>2, <3>1 DEF StartScan, ScanSucceeds, Timely, ScanTells, Tells
        <3>2. ASSUME NEW w \in Workers, Take(w) PROVE ScanTells'
            <4>1. /\ UNCHANGED <<src, hashed, parsed>>
                  /\ worker'[w].text = None /\ \A v \in Workers \ {w} : worker'[v] = worker[v]
                BY <3>2 DEF Take, Ordered, TypeOK, JobTypeOK
            <4> QED
                BY <1>1, <2>2, <4>1 DEF Timely, ScanTells, Tells
        <3>3. ASSUME NEW w \in Workers, Fail(w) PROVE ScanTells'
            <4>1. /\ UNCHANGED <<src, hashed, parsed>>
                  /\ worker'[w].text = None /\ \A v \in Workers \ {w} : worker'[v] = worker[v]
                BY <1>1, <3>3 DEF Fail, Idle, Ordered, TypeOK, JobTypeOK
            <4> QED
                BY <1>1, <2>2, <4>1 DEF Timely, ScanTells, Tells
        <3>4. ASSUME NEW w \in Workers, Hash(w), ~Fail(w) PROVE ScanTells'
            <4>1. UNCHANGED <<src, hashed, parsed>> /\ src[worker[w].file] # None
                BY <1>1, <3>4 DEF Hash
            <4>2. worker' = [worker EXCEPT ![w].text = src[worker[w].file].text]
                BY <3>4 DEF Hash
            <4>3. \A v \in Workers \ {w} : worker'[v] = worker[v]
                BY <4>2 DEF Ordered, TypeOK, JobTypeOK
            <4>4. worker'[w].file = worker[w].file /\ worker'[w].text = src[worker[w].file].text
                <5>1. worker'[w] = [worker[w] EXCEPT !.text = src[worker[w].file].text]
                    BY <4>2 DEF Ordered, TypeOK, JobTypeOK
                <5>2. worker[w] \in [file : Files, text : Texts \cup {None}]
                    BY <3>4, IndexAssumption DEF Hash, Idle, Ordered, TypeOK, JobTypeOK
                <5> QED
                    BY <5>1, <5>2
            <4> QED
                BY <1>1, <2>2, <4>1, <4>3, <4>4 DEF Timely, ScanTells, Tells
        <3>5. ASSUME NEW w \in Workers, Parse(w), ~Fail(w) PROVE ScanTells'
            <4> DEFINE f == worker[w].file
            <4>1. /\ hashed' = With(hashed, f, worker[w].text)
                  /\ parsed' = With(parsed, f, src[f].text)
                  /\ src' = src /\ worker[w].text # None
                BY <1>1, <3>5 DEF Parse
            <4>2. worker'[w].text = None /\ \A v \in Workers \ {w} : worker'[v] = worker[v]
                BY <3>5 DEF Parse, Fail, Idle, Ordered, TypeOK, JobTypeOK
            <4>3. DOMAIN parsed = DOMAIN hashed
                BY DEF Ordered, ScanInOrder
            <4>4. DOMAIN hashed' = DOMAIN hashed \cup {f}
                BY <4>1 DEF With
            <4>5. /\ hashed'[f] = worker[w].text /\ parsed'[f] = src[f].text
                  /\ \A g \in DOMAIN hashed \ {f} : hashed'[g] = hashed[g] /\ parsed'[g] = parsed[g]
                BY <4>1, <4>3 DEF With
            <4>6. \A m \in MetaTimes \cup FoundTimes :
                      Tells(f, m, hashed'[f]) /\ Tells(f, m, parsed'[f])
                BY <4>1, <4>5 DEF Timely, ScanTells, Tells
            <4> HIDE DEF f
            <4> QED
                BY <1>1, <2>2, <4>1, <4>2, <4>4, <4>5, <4>6 DEF Timely, ScanTells, Tells
        <3> QED
            BY <1>4, <3>1, <3>2, <3>3, <3>4, <3>5 DEF Reading, Work
    <2> QED
        BY <1>2, <2>3, <2>4 DEF Timely
<1> QED
    BY <1>3, <1>4

\* Asking, failing, crashing and answering from memory: the index is the old
\* one or none.
LEMMA ServingTimely ==
    ASSUME Ordered, Timely,
           AskQuery \/ AskRebuild \/ AnswerFromMemory \/ FallToRebuild \/ ScanFails \/ WriteFails \/ Crash
    PROVE  Timely'
<1>1. UNCHANGED <<src, clock, disk, ahead>>
    BY DEF AskQuery, AskRebuild, AnswerFromMemory, FallToRebuild, ScanFails, WriteFails, Crash, history
<1>2. UNCHANGED <<served, doubtful>> \/ (DOMAIN served'.at = {} /\ Crash)
    BY DEF AskQuery, AskRebuild, AnswerFromMemory, FallToRebuild, ScanFails, WriteFails, Crash,
           history, NoIndex, Empty
<1>3. Return \/ (pc \in {"idle", "list"} /\ \E g \in {"check", "scan"} : List(g))
    BY DEF AskQuery, AskRebuild, AnswerFromMemory, FallToRebuild, ScanFails, WriteFails, Crash, Listed
<1>4. DOMAIN found' = {} /\ DOMAIN hashed' = {} /\ \A w \in Workers : worker'[w].text = None
    BY <1>3 DEF Return, List, Empty, Idle, Ordered, ScanInOrder
<1>5. \A m \in (FoundTimes \cup ServedTimes)' : m <= clock
    BY <1>2, <1>4 DEF FoundTimes, ServedTimes, Timely, Past
<1>6. FreshIsCurrent'
    BY <1>1, <1>2 DEF Timely, FreshIsCurrent
<1> QED
    BY <1>1, <1>4, <1>5, <1>6, ListingTimely

LEMMA AnswerFromDiskTimely ==
    ASSUME Ordered, Vouched, Timely, AnswerFromDisk
    PROVE  Timely'
<1>1. /\ UNCHANGED <<src, clock, disk, ahead>>
      /\ served' = OnDisk /\ doubtful' = ahead /\ Return
      /\ disk.files # None /\ disk.core # None /\ disk.core = Hashes
    BY DEF AnswerFromDisk, Verified, Persisted
<1>2. DOMAIN found' = {} /\ DOMAIN hashed' = {} /\ \A w \in Workers : worker'[w].text = None
    BY <1>1 DEF Return, Empty, Idle
<1>3. /\ DOMAIN OnDisk.at = DOMAIN disk.files
      /\ \A f \in DOMAIN disk.files : OnDisk.at[f] = TimeOf(disk.meta, DOMAIN disk.files, f)
      /\ OnDisk.files = disk.files /\ OnDisk.symbols = disk.symbols /\ OnDisk.deps = disk.deps
    BY DEF OnDisk
<1>4. \A f \in DOMAIN disk.files : OnDisk.at[f] = 0 \/ OnDisk.at[f] \in MetaTimes
    BY <1>3, TimeTyped DEF MetaTimes, Ordered, TypeOK, DiskTypeOK
<1>5. clock \in Nat
    BY DEF Ordered, TypeOK
<1>6. \A m \in (FoundTimes \cup ServedTimes)' : m <= clock
    BY <1>1, <1>2, <1>3, <1>4, <1>5 DEF FoundTimes, ServedTimes, Timely, Past
<1>7. FreshIsCurrent'
    <2> SUFFICES ASSUME NEW f \in DOMAIN disk.files, src[f] # None, src[f].at = OnDisk.at[f]
                 PROVE  /\ disk.files[f] = src[f].text
                        /\ ~ahead => /\ disk.symbols[f] = SymbolsOf[src[f].text]
                                     /\ disk.deps[f] = DepsOf[src[f].text] \cap DOMAIN disk.files
        BY <1>1, <1>3 DEF FreshIsCurrent
    <2>1. f \in Files
        BY <1>1 DEF Ordered, TypeOK, DiskTypeOK, IsTexts, IsPartial
    <2>2. src[f].at # 0
        BY <1>5, <2>1 DEF Timely, Past
    <2>3. src[f].at \in MetaTimes
        BY <1>4, <2>2
    <2>4. disk.files[f] = src[f].text
        BY <1>1, <2>3 DEF Timely, FilesTell, Tells
    <2>5. disk.core.files = disk.files /\ disk.core.symbols = disk.symbols /\ disk.core.deps = disk.deps
        BY <1>1 DEF Hashes
    <2> QED
        BY <1>1, <2>3, <2>4, <2>5 DEF Timely, CoreTells
<1> QED
    BY <1>1, <1>2, <1>6, <1>7, ListingTimely

LEMMA PublishTimely ==
    ASSUME Ordered, Timely, Publish
    PROVE  Timely'
<1>1. UNCHANGED <<src, clock, disk, ahead>> /\ served' = Scanned /\ Return /\ pc = "publish"
    BY DEF Publish
<1>2. DOMAIN found' = {} /\ DOMAIN hashed' = {} /\ \A w \in Workers : worker'[w].text = None
    BY <1>1 DEF Return, Empty, Idle
<1>3. DOMAIN hashed = DOMAIN found /\ DOMAIN parsed = DOMAIN found
    BY <1>1 DEF Ordered, ScanInOrder
<1>4. /\ Scanned.at = found /\ Scanned.files = hashed
      /\ \A f \in DOMAIN found : /\ Scanned.symbols[f] = SymbolsOf[parsed[f]]
                                 /\ Scanned.deps[f] = DepsOf[parsed[f]] \cap DOMAIN found
    BY <1>3 DEF Scanned
<1>5. \A m \in (FoundTimes \cup ServedTimes)' : m <= clock
    BY <1>1, <1>2, <1>4 DEF FoundTimes, ServedTimes, Timely, Past
<1>6. FreshIsCurrent'
    <2>1. \A f \in DOMAIN found : src[f] # None /\ src[f].at = found[f] =>
              src[f].text = hashed[f] /\ src[f].text = parsed[f]
        BY <1>3 DEF Timely, ScanTells, Tells, FoundTimes
    <2> QED
        BY <1>1, <1>4, <2>1 DEF FreshIsCurrent
<1> QED
    BY <1>1, <1>2, <1>5, <1>6, ListingTimely

\* A step of the writer, given what becomes of the three tables.
LEMMA WriteKeeps ==
    ASSUME Timely, UNCHANGED <<src, clock, served, doubtful, found, worker, hashed, parsed>>,
           MetaTimes' \subseteq MetaTimes \cup FoundTimes, FilesTell', CoreTells'
    PROVE  Timely'
<1>1. FoundTimes' = FoundTimes /\ ServedTimes' = ServedTimes
    BY DEF FoundTimes, ServedTimes
<1>2. Past'
    BY <1>1 DEF Timely, Past
<1>3. ScanTells'
    BY <1>1 DEF Timely, ScanTells, Tells
<1>4. FreshIsCurrent'
    BY DEF Timely, FreshIsCurrent
<1> QED
    BY <1>2, <1>3, <1>4 DEF Timely

LEMMA RemoveTimely ==
    ASSUME Ordered, Timely, RemoveOld
    PROVE  Timely'
<1>1. UNCHANGED <<src, clock, ahead, served, doubtful, found, worker, hashed, parsed>>
    BY DEF RemoveOld, history
<1>2. /\ disk'.files = None \/ disk'.files = disk.files
      /\ disk'.meta = None \/ disk'.meta = disk.meta
      /\ disk'.core = None \/ disk'.core = disk.core
    <2>1. \A t \in TableNames : disk'[t] = None \/ disk'[t] = disk[t]
        BY RemoveDoes DEF Ordered
    <2> QED
        BY <2>1 DEF TableNames
<1>3. MetaTimes' \subseteq MetaTimes
    BY <1>2 DEF MetaTimes
<1>4. FilesTell' /\ CoreTells'
    BY <1>1, <1>2, <1>3 DEF Timely, FilesTell, CoreTells, Tells
<1> QED
    BY <1>1, <1>3, <1>4, WriteKeeps

LEMMA RenameTimely ==
    ASSUME Ordered, Timely, Rename
    PROVE  Timely'
<1>1. UNCHANGED <<src, clock, served, doubtful, found, worker, hashed, parsed>> /\ pc = "rename"
    BY DEF Rename
<1>2. table \in 1 .. 5
    BY TablesAre DEF Ordered, TypeOK, JobTypeOK
<1>3. CASE table = 1
    <2>1. disk'.files = hashed /\ disk'.meta = disk.meta /\ disk'.core = disk.core /\ ahead' = ahead
        BY <1>3, RenameDoes, TablesAre DEF Ordered, TableNames
    <2>2. MetaTimes' = MetaTimes
        BY <2>1 DEF MetaTimes
    <2>3. FilesTell' /\ CoreTells'
        BY <1>1, <2>1, <2>2 DEF Timely, ScanTells, FilesTell, CoreTells, Tells
    <2> QED
        BY <1>1, <2>2, <2>3, WriteKeeps
<1>4. CASE table = 2
    <2>1. disk'.files = hashed /\ disk'.meta = MetaOf(found) /\ ahead'
        BY <1>1, <1>4, RenameDoes, TablesAre DEF Ordered, TableNames, TablesInPlace
    <2>2. MetaTimes' \subseteq FoundTimes
        BY <2>1, MetaTyped DEF MetaTimes, FoundTimes, Ordered, TypeOK, JobTypeOK
    <2>3. FilesTell' /\ CoreTells'
        BY <1>1, <2>1, <2>2 DEF Timely, ScanTells, FilesTell, CoreTells, Tells
    <2> QED
        BY <1>1, <2>2, <2>3, WriteKeeps
<1>5. CASE table \in {3, 4}
    <2>1. disk'.files = disk.files /\ disk'.meta = disk.meta /\ disk'.core = disk.core /\ ahead' = ahead
        BY <1>5, RenameDoes, TablesAre DEF Ordered, TableNames
    <2>2. MetaTimes' = MetaTimes
        BY <2>1 DEF MetaTimes
    <2>3. FilesTell' /\ CoreTells'
        BY <1>1, <2>1, <2>2 DEF Timely, FilesTell, CoreTells, Tells
    <2> QED
        BY <1>1, <2>2, <2>3, WriteKeeps
<1>6. CASE table = 5
    <2>1. disk'.files = disk.files /\ disk'.meta = disk.meta /\ disk'.core = Hashes
        BY <1>6, RenameDoes, TablesAre DEF Ordered, TableNames
    <2>2. MetaTimes' = MetaTimes
        BY <2>1 DEF MetaTimes
    <2>3. FilesTell'
        BY <1>1, <2>1, <2>2 DEF Timely, FilesTell, Tells
    <2>4. disk'.core = [files |-> hashed, symbols |-> Scanned.symbols, deps |-> Scanned.deps]
        BY <1>1, <1>6, <2>1 DEF Hashes, Ordered, TablesInPlace
    <2>5. DOMAIN hashed = DOMAIN found /\ DOMAIN parsed = DOMAIN found
        BY <1>1 DEF Ordered, ScanInOrder
    <2>6. \A f \in DOMAIN found : /\ Scanned.symbols[f] = SymbolsOf[parsed[f]]
                                  /\ Scanned.deps[f] = DepsOf[parsed[f]] \cap DOMAIN found
        BY <2>5 DEF Scanned
    <2>7. CoreTells'
        BY <1>1, <2>2, <2>4, <2>5, <2>6 DEF Timely, ScanTells, CoreTells, Tells
    <2> QED
        BY <1>1, <2>2, <2>3, <2>7, WriteKeeps
<1> QED
    BY <1>2, <1>3, <1>4, <1>5, <1>6

LEMMA NextTimely == Ordered /\ Vouched /\ Timely /\ [Next]_vars => Timely'
<1> SUFFICES ASSUME Ordered, Vouched, Timely, [Next]_vars PROVE Timely'
    OBVIOUS
<1>1. CASE UNCHANGED vars
    <2>1. UNCHANGED <<src, clock, disk, ahead, served, doubtful, found, worker, hashed, parsed>>
        BY <1>1 DEF vars, history, job
    <2>2. MetaTimes' = MetaTimes
        BY <2>1 DEF MetaTimes
    <2>3. FilesTell' /\ CoreTells'
        BY <2>1, <2>2 DEF Timely, FilesTell, CoreTells, Tells
    <2> QED
        BY <2>1, <2>2, <2>3, WriteKeeps
<1> QED
    BY <1>1, EditTimely, ReadingTimely, ServingTimely, AnswerFromDiskTimely, PublishTimely,
       RemoveTimely, RenameTimely
    DEF Next, Dispatch, Reading

(* What is served of a file that still has its recorded time is its present *)
(* content, however edits fell between the listing, the hash and the parse, *)
(* and whichever rebuild the tables on disk are of: a time is noted before  *)
(* the file is read (ensureIndexAvailable, isIndexStale). Symbols loaded    *)
(* while files.meta was ahead of core.idx are excepted.                     *)
THEOREM TimesCanBeTrusted == Spec => []FreshIsCurrent
<1>1. Init => Ordered /\ Vouched /\ Timely
    BY InitOrdered, InitVouched, InitTimely
<1>2. Ordered /\ Vouched /\ Timely /\ [Next]_vars => (Ordered /\ Vouched /\ Timely)'
    BY NextOrdered, NextVouched, NextTimely
<1>3. Timely => FreshIsCurrent
    BY DEF Timely
<1> QED
    BY <1>1, <1>2, <1>3, PTL DEF Spec
=============================================================================
