-------------------------- MODULE DatabaseOpenProofs --------------------------
(***************************************************************************)
(* Proofs about DatabaseOpen: whatever processes of whatever builds open   *)
(* the database side by side, fail and die, every file gets its migrations *)
(* each once and in order, a process that is ready finds all of its own,   *)
(* and a migrated database is not removed.  Removals may fail or not.      *)
(***************************************************************************)
EXTENDS DatabaseOpen, TLAPS

Connected == {"table", "check", "apply", "ready"}

\* Where p is in its loop over the migrations, those before are recorded in
\* the file it has open.
LoopKnows(p) ==
    /\ pc[p] \in {"check", "apply", "ready"} =>
          1 .. (next[p] - 1) \subseteq content[file[p]].recorded
    /\ pc[p] \notin {"check", "apply", "ready"} => next[p] = 1
    /\ pc[p] = "apply" => next[p] <= Known[p]
    /\ pc[p] = "ready" => next[p] > Known[p]

LoopsKnow == \A p \in Processes : LoopKnows(p)

IInv == TypeOK /\ LoopsKnow /\ MigratedOnceInOrder

-----------------------------------------------------------------------------
(* Files *)

LEMMA EmptyIsFine ==
    /\ EmptyFile \in Content
    /\ EmptyFile.schema = UpTo(Len(EmptyFile.schema))
    /\ EmptyFile.recorded = 1 .. Len(EmptyFile.schema)
BY DEF EmptyFile, Content, UpTo

LEMMA LegacyIsFine ==
    /\ LegacyFile \in Content
    /\ LegacyFile.schema = UpTo(Len(LegacyFile.schema))
    /\ LegacyFile.recorded = 1 .. Len(LegacyFile.schema)
BY DEF LegacyFile, Content, UpTo

LEMMA MigratedIsFine ==
    ASSUME NEW n \in 0 .. Newest
    PROVE  /\ MigratedFile(n) \in Content
           /\ MigratedFile(n).schema = UpTo(Len(MigratedFile(n).schema))
           /\ MigratedFile(n).recorded = 1 .. Len(MigratedFile(n).schema)
<1>1. Newest \in Nat /\ 1 .. n \subseteq 1 .. Newest
  BY KnownAssumption
<1>2. UpTo(n) \in Seq(1 .. Newest) /\ Len(UpTo(n)) = n
  BY <1>1 DEF UpTo
<1>. QED
  BY <1>1, <1>2 DEF MigratedFile, Content

\* Opening a path leaves what others have open alone.
LEMMA LinkedKeeps ==
    ASSUME TypeOK, NEW f \in Files, Linked(f)
    PROVE  /\ link' = f
           /\ content' \in [Files -> Content]
           /\ \A g \in Files : content'[g] \in {content[g], EmptyFile}
           /\ link # None => content' = content /\ link' = link
           /\ \A p \in Processes : file[p] # None => content'[file[p]] = content[file[p]]
BY EmptyIsFine DEF TypeOK, Linked, Unused

-----------------------------------------------------------------------------
(* The inductive invariant, step by step *)

LEMMA InitInv == Init => IInv
<1>. SUFFICES ASSUME Init PROVE IInv
  OBVIOUS
<1>0. Newest \in Nat
  BY KnownAssumption
<1>1. \A f \in Files : /\ content[f] \in Content
                       /\ content[f].schema = UpTo(Len(content[f].schema))
                       /\ content[f].recorded = 1 .. Len(content[f].schema)
  BY EmptyIsFine, LegacyIsFine, MigratedIsFine DEF Init
<1>2. MigratedOnceInOrder
  BY <1>1 DEF MigratedOnceInOrder
<1>3. content \in [Files -> Content]
  BY <1>1 DEF Init
<1>4. TypeOK
  BY <1>0, <1>3 DEF Init, TypeOK
<1>5. LoopsKnow
  BY DEF Init, LoopsKnow, LoopKnows
<1>. QED
  BY <1>2, <1>4, <1>5 DEF IInv

\* A step that leaves the migrations of every open file and of every file
\* alone, but for files that become empty.
LEMMA FilesKept ==
    ASSUME MigratedOnceInOrder,
           \A g \in Files : \/ content'[g] = EmptyFile
                            \/ /\ content'[g].schema = content[g].schema
                               /\ content'[g].recorded = content[g].recorded
    PROVE  MigratedOnceInOrder'
BY EmptyIsFine DEF MigratedOnceInOrder

\* The process that ends or begins knows nothing of migrations; the others
\* know what they knew.
LEMMA OthersKnow ==
    ASSUME TypeOK, LoopsKnow, NEW p \in Processes,
           pc' = [pc EXCEPT ![p] = pc'[p]],
           next' = [next EXCEPT ![p] = next'[p]],
           file' = [file EXCEPT ![p] = file'[p]],
           \A q \in Processes : file[q] # None =>
               content[file[q]].recorded \subseteq content'[file[q]].recorded,
           LoopKnows(p)'
    PROVE  LoopsKnow'
<1>. SUFFICES ASSUME NEW q \in Processes, q # p PROVE LoopKnows(q)'
  BY DEF LoopsKnow
<1>1. pc'[q] = pc[q] /\ next'[q] = next[q] /\ file'[q] = file[q]
  BY DEF TypeOK
<1>2. pc[q] \in Connected => file[q] # None
  BY DEF TypeOK, Connected
<1>. QED
  BY <1>1, <1>2 DEF LoopsKnow, LoopKnows, Connected

LEMMA EndsInv ==
    ASSUME IInv, NEW p \in Processes, Ends(p), UNCHANGED <<link, content>>,
           alone' \in Processes \cup {None}
    PROVE  IInv'
<1>1. 1 \in 1 .. Newest + 1
  BY KnownAssumption
<1>2. TypeOK'
  BY <1>1 DEF IInv, TypeOK, Ends, Goes
<1>3. LoopKnows(p)'
  BY DEF IInv, TypeOK, Ends, Goes, LoopKnows
<1>4. LoopsKnow'
  BY <1>3, OthersKnow DEF IInv, TypeOK, Ends, Goes
<1>. QED
  BY <1>2, <1>4, FilesKept DEF IInv

LEMMA LookInv ==
    ASSUME IInv, NEW p \in Processes, Begin(p) \/ Look(p) \/ Remove(p) PROVE IInv'
<1>1. /\ content' \in [Files -> Content]
      /\ link' \in Files \cup {None}
      /\ \A g \in Files : content'[g] \in {content[g], EmptyFile}
      /\ \A q \in Processes : file[q] # None => content'[file[q]] = content[file[q]]
  <2>1. CASE Begin(p) \/ Remove(p)
    BY <2>1 DEF IInv, TypeOK, Begin, Remove
  <2>2. CASE Look(p)
    BY <2>2, LinkedKeeps DEF IInv, Look
  <2>. QED
    BY <2>1, <2>2
<1>2. /\ pc' = [pc EXCEPT ![p] = pc'[p]]
      /\ pc[p] \in {"off", "look", "remove"}
      /\ pc'[p] \in {"look", "remove", "open"}
      /\ UNCHANGED <<file, next, alone>>
  BY DEF IInv, TypeOK, Begin, Look, Remove, Goes, Steps
<1>3. TypeOK'
  BY <1>1, <1>2 DEF IInv, TypeOK
<1>4. LoopKnows(p)'
  BY <1>2 DEF IInv, TypeOK, LoopsKnow, LoopKnows
<1>5. LoopsKnow'
  BY <1>1, <1>2, <1>4, OthersKnow DEF IInv, TypeOK
<1>. QED
  BY <1>1, <1>3, <1>5, FilesKept DEF IInv

LEMMA ConnectInv == ASSUME IInv, NEW p \in Processes, Connect(p) PROVE IInv'
<1>1. PICK f \in Files : Linked(f) /\ file' = [file EXCEPT ![p] = f]
  BY DEF Connect
<1>2. /\ content' \in [Files -> Content]
      /\ link' \in Files \cup {None}
      /\ \A g \in Files : content'[g] \in {content[g], EmptyFile}
      /\ \A q \in Processes : file[q] # None => content'[file[q]] = content[file[q]]
  BY <1>1, LinkedKeeps DEF IInv
<1>3. pc' = [pc EXCEPT ![p] = "table"] /\ UNCHANGED <<next, alone>>
  BY DEF Connect, Goes, Steps
<1>4. TypeOK'
  BY <1>1, <1>2, <1>3, NamesAssumption DEF IInv, TypeOK
<1>5. LoopKnows(p)'
  BY <1>3 DEF IInv, TypeOK, LoopsKnow, LoopKnows, Connect
<1>6. LoopsKnow'
  BY <1>1, <1>2, <1>3, <1>5, OthersKnow DEF IInv, TypeOK
<1>. QED
  BY <1>2, <1>4, <1>6, FilesKept DEF IInv

LEMMA CreateTableInv == ASSUME IInv, NEW p \in Processes, CreateTable(p) PROVE IInv'
<1>1. file[p] \in Files /\ file[p] # None
  BY DEF IInv, TypeOK, CreateTable
<1>2. content' \in [Files -> Content]
  BY <1>1 DEF IInv, TypeOK, CreateTable, Content
<1>3. \A g \in Files : /\ content'[g].schema = content[g].schema
                       /\ content'[g].recorded = content[g].recorded
  BY <1>1 DEF IInv, TypeOK, CreateTable, Content
<1>4. pc' = [pc EXCEPT ![p] = "check"] /\ UNCHANGED <<link, file, next, alone>>
  BY DEF CreateTable, Goes, Steps
<1>5. TypeOK'
  BY <1>2, <1>4, <1>1 DEF IInv, TypeOK, CreateTable
<1>6. LoopKnows(p)'
  BY <1>4 DEF IInv, TypeOK, LoopsKnow, LoopKnows, CreateTable
<1>7. LoopsKnow'
  BY <1>3, <1>4, <1>6, OthersKnow DEF IInv, TypeOK
<1>. QED
  BY <1>3, <1>5, <1>7, FilesKept DEF IInv

LEMMA CheckInv == ASSUME IInv, NEW p \in Processes, Check(p) PROVE IInv'
<1>1. /\ pc[p] = "check"
      /\ UNCHANGED <<link, content, file, alone>>
  BY DEF Check, Steps
<1>2. /\ Known[p] \in 0 .. Newest
      /\ Newest \in Nat
      /\ next[p] \in 1 .. Newest + 1
      /\ 1 .. (next[p] - 1) \subseteq content[file[p]].recorded
  BY <1>1, KnownAssumption DEF IInv, TypeOK, LoopsKnow, LoopKnows
<1>3. MigratedOnceInOrder'
  BY <1>1, FilesKept DEF IInv
<1>4. CASE next[p] > Known[p] /\ Goes(p, "ready") /\ UNCHANGED next
  <2>1. TypeOK'
    BY <1>1, <1>4 DEF IInv, TypeOK, Goes
  <2>2. LoopKnows(p)'
    BY <1>1, <1>2, <1>4 DEF IInv, TypeOK, LoopKnows, Goes
  <2>. QED
    BY <1>1, <1>3, <1>4, <2>1, <2>2, OthersKnow DEF IInv, TypeOK, Goes
<1>5. CASE /\ next[p] <= Known[p]
           /\ IsMigrationApplied(p)
           /\ next' = [next EXCEPT ![p] = @ + 1]
           /\ UNCHANGED pc
  <2>1. next[p] + 1 \in 1 .. Newest + 1
    BY <1>2, <1>5
  <2>2. TypeOK'
    BY <1>1, <1>5, <2>1 DEF IInv, TypeOK
  <2>3. 1 .. next[p] \subseteq content[file[p]].recorded
    BY <1>2, <1>5 DEF IsMigrationApplied
  <2>4. LoopKnows(p)'
    BY <1>1, <1>2, <1>5, <2>3 DEF IInv, TypeOK, LoopKnows
  <2>. QED
    BY <1>1, <1>3, <1>5, <2>2, <2>4, OthersKnow DEF IInv, TypeOK
<1>6. CASE next[p] <= Known[p] /\ Goes(p, "apply") /\ UNCHANGED next
  <2>1. TypeOK'
    BY <1>1, <1>6 DEF IInv, TypeOK, Goes
  <2>2. LoopKnows(p)'
    BY <1>1, <1>2, <1>6 DEF IInv, TypeOK, LoopKnows, Goes
  <2>. QED
    BY <1>1, <1>3, <1>6, <2>1, <2>2, OthersKnow DEF IInv, TypeOK, Goes
<1>. QED
  BY <1>4, <1>5, <1>6 DEF Check

\* What Apply does to a file that lacks exactly the migrations from n on.
LEMMA NextMigration ==
    ASSUME NEW c \in Content, NEW n \in 1 .. Newest,
           c.schema = UpTo(Len(c.schema)), c.recorded = 1 .. Len(c.schema),
           1 .. (n - 1) \subseteq c.recorded, n \notin c.recorded
    PROVE  /\ Append(c.schema, n) \in Seq(1 .. Newest)
           /\ Append(c.schema, n) = UpTo(Len(Append(c.schema, n)))
           /\ c.recorded \cup {n} = 1 .. Len(Append(c.schema, n))
<1>. DEFINE k == Len(c.schema)
<1>1. Newest \in Nat /\ n \in Nat /\ c.schema \in Seq(1 .. Newest) /\ k \in Nat
  BY KnownAssumption DEF Content
<1>2. n = k + 1
  <2>1. n > k
    BY <1>1
  <2>2. n - 1 <= k
    <3>1. CASE n = 1
      BY <1>1, <3>1
    <3>2. CASE n # 1
      BY <1>1, <3>2
    <3>. QED
      BY <3>1, <3>2
  <2>. QED
    BY <1>1, <2>1, <2>2
<1>3. Append(c.schema, n) \in Seq(1 .. Newest) /\ Len(Append(c.schema, n)) = n
  BY <1>1, <1>2
<1>4. \A i \in 1 .. n : Append(c.schema, n)[i] = i
  <2>1. \A i \in 1 .. k : c.schema[i] = i
    BY DEF UpTo
  <2>. QED
    BY <1>1, <1>2, <2>1
<1>5. Append(c.schema, n) = [i \in 1 .. n |-> i]
  BY <1>1, <1>2, <1>3, <1>4
<1>. QED
  BY <1>1, <1>2, <1>3, <1>5 DEF UpTo

LEMMA ApplyInv == ASSUME IInv, NEW p \in Processes, Apply(p) PROVE IInv'
<1>. DEFINE f == file[p]
            n == next[p]
<1>1. /\ pc[p] = "apply"
      /\ UNCHANGED <<link, alone>>
  BY DEF Apply, Steps
<1>2. /\ f \in Files
      /\ n \in 1 .. Newest
      /\ n + 1 \in 1 .. Newest + 1
      /\ 1 .. (n - 1) \subseteq content[f].recorded
      /\ content[f] \in Content
  BY <1>1, KnownAssumption DEF IInv, TypeOK, LoopsKnow, LoopKnows
<1>3. CASE Ends(p) /\ UNCHANGED content
  BY <1>1, <1>3, EndsInv DEF IInv, TypeOK
<1>4. CASE /\ n \notin content[f].recorded
           /\ content' = [content EXCEPT ![f].schema = Append(@, n),
                                         ![f].recorded = @ \cup {n}]
           /\ Goes(p, "check")
           /\ next' = [next EXCEPT ![p] = @ + 1]
           /\ UNCHANGED file
  <2>1. /\ Append(content[f].schema, n) \in Seq(1 .. Newest)
        /\ Append(content[f].schema, n) = UpTo(Len(Append(content[f].schema, n)))
        /\ content[f].recorded \cup {n} = 1 .. Len(Append(content[f].schema, n))
    BY <1>2, <1>4, NextMigration DEF IInv, MigratedOnceInOrder
  <2>2. /\ content'[f].schema = Append(content[f].schema, n)
        /\ content'[f].recorded = content[f].recorded \cup {n}
        /\ content'[f] \in Content
    BY <1>2, <1>4, <2>1 DEF IInv, TypeOK, Content
  <2>3. \A g \in Files \ {f} : content'[g] = content[g]
    BY <1>2, <1>4 DEF IInv, TypeOK
  <2>4. content' \in [Files -> Content]
    BY <1>4, <2>2, <2>3 DEF IInv, TypeOK
  <2>5. MigratedOnceInOrder'
    BY <2>1, <2>2, <2>3 DEF IInv, MigratedOnceInOrder
  <2>6. TypeOK'
    BY <1>1, <1>2, <1>4, <2>4 DEF IInv, TypeOK, Goes
  <2>7. 1 .. n \subseteq content'[f].recorded
    BY <1>2, <2>2
  <2>8. LoopKnows(p)'
    BY <1>2, <1>4, <2>7 DEF IInv, TypeOK, LoopKnows, Goes
  <2>9. \A g \in Files : content[g].recorded \subseteq content'[g].recorded
    BY <2>2, <2>3
  <2>10. LoopsKnow'
    BY <1>4, <2>8, <2>9, OthersKnow DEF IInv, TypeOK, Goes
  <2>. QED
    BY <2>5, <2>6, <2>10 DEF IInv
<1>. QED
  BY <1>3, <1>4 DEF Apply

LEMMA AloneInv == ASSUME IInv, NEW p \in Processes, IsAlone(p) PROVE IInv'
<1>1. 1 \in 1 .. Newest + 1
  BY KnownAssumption
<1>2. TypeOK'
  BY <1>1 DEF IInv, TypeOK, IsAlone
<1>3. LoopsKnow'
  BY DEF IInv, TypeOK, LoopsKnow, LoopKnows, IsAlone
<1>. QED
  BY <1>2, <1>3, FilesKept DEF IInv, IsAlone

LEMMA NextInv == IInv /\ [Next]_vars => IInv'
<1>. SUFFICES ASSUME IInv, [Next]_vars PROVE IInv'
  OBVIOUS
<1>1. ASSUME NEW p \in Processes, Open(p) PROVE IInv'
  BY <1>1, LookInv, ConnectInv, CreateTableInv, CheckInv, ApplyInv DEF Open
<1>2. ASSUME NEW p \in Processes, Finish(p) \/ Fails(p) PROVE IInv'
  BY <1>2, EndsInv DEF Finish, Fails, Steps, IInv, TypeOK
<1>3. CASE UNCHANGED vars
  BY <1>3 DEF IInv, TypeOK, LoopsKnow, LoopKnows, MigratedOnceInOrder, vars
<1>. QED
  BY <1>1, <1>2, <1>3, AloneInv DEF Next

LEMMA AlwaysIInv == Spec => []IInv
BY InitInv, NextInv, PTL DEF Spec

-----------------------------------------------------------------------------
(* Theorems *)

\* Every variable keeps its type, and a process has a connection from the
\* step that needs it to its end.
THEOREM TypeCorrect == Spec => []TypeOK
<1>1. IInv => TypeOK
  BY DEF IInv
<1>. QED
  BY <1>1, AlwaysIInv, PTL

\* In every file the migrations have been run each once, in order and without
\* a gap, and those recorded are those run, for any processes and builds.
THEOREM MigratedOnce == Spec => []MigratedOnceInOrder
<1>1. IInv => MigratedOnceInOrder
  BY DEF IInv
<1>. QED
  BY <1>1, AlwaysIInv, PTL

\* A process whose Open has returned finds every migration its build knows in
\* the file it has open.
THEOREM ReadyFindsMigrations == Spec => []ReadyIsMigrated
<1>1. IInv => ReadyIsMigrated
  <2>. SUFFICES ASSUME IInv, NEW p \in Processes, pc[p] = "ready"
                PROVE  1 .. Known[p] \subseteq content[file[p]].recorded
    BY DEF ReadyIsMigrated
  <2>1. /\ next[p] > Known[p] /\ next[p] \in Nat /\ Known[p] \in Nat
        /\ 1 .. (next[p] - 1) \subseteq content[file[p]].recorded
    BY KnownAssumption DEF IInv, TypeOK, LoopsKnow, LoopKnows
  <2>. QED
    BY <2>1
<1>. QED
  BY <1>1, AlwaysIInv, PTL

LEMMA StillLasts == ASSUME TypeOK, Lasts, [Next]_vars PROVE Lasts' /\ link' = link
<1>0. link \in Files
  BY DEF TypeOK, Lasts
<1>1. ASSUME NEW p \in Processes, Begin(p) PROVE Lasts' /\ link' = link
  BY <1>1 DEF TypeOK, Lasts, Begin, Goes
<1>2. ASSUME NEW p \in Processes, Look(p) PROVE Lasts' /\ link' = link
  <2>1. PICK f \in Files : Linked(f) /\ Goes(p, IF content'[f].table THEN "open" ELSE "remove")
    BY <1>2 DEF Look
  <2>2. f = link /\ UNCHANGED <<link, content>>
    BY <2>1 DEF Lasts, Linked
  <2>. QED
    BY <2>1, <2>2 DEF TypeOK, Lasts, Goes
<1>3. ASSUME NEW p \in Processes PROVE ~Remove(p)
  BY DEF Lasts, Remove
<1>4. ASSUME NEW p \in Processes, Connect(p) PROVE Lasts' /\ link' = link
  BY <1>4 DEF TypeOK, Lasts, Connect, Linked, Goes
<1>5. ASSUME NEW p \in Processes, CreateTable(p) PROVE Lasts' /\ link' = link
  BY <1>0, <1>5 DEF TypeOK, Content, Lasts, CreateTable, Goes
<1>6. ASSUME NEW p \in Processes, Check(p) PROVE Lasts' /\ link' = link
  BY <1>6 DEF TypeOK, Lasts, Check, Goes
<1>7. ASSUME NEW p \in Processes, Apply(p) PROVE Lasts' /\ link' = link
  <2>. DEFINE c == content[file[p]]
  <2>0. file[p] \in Files /\ content[link] \in Content /\ c \in Content
    BY <1>0, <1>7 DEF TypeOK, Apply
  <2>1. content'[link].table /\ link' = link
    <3>1. CASE UNCHANGED content
      BY <1>7, <3>1 DEF Lasts, Apply
    <3>2. CASE content' = [content EXCEPT ![file[p]].schema = Append(@, next[p]),
                                          ![file[p]].recorded = @ \cup {next[p]}]
      BY <1>0, <1>7, <2>0, <3>2 DEF TypeOK, Content, Lasts, Apply
    <3>. QED
      BY <1>7, <3>1, <3>2 DEF Apply
  <2>2. \A q \in Processes : pc'[q] # "remove"
    BY <1>7 DEF TypeOK, Lasts, Apply, Goes, Ends
  <2>. QED
    BY <2>1, <2>2 DEF Lasts
<1>8. ASSUME NEW p \in Processes, Finish(p) \/ Fails(p) \/ IsAlone(p) PROVE Lasts' /\ link' = link
  BY <1>8 DEF TypeOK, Lasts, Finish, Fails, IsAlone, Ends, Goes
<1>9. CASE UNCHANGED vars
  BY <1>9 DEF Lasts, vars
<1>. QED
  BY <1>1, <1>2, <1>3, <1>4, <1>5, <1>6, <1>7, <1>8, <1>9 DEF Next, Open

\* A database that has its table of migrations, and that nobody is about to
\* remove already, is never removed, not even if removals may fail.
THEOREM MigratedStays == Spec => MigratedDatabaseStays
<1>1. TypeOK /\ [Next]_vars => [Lasts => Lasts' /\ link' = link]_vars
  BY StillLasts
<1>. QED
  BY <1>1, TypeCorrect, PTL DEF Spec, MigratedDatabaseStays

-----------------------------------------------------------------------------
(* A process that opens the database alone gets closer with every step. *)

\* A file of before there were migrations is found at the path and removed
\* from it before anybody uses it.
LegacyUntouched ==
    /\ \A p \in Processes : file[p] # None => ~content[file[p]].legacy
    /\ link # None /\ content[link].legacy =>
          /\ ~content[link].table
          /\ \A p \in Processes : pc[p] \in {"off", "look", "remove"}

LEMMA InitLegacy == Init => LegacyUntouched
BY DEF Init, LegacyUntouched, EmptyFile, LegacyFile, MigratedFile

LEMMA LinkedLegacy ==
    ASSUME TypeOK, LegacyUntouched, NEW f \in Files, Linked(f)
    PROVE  /\ \A p \in Processes : file[p] # None => ~content'[file[p]].legacy
           /\ link' = f /\ link' # None
           /\ content'[f].legacy =>
                 /\ link = f /\ ~content'[f].table
                 /\ \A p \in Processes : pc[p] \in {"off", "look", "remove"}
<1>1. f # None /\ EmptyFile.legacy = FALSE
  BY NamesAssumption DEF EmptyFile
<1>2. CASE link = f /\ UNCHANGED <<link, content>>
  BY <1>1, <1>2 DEF LegacyUntouched
<1>3. CASE link = None /\ Unused(f) /\ link' = f /\ content' = [content EXCEPT ![f] = EmptyFile]
  <2>1. content'[f] = EmptyFile /\ \A g \in Files \ {f} : content'[g] = content[g]
    BY <1>3 DEF TypeOK
  <2>2. \A p \in Processes : file[p] # None => file[p] \in Files \ {f}
    BY <1>3 DEF TypeOK, Unused
  <2>. QED
    BY <1>1, <1>3, <2>1, <2>2 DEF LegacyUntouched
<1>. QED
  BY <1>2, <1>3 DEF Linked

\* What is written to the file a process has open makes no file a legacy one.
LEMMA WrittenLegacy ==
    ASSUME TypeOK, LegacyUntouched, UNCHANGED link,
           NEW p \in Processes, pc[p] \in Connected,
           \A q \in Processes \ {p} : pc'[q] = pc[q] /\ file'[q] = file[q],
           file'[p] \in {file[p], None},
           \A g \in Files : content'[g].legacy = content[g].legacy
    PROVE  LegacyUntouched'
<1>1. link # None => ~content[link].legacy
  BY DEF LegacyUntouched, Connected
<1>2. \A q \in Processes : file'[q] # None => file'[q] = file[q] /\ file[q] \in Files
  BY DEF TypeOK
<1>3. link # None => link \in Files
  BY DEF TypeOK
<1>. QED
  BY <1>1, <1>2, <1>3 DEF LegacyUntouched

LEMMA NextLegacy ==
    ASSUME ~StuckFiles, TypeOK, LegacyUntouched, [Next]_vars
    PROVE  LegacyUntouched'
<1>1. ASSUME NEW p \in Processes, Begin(p) PROVE LegacyUntouched'
  BY <1>1 DEF LegacyUntouched, Begin, Goes, TypeOK
<1>2. ASSUME NEW p \in Processes, Look(p) PROVE LegacyUntouched'
  <2>1. PICK f \in Files : Linked(f) /\ Goes(p, IF content'[f].table THEN "open" ELSE "remove")
    BY <1>2 DEF Look
  <2>2. UNCHANGED file
    BY <1>2 DEF Look
  <2>. QED
    BY <2>1, <2>2, LinkedLegacy DEF LegacyUntouched, Goes, TypeOK
<1>3. ASSUME NEW p \in Processes, Remove(p) PROVE LegacyUntouched'
  BY <1>3 DEF LegacyUntouched, Remove, Goes
<1>4. ASSUME NEW p \in Processes, Connect(p) PROVE LegacyUntouched'
  <2>1. PICK f \in Files : Linked(f) /\ file' = [file EXCEPT ![p] = f]
    BY <1>4 DEF Connect
  <2>2. pc[p] = "open" /\ pc' = [pc EXCEPT ![p] = "table"]
    BY <1>4 DEF Connect, Goes
  <2>3. ~content'[f].legacy
    BY <2>1, <2>2, LinkedLegacy
  <2>. QED
    BY <2>1, <2>2, <2>3, LinkedLegacy DEF LegacyUntouched, TypeOK
<1>5. ASSUME NEW p \in Processes, CreateTable(p) PROVE LegacyUntouched'
  <2>1. pc[p] = "table" /\ UNCHANGED <<link, file>> /\ pc' = [pc EXCEPT ![p] = "check"]
    BY <1>5 DEF CreateTable, Goes
  <2>2. \A g \in Files : content'[g].legacy = content[g].legacy
    BY <1>5 DEF CreateTable, TypeOK, Content
  <2>. QED
    BY <2>1, <2>2, WrittenLegacy DEF Connected, TypeOK
<1>6. ASSUME NEW p \in Processes, Check(p) PROVE LegacyUntouched'
  <2>1. /\ pc[p] = "check" /\ UNCHANGED <<link, content, file>>
        /\ \A q \in Processes \ {p} : pc'[q] = pc[q]
    BY <1>6 DEF Check, Goes, TypeOK
  <2>. QED
    BY <2>1, WrittenLegacy DEF Connected
<1>7. ASSUME NEW p \in Processes, Apply(p) PROVE LegacyUntouched'
  <2>1. pc[p] = "apply" /\ UNCHANGED link
    BY <1>7 DEF Apply
  <2>2. \A g \in Files : content'[g].legacy = content[g].legacy
    <3>1. CASE UNCHANGED content
      BY <3>1
    <3>2. CASE content' = [content EXCEPT ![file[p]].schema = Append(@, next[p]),
                                          ![file[p]].recorded = @ \cup {next[p]}]
      BY <3>2 DEF TypeOK, Content
    <3>. QED
      BY <1>7, <3>1, <3>2 DEF Apply
  <2>3. /\ \A q \in Processes \ {p} : pc'[q] = pc[q] /\ file'[q] = file[q]
        /\ file'[p] \in {file[p], None}
    BY <1>7 DEF Apply, Goes, Ends, TypeOK
  <2>. QED
    BY <2>1, <2>2, <2>3, WrittenLegacy DEF Connected
<1>8. ASSUME NEW p \in Processes, Finish(p) \/ Fails(p) PROVE LegacyUntouched'
  BY <1>8 DEF LegacyUntouched, Finish, Fails, Ends, Goes, TypeOK
<1>9. ASSUME NEW p \in Processes, IsAlone(p) PROVE LegacyUntouched'
  BY <1>9 DEF LegacyUntouched, IsAlone, TypeOK
<1>10. CASE UNCHANGED vars
  BY <1>10 DEF LegacyUntouched, vars
<1>. QED
  BY <1>1, <1>2, <1>3, <1>4, <1>5, <1>6, <1>7, <1>8, <1>9, <1>10 DEF Next, Open

\* No process counts further than one beyond the migrations it knows.
NoLoopBeyond == \A p \in Processes : next[p] <= Known[p] + 1

LEMMA InitBeyond == Init => NoLoopBeyond
<1>. SUFFICES ASSUME Init, NEW p \in Processes PROVE next[p] <= Known[p] + 1
  BY DEF NoLoopBeyond
<1>1. Known[p] \in Nat
  BY KnownAssumption
<1>2. next[p] = 1
  BY DEF Init
<1>. QED
  BY <1>1, <1>2

LEMMA NextBeyond ==
    ASSUME IInv, NoLoopBeyond, [Next]_vars
    PROVE  NoLoopBeyond'
<1>0. \A q \in Processes : Known[q] \in Nat /\ next[q] \in Nat /\ next[q] <= Known[q] + 1
  BY KnownAssumption DEF IInv, TypeOK, NoLoopBeyond
<1>1. ASSUME NEW p \in Processes,
             next' \in {next, [next EXCEPT ![p] = 1], [next EXCEPT ![p] = @ + 1]},
             next' = [next EXCEPT ![p] = @ + 1] => next[p] <= Known[p]
      PROVE  NoLoopBeyond'
  <2>1. DOMAIN next = Processes
    BY DEF IInv, TypeOK
  <2>2. CASE next' = next
    BY <1>0, <2>2 DEF NoLoopBeyond
  <2>3. CASE next' = [next EXCEPT ![p] = 1]
    BY <1>0, <2>1, <2>3 DEF NoLoopBeyond
  <2>4. CASE next' = [next EXCEPT ![p] = @ + 1]
    BY <1>0, <1>1, <2>1, <2>4 DEF NoLoopBeyond
  <2>. QED
    BY <1>1, <2>2, <2>3, <2>4
<1>2. ASSUME NEW p \in Processes, Begin(p) \/ Look(p) \/ Remove(p) \/ Connect(p) \/ CreateTable(p)
      PROVE  NoLoopBeyond'
  <2>1. UNCHANGED next
    BY <1>2 DEF Begin, Look, Remove, Connect, CreateTable
  <2>. QED
    BY <2>1 DEF NoLoopBeyond
<1>3. ASSUME NEW p \in Processes, Check(p) PROVE NoLoopBeyond'
  <2>1. next' = next \/ (next' = [next EXCEPT ![p] = @ + 1] /\ next[p] <= Known[p])
    BY <1>3 DEF Check
  <2>. QED
    BY <1>1, <2>1 DEF NoLoopBeyond
<1>4. ASSUME NEW p \in Processes, Apply(p) PROVE NoLoopBeyond'
  <2>1. next' \in {[next EXCEPT ![p] = 1], [next EXCEPT ![p] = @ + 1]}
    BY <1>4 DEF Apply, Ends
  <2>2. next[p] <= Known[p]
    BY <1>4 DEF Apply, IInv, LoopsKnow, LoopKnows
  <2>. QED
    BY <1>1, <2>1, <2>2
<1>5. ASSUME NEW p \in Processes, Finish(p) \/ Fails(p) PROVE NoLoopBeyond'
  <2>1. next' = [next EXCEPT ![p] = 1]
    BY <1>5 DEF Finish, Fails, Ends
  <2>. QED
    BY <1>0, <2>1 DEF NoLoopBeyond, IInv, TypeOK
<1>6. ASSUME NEW p \in Processes, IsAlone(p) PROVE NoLoopBeyond'
  BY <1>0, <1>6 DEF IsAlone, NoLoopBeyond
<1>7. CASE UNCHANGED vars
  BY <1>7 DEF vars, NoLoopBeyond
<1>. QED
  BY <1>2, <1>3, <1>4, <1>5, <1>6, <1>7 DEF Next, Open

\* A migration that is not recorded can be applied: it is the next one.
LEMMA UnrecordedFits ==
    ASSUME IInv, LegacyUntouched, NEW p \in Processes, pc[p] = "apply", ~IsMigrationApplied(p)
    PROVE  Fits(next[p], content[file[p]]) /\ next[p] \notin content[file[p]].recorded
<1>. DEFINE c == content[file[p]]
            n == next[p]
            k == Len(c.schema)
<1>1. file[p] \in Files /\ c \in Content /\ n \in 1 .. Newest + 1 /\ ~c.legacy
  BY DEF IInv, TypeOK, LegacyUntouched
<1>2. /\ c.schema = UpTo(k) /\ c.recorded = 1 .. k
      /\ c.schema \in Seq(1 .. Newest) /\ k \in Nat
      /\ 1 .. (n - 1) \subseteq c.recorded /\ n \notin c.recorded
  BY <1>1 DEF IInv, MigratedOnceInOrder, LoopsKnow, LoopKnows, Content, IsMigrationApplied
<1>. HIDE DEF c, n
<1>3. n = k + 1
  <2>1. n \in Nat /\ n > k
    BY <1>1, <1>2, KnownAssumption
  <2>2. n = 1 \/ n - 1 \in 1 .. (n - 1)
    BY <1>1, KnownAssumption
  <2>. QED
    BY <1>2, <2>1, <2>2
<1>4. \A j \in 1 .. k : c.schema[j] = j
  BY <1>2 DEF UpTo
<1>5. ~Ran(n, c)
  BY <1>2, <1>3, <1>4 DEF Ran
<1>6. CASE n = 1
  BY <1>1, <1>2, <1>3, <1>6 DEF Fits, c, n
<1>7. CASE n # 1
  <2>1. c.schema # <<>>
    BY <1>2, <1>3, <1>7
  <2>. QED
    BY <1>2, <1>5, <1>7, <2>1 DEF Fits, c, n
<1>. QED
  BY <1>6, <1>7

\* Where p is in its loop it has not gone beyond the migrations it knows.
LEMMA StepsLeftIs ==
    ASSUME IInv, NEW p \in Processes
    PROVE  /\ Known[p] \in Nat /\ next[p] \in Nat
           /\ pc[p] \notin {"check", "apply", "ready"} => next[p] = 1
           /\ pc[p] = "apply" => next[p] <= Known[p]
BY KnownAssumption DEF IInv, TypeOK, LoopsKnow, LoopKnows

LEMMA StepsAreBounded ==
    ASSUME IInv, NoLoopBeyond, NEW p \in Processes
    PROVE  StepsLeft(p) \in 0 .. 4 * Known[p] + 7
<1>. DEFINE known == Known[p]
            now == next[p]
            fails == pc[p] = "apply" /\ IsMigrationApplied(p)
<1>1. /\ known \in Nat /\ now \in Nat /\ now >= 1 /\ now <= known + 1
      /\ pc[p] = "apply" => now <= known
      /\ pc[p] \in {"off", "look", "remove", "open", "table", "check", "apply", "ready"}
  BY StepsLeftIs, KnownAssumption DEF IInv, TypeOK, NoLoopBeyond
<1>2. /\ pc[p] = "ready" => StepsLeft(p) = 0
      /\ fails => StepsLeft(p) = 2 * (known + 1 - now) + (2 * known + 7)
      /\ pc[p] # "ready" /\ ~fails =>
            \E n \in 0 .. 6 : StepsLeft(p) = 2 * (known + 1 - now) + n
  <2>. DEFINE steps == [off |-> 6, look |-> 5, remove |-> 4, open |-> 3, table |-> 2, check |-> 1,
                        apply |-> 0, ready |-> 0]
  <2>1. steps[pc[p]] \in 0 .. 6
    BY <1>1
  <2>2. StepsLeft(p) = IF pc[p] = "ready" THEN 0
                       ELSE 2 * (known + 1 - now) + (IF fails THEN 2 * known + 7 ELSE steps[pc[p]])
    BY DEF StepsLeft
  <2>. HIDE DEF steps, known, now, fails
  <2>3. ASSUME pc[p] # "ready", ~fails
        PROVE  \E n \in 0 .. 6 : StepsLeft(p) = 2 * (known + 1 - now) + n
    BY <2>1, <2>2, <2>3
  <2>. QED
    BY <2>2, <2>3 DEF fails
<1>3. fails => pc[p] = "apply"
  OBVIOUS
<1>. HIDE DEF known, now, fails
<1>. SUFFICES StepsLeft(p) \in 0 .. 4 * known + 7
  BY DEF known
<1>. QED
  BY <1>1, <1>2, <1>3

LEMMA StepAdvances ==
    ASSUME IInv, LegacyUntouched, NoLoopBeyond, NEW p \in Processes, Open(p)
    PROVE  StepsLeft(p)' < StepsLeft(p)
<1>. DEFINE known == Known[p]
            now == next[p]
            then == next'[p]
<1>0. /\ known \in Nat /\ now \in Nat
      /\ pc[p] \notin {"check", "apply", "ready"} => now = 1
      /\ pc[p] = "apply" => now <= known
      /\ now <= known + 1
  BY StepsLeftIs DEF NoLoopBeyond
<1>a. /\ pc[p] = "off" => StepsLeft(p) = 2 * (known + 1 - now) + 6
      /\ pc[p] = "look" => StepsLeft(p) = 2 * (known + 1 - now) + 5
      /\ pc[p] = "remove" => StepsLeft(p) = 2 * (known + 1 - now) + 4
      /\ pc[p] = "open" => StepsLeft(p) = 2 * (known + 1 - now) + 3
      /\ pc[p] = "table" => StepsLeft(p) = 2 * (known + 1 - now) + 2
      /\ pc[p] = "check" => StepsLeft(p) = 2 * (known + 1 - now) + 1
      /\ pc[p] = "apply" /\ IsMigrationApplied(p) =>
            StepsLeft(p) = 2 * (known + 1 - now) + (2 * known + 7)
      /\ pc[p] = "apply" /\ ~IsMigrationApplied(p) => StepsLeft(p) = 2 * (known + 1 - now) + 0
  BY DEF StepsLeft
<1>b. /\ pc'[p] = "off" => StepsLeft(p)' = 2 * (known + 1 - then) + 6
      /\ pc'[p] = "look" => StepsLeft(p)' = 2 * (known + 1 - then) + 5
      /\ pc'[p] = "remove" => StepsLeft(p)' = 2 * (known + 1 - then) + 4
      /\ pc'[p] = "open" => StepsLeft(p)' = 2 * (known + 1 - then) + 3
      /\ pc'[p] = "table" => StepsLeft(p)' = 2 * (known + 1 - then) + 2
      /\ pc'[p] = "check" => StepsLeft(p)' = 2 * (known + 1 - then) + 1
      /\ pc'[p] = "apply" /\ ~IsMigrationApplied(p)' => StepsLeft(p)' = 2 * (known + 1 - then) + 0
      /\ pc'[p] = "ready" => StepsLeft(p)' = 0
  BY DEF StepsLeft
<1>. HIDE DEF known, now, then
<1>1. CASE Begin(p) \/ Look(p) \/ Remove(p) \/ Connect(p)
  <2>1. then = now
    BY <1>1 DEF Begin, Look, Remove, Connect, then, now
  <2>2. \/ pc[p] = "off" /\ pc'[p] \in {"open", "look"}
        \/ pc[p] = "look" /\ pc'[p] \in {"open", "remove"}
        \/ pc[p] = "remove" /\ pc'[p] = "open"
        \/ pc[p] = "open" /\ pc'[p] = "table"
    BY <1>1 DEF Begin, Look, Remove, Connect, Goes, IInv, TypeOK
  <2>. QED
    BY <1>0, <1>a, <1>b, <2>1, <2>2
<1>2. CASE CreateTable(p)
  <2>1. pc[p] = "table" /\ pc'[p] = "check" /\ then = now
    BY <1>2 DEF CreateTable, Goes, IInv, TypeOK, then, now
  <2>. QED
    BY <1>0, <1>a, <1>b, <2>1
<1>3. CASE Check(p)
  <2>1. UNCHANGED <<content, file>> /\ pc[p] = "check"
    BY <1>3 DEF Check
  <2>2. CASE now > known
    <3>1. pc'[p] = "ready"
      BY <1>0, <1>3, <2>2 DEF Check, Goes, IInv, TypeOK, known, now
    <3>. QED
      BY <1>0, <1>a, <1>b, <2>1, <2>2, <3>1
  <2>3. CASE now <= known /\ IsMigrationApplied(p)
    <3>1. pc' = pc /\ then = now + 1
      BY <1>0, <1>3, <2>3 DEF Check, IInv, TypeOK, known, now, then
    <3>. QED
      BY <1>0, <1>a, <1>b, <2>1, <3>1
  <2>4. CASE now <= known /\ ~IsMigrationApplied(p)
    <3>1. pc'[p] = "apply" /\ next' = next
      BY <1>0, <1>3, <2>1, <2>4 DEF Check, Goes, IInv, TypeOK, known, now
    <3>2. ~IsMigrationApplied(p)' /\ then = now
      BY <2>1, <2>4, <3>1 DEF IsMigrationApplied, now, then
    <3>. QED
      BY <1>0, <1>a, <1>b, <2>1, <3>1, <3>2
  <2>. QED
    BY <1>0, <2>2, <2>3, <2>4
<1>4. CASE Apply(p)
  <2>1. pc[p] = "apply"
    BY <1>4 DEF Apply
  <2>2. CASE IsMigrationApplied(p)
    <3>1. Ends(p)
      BY <1>4, <2>2 DEF Apply, IsMigrationApplied
    <3>2. pc'[p] = "off" /\ then = 1
      BY <3>1 DEF Ends, Goes, IInv, TypeOK, then
    <3>. QED
      BY <1>0, <1>a, <1>b, <2>1, <2>2, <3>2
  <2>3. CASE ~IsMigrationApplied(p)
    <3>1. Goes(p, "check") /\ next' = [next EXCEPT ![p] = @ + 1]
      BY <1>4, <2>1, <2>3, UnrecordedFits DEF Apply
    <3>2. pc'[p] = "check" /\ then = now + 1
      BY <3>1 DEF Goes, IInv, TypeOK, then, now
    <3>. QED
      BY <1>0, <1>a, <1>b, <2>1, <2>3, <3>2
  <2>. QED
    BY <2>2, <2>3
<1>. QED
  BY <1>1, <1>2, <1>3, <1>4 DEF Open

\* Unless the removal of a file of an early build fails, a process that opens
\* the database alone comes closer to being ready with every step, whatever
\* the others left when they died and whichever migrations it knows: it is
\* ready after at most four steps for each of those and seven more.
THEOREM LoneOpenIsBounded ==
    /\ Spec => []\A p \in Processes : StepsLeft(p) \in 0 .. 4 * Known[p] + 7
    /\ ~StuckFiles => (Spec => LoneOpenAdvances)
<1>. DEFINE Bounds == \A p \in Processes : StepsLeft(p) \in 0 .. 4 * Known[p] + 7
<1>1. IInv /\ NoLoopBeyond /\ [Next]_vars => NoLoopBeyond'
  BY NextBeyond
<1>2. IInv /\ NoLoopBeyond => Bounds
  BY StepsAreBounded
<1>3. Spec => []Bounds
  <2>. HIDE DEF Bounds
  <2>. QED
    BY <1>1, <1>2, InitBeyond, AlwaysIInv, PTL DEF Spec
<1>4. ASSUME ~StuckFiles PROVE Spec => LoneOpenAdvances
  <2>1. TypeOK /\ LegacyUntouched /\ [Next]_vars => LegacyUntouched'
    BY <1>4, NextLegacy
  <2>2. ASSUME IInv, LegacyUntouched, NoLoopBeyond, Bounds, Bounds', NEW p \in Processes, Open(p)
        PROVE  StepsLeft(p)' \in 0 .. StepsLeft(p) - 1
    <3>1. StepsLeft(p)' < StepsLeft(p)
      BY <2>2, StepAdvances
    <3>2. StepsLeft(p) \in 0 .. 4 * Known[p] + 7 /\ StepsLeft(p)' \in 0 .. 4 * Known[p] + 7
      BY <2>2
    <3>3. Known[p] \in Nat
      BY <2>2, StepsLeftIs
    <3>. QED
      BY <3>1, <3>2, <3>3
  <2>3. IInv /\ LegacyUntouched /\ NoLoopBeyond /\ Bounds /\ Bounds' /\ [Next]_vars =>
          [\A p \in Processes : alone = p /\ Open(p) => StepsLeft(p)' \in 0 .. StepsLeft(p) - 1]_vars
    BY <2>2
  <2>4. IInv => TypeOK
    BY DEF IInv
  <2>. HIDE DEF Bounds
  <2>. QED
    BY <1>1, <1>3, <2>1, <2>3, <2>4, InitLegacy, InitBeyond, AlwaysIInv, PTL
    DEF Spec, LoneOpenAdvances
<1>. QED
  BY <1>3, <1>4
=============================================================================
