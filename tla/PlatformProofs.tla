-------------------------- MODULE PlatformProofs --------------------------
(***************************************************************************)
(* Theorems about Platform for any number of clients, machines, addresses, *)
(* locations and requests, whatever the cool-down, the rate limit and the  *)
(* other settings.                                                         *)
(***************************************************************************)
EXTENDS Platform, AccountsProofs, AgentRegistryProofs, ServiceDeskProofs,
        FiniteSetTheorems, SequenceTheorems, TLAPS

-----------------------------------------------------------------------------
(* The import: InventoryImport.                                            *)

Tally(count) == count.created + count.updated + count.skipped + count.errors

\* An import has counted the rows it has left behind, each once; the errors of
\* rows alone are among the errors, and a transaction that is aborted has met
\* another one.
Sound(r) ==
    /\ r.pc \in {"find", "write"} => r.rows # <<>>
    /\ r.pc \in {"commit", "log"} => r.rows = <<>>
    /\ r.pc # "idle" => /\ Tally(r.count) + Len(r.rows) = r.total
                        /\ r.count.local <= r.count.errors
                        /\ r.aborted => r.count.errors > r.count.local
FilesInv == /\ \A i \in Client : Sound(imports[i])
            /\ Files!ImportHonest

LEMMA NoImportType == Files!NoImport \in Files!ImportState
BY DEF Files!NoImport, Files!ImportState, Files!Counts, Files!Zero

LEMMA FilesInit == Files!Init => Files!TypeOK /\ FilesInv
<1> SUFFICES ASSUME Files!Init PROVE Files!TypeOK /\ FilesInv
    OBVIOUS
<1>1. Files!TypeOK
    BY NoImportType DEF Files!Init, Files!TypeOK
<1>2. FilesInv
    BY DEF Files!Init, FilesInv, Sound, Files!NoImport, Files!ImportHonest
<1> QED
    BY <1>1, <1>2

LEMMA TallyType ==
    ASSUME NEW c \in Files!Counts
    PROVE  /\ c.created \in Nat /\ c.updated \in Nat /\ c.skipped \in Nat
           /\ c.errors \in Nat /\ c.local \in Nat /\ Tally(c) \in Nat
BY DEF Files!Counts, Tally

LEMMA RestType ==
    ASSUME NEW S, NEW s \in Seq(S), s # <<>>
    PROVE  /\ Tail(s) \in Seq(S) /\ Head(s) \in S
           /\ Len(Tail(s)) \in Nat /\ Len(s) = Len(Tail(s)) + 1
           /\ Tail(s) = <<>> <=> Len(Tail(s)) = 0
<1>1. Tail(s) \in Seq(S) /\ Head(s) \in S /\ Len(s) \in Nat \ {0}
    BY EmptySeq
<1>2. Len(Tail(s)) = Len(s) - 1
    BY HeadTailProperties
<1>3. Tail(s) = <<>> <=> Len(Tail(s)) = 0
    BY <1>1, EmptySeq
<1> QED
    BY <1>1, <1>2, <1>3

\* The import with its row counted, r, leaves the row behind.
LEMMA LeaveStep ==
    ASSUME Files!TypeOK, NEW i \in Client, NEW r \in Files!ImportState, r.rows # <<>>,
           Tally(r.count) + Len(r.rows) = r.total + 1,
           r.count.local <= r.count.errors,
           r.aborted => r.count.errors > r.count.local,
           Files!Leave(i, r)
    PROVE  /\ imports' \in [Client -> Files!ImportState]
           /\ Sound(imports'[i])
           /\ \A j \in Client \ {i} : imports'[j] = imports[j]
<1> DEFINE rest == Tail(r.rows)
           new == [r EXCEPT !.rows = rest, !.pc = IF rest = <<>> THEN "commit" ELSE "find"]
<1>1. imports' = [imports EXCEPT ![i] = new]
    BY DEF Files!Leave
<1>2. /\ rest \in Seq(Files!Row) /\ Len(r.rows) = Len(rest) + 1
      /\ Len(rest) \in Nat /\ (rest = <<>> <=> Len(rest) = 0)
    <2>1. r.rows \in Seq(Files!Row)
        BY DEF Files!ImportState
    <2> QED
        BY <2>1, RestType
<1>3. /\ new.rows = rest /\ new.total = r.total /\ new.aborted = r.aborted
      /\ new.count = r.count /\ new.pc = IF rest = <<>> THEN "commit" ELSE "find"
      /\ new \in Files!ImportState
    BY <1>2 DEF Files!ImportState
<1>4. Tally(r.count) \in Nat /\ r.total \in Nat
    <2>1. r.count \in Files!Counts /\ r.total \in Nat
        BY DEF Files!ImportState
    <2> QED
        BY <2>1, TallyType
<1> HIDE DEF new, rest
<1>5. Sound(new)
    BY <1>2, <1>3, <1>4 DEF Sound
<1> QED
    BY <1>1, <1>3, <1>5 DEF Files!TypeOK

\* A row that is counted.
LEMMA CountedStep ==
    ASSUME Files!TypeOK, NEW i \in Client, Sound(imports[i]),
           imports[i].pc \in {"find", "write"}, NEW held \in SUBSET Thing,
           NEW f \in {"created", "updated", "skipped"}, Files!Counted(i, f, held)
    PROVE  /\ imports' \in [Client -> Files!ImportState]
           /\ Sound(imports'[i])
           /\ \A j \in Client \ {i} : imports'[j] = imports[j]
<1> DEFINE old == imports[i]
           r == [imports[i] EXCEPT !.count[f] = @ + 1, !.held = held]
<1>1. old \in Files!ImportState /\ old.rows # <<>>
    BY DEF Files!TypeOK, Sound
<1>2. Files!Leave(i, r)
    BY DEF Files!Counted
<1>3. /\ r.rows = old.rows /\ r.total = old.total /\ r.aborted = old.aborted
      /\ r.count = [old.count EXCEPT ![f] = @ + 1]
    BY <1>1 DEF Files!ImportState
<1>4. /\ r.count \in Files!Counts
      /\ Tally(r.count) = Tally(old.count) + 1
      /\ r.count.local = old.count.local /\ r.count.errors = old.count.errors
    <2>1. ASSUME NEW c \in Files!Counts
          PROVE  LET d == [c EXCEPT ![f] = @ + 1]
                 IN  /\ d \in Files!Counts /\ Tally(d) = Tally(c) + 1
                     /\ d.local = c.local /\ d.errors = c.errors
        BY <2>1 DEF Files!Counts, Tally
    <2>2. old.count \in Files!Counts
        BY <1>1 DEF Files!ImportState
    <2> QED
        BY <1>3, <2>1, <2>2
<1>5. r \in Files!ImportState
    BY <1>1, <1>3, <1>4 DEF Files!ImportState
<1>6. Tally(old.count) \in Nat /\ Len(old.rows) \in Nat /\ old.total \in Nat
    <2>1. old.count \in Files!Counts /\ old.rows \in Seq(Files!Row) /\ old.total \in Nat
        BY <1>1 DEF Files!ImportState
    <2>2. Tally(old.count) \in Nat
        BY <2>1, TallyType
    <2> QED
        BY <1>1, <2>1, <2>2, RestType
<1>7. /\ Tally(old.count) + Len(old.rows) = old.total
      /\ old.count.local <= old.count.errors
      /\ old.aborted => old.count.errors > old.count.local
    BY DEF Sound
<1> HIDE DEF r, old
<1>8. Tally(r.count) + Len(r.rows) = r.total + 1
    BY <1>3, <1>4, <1>6, <1>7
<1> QED
    BY <1>1, <1>2, <1>3, <1>4, <1>5, <1>7, <1>8, LeaveStep

\* A row that fails is an error: one of its own, or one that ends the transaction.
LEMMA FailedStep ==
    ASSUME Files!TypeOK, NEW i \in Client, Sound(imports[i]),
           imports[i].pc \in {"find", "write"}, NEW local \in BOOLEAN,
           Files!Failed(i, local)
    PROVE  /\ imports' \in [Client -> Files!ImportState]
           /\ Sound(imports'[i])
           /\ \A j \in Client \ {i} : imports'[j] = imports[j]
<1> DEFINE old == imports[i]
           k == IF local THEN 1 ELSE 0
           r == [imports[i] EXCEPT !.count.errors = @ + 1, !.count.local = @ + k,
                                   !.aborted = @ \/ ~local]
<1>1. old \in Files!ImportState /\ old.rows # <<>>
    BY DEF Files!TypeOK, Sound
<1>2. Files!Leave(i, r)
    BY DEF Files!Failed
<1>k. k \in {0, 1} /\ (~local => k = 0)
    OBVIOUS
<1> HIDE DEF k
<1>3. /\ r.rows = old.rows /\ r.total = old.total /\ r.aborted = (old.aborted \/ ~local)
      /\ r.count = [old.count EXCEPT !.errors = @ + 1, !.local = @ + k]
    BY <1>1 DEF Files!ImportState
<1>4. /\ r.count \in Files!Counts
      /\ Tally(r.count) = Tally(old.count) + 1
      /\ r.count.local = old.count.local + k
      /\ r.count.errors = old.count.errors + 1
      /\ old.count.local \in Nat /\ old.count.errors \in Nat
    <2>1. ASSUME NEW c \in Files!Counts
          PROVE  LET d == [c EXCEPT !.errors = @ + 1, !.local = @ + k]
                 IN  /\ d \in Files!Counts /\ Tally(d) = Tally(c) + 1
                     /\ d.local = c.local + k
                     /\ d.errors = c.errors + 1
                     /\ c.local \in Nat /\ c.errors \in Nat
        <3> DEFINE d == [c EXCEPT !.errors = @ + 1, !.local = @ + k]
        <3>1. /\ d.created = c.created /\ d.updated = c.updated /\ d.skipped = c.skipped
              /\ d.errors = c.errors + 1 /\ d.local = c.local + k
            BY <1>k DEF Files!Counts
        <3>2. d \in Files!Counts
            <4>1. c.errors + 1 \in Nat /\ c.local + k \in Nat
                BY <1>k, TallyType
            <4> QED
                BY <4>1 DEF Files!Counts
        <3> HIDE DEF d
        <3>3. Tally(d) = Tally(c) + 1
            BY <3>1, TallyType DEF Tally
        <3> QED
            BY <3>1, <3>2, <3>3, TallyType DEF d
    <2>2. old.count \in Files!Counts
        BY <1>1 DEF Files!ImportState
    <2> QED
        BY <1>3, <2>1, <2>2
<1>5. r \in Files!ImportState
    BY <1>1, <1>3, <1>4 DEF Files!ImportState
<1>6. Tally(old.count) \in Nat /\ Len(old.rows) \in Nat /\ old.total \in Nat
      /\ old.aborted \in BOOLEAN
    <2>1. old.count \in Files!Counts /\ old.rows \in Seq(Files!Row) /\ old.total \in Nat
          /\ old.aborted \in BOOLEAN
        BY <1>1 DEF Files!ImportState
    <2>2. Tally(old.count) \in Nat
        BY <2>1, TallyType
    <2> QED
        BY <1>1, <2>1, <2>2, RestType
<1>7. /\ Tally(old.count) + Len(old.rows) = old.total
      /\ old.count.local <= old.count.errors
      /\ old.aborted => old.count.errors > old.count.local
    BY DEF Sound
<1> HIDE DEF r, old
<1>8. Tally(r.count) + Len(r.rows) = r.total + 1
    BY <1>3, <1>4, <1>6, <1>7
<1>9. r.count.local <= r.count.errors
    BY <1>4, <1>7, <1>k
<1>10. r.aborted => r.count.errors > r.count.local
    BY <1>3, <1>4, <1>6, <1>7, <1>k
<1> QED
    BY <1>1, <1>2, <1>3, <1>5, <1>8, <1>9, <1>10, LeaveStep
LEMMA FilesTyped == ASSUME NEW f \in Files!Files PROVE f \in Seq(Files!Row)
<1>1. PICK n \in 0 .. MaxRows : f \in [1 .. n -> Files!Row]
    BY DEF Files!Files
<1> QED
    BY <1>1, PlatformAssumption

\* The imports change as one import does, and the log and the table do not.
LEMMA OneImport ==
    ASSUME Files!TypeOK, FilesInv, NEW i \in Client,
           imports' \in [Client -> Files!ImportState], Sound(imports'[i]),
           \A j \in Client \ {i} : imports'[j] = imports[j],
           machines' \subseteq Thing, begun' \in Nat, writes' \in Nat, logs' = logs
    PROVE  Files!TypeOK' /\ FilesInv'
<1>1. Files!TypeOK'
    BY DEF Files!TypeOK
<1>2. \A j \in Client : Sound(imports[j])'
    BY DEF FilesInv, Sound
<1>3. Files!ImportHonest'
    BY DEF FilesInv, Files!ImportHonest
<1> QED
    BY <1>1, <1>2, <1>3 DEF FilesInv

LEMMA FilesNext ==
    ASSUME Files!TypeOK, FilesInv, Files!Next
    PROVE  Files!TypeOK' /\ FilesInv'
<1>t. /\ machines \subseteq Thing /\ begun \in Nat /\ writes \in Nat
      /\ \A j \in Client : imports[j] \in Files!ImportState /\ Sound(imports[j])
      /\ imports \in [Client -> Files!ImportState]
    BY DEF Files!TypeOK, FilesInv
<1>1. ASSUME NEW i \in Client, Files!Begin(i)
      PROVE  Files!TypeOK' /\ FilesInv'
    <2>1. PICK f \in Files!Files :
             imports' = [imports EXCEPT ![i] =
                [Files!NoImport EXCEPT !.rows = f, !.total = Len(f),
                                       !.pc = IF f = <<>> THEN "commit" ELSE "find"]]
        BY <1>1 DEF Files!Begin
    <2> DEFINE new == [Files!NoImport EXCEPT !.rows = f, !.total = Len(f),
                                    !.pc = IF f = <<>> THEN "commit" ELSE "find"]
    <2>2. f \in Seq(Files!Row) /\ Len(f) \in Nat
        <3>1. f \in Seq(Files!Row)
            BY FilesTyped
        <3> QED
            BY <3>1, LenProperties
    <2>3. /\ new.rows = f /\ new.total = Len(f) /\ new.count = Files!Zero
          /\ new.aborted = FALSE /\ new.pc = IF f = <<>> THEN "commit" ELSE "find"
        BY DEF Files!NoImport
    <2>4. new \in Files!ImportState
        BY <2>2, NoImportType DEF Files!ImportState
    <2>5. Sound(new)
        BY <2>2, <2>3 DEF Sound, Tally, Files!Zero
    <2> HIDE DEF new
    <2>6. /\ imports' \in [Client -> Files!ImportState] /\ Sound(imports'[i])
          /\ \A j \in Client \ {i} : imports'[j] = imports[j]
        BY <1>t, <2>1, <2>4, <2>5 DEF new
    <2>7. machines' = machines /\ begun' \in Nat /\ writes' = writes /\ logs' = logs
        BY <1>1, <1>t DEF Files!Begin
    <2> QED
        BY <1>t, <2>6, <2>7, OneImport
<1>2. ASSUME NEW i \in Client, Files!FindMachine(i)
      PROVE  Files!TypeOK' /\ FilesInv'
    <2>1. /\ imports[i].pc = "find" /\ UNCHANGED <<machines, begun, writes, logs>>
        BY <1>2 DEF Files!FindMachine
    <2>2. \/ Files!Failed(i, TRUE) \/ Files!Failed(i, FALSE)
          \/ Files!Counted(i, "skipped", imports[i].held)
          \/ \E b \in BOOLEAN :
                imports' = [imports EXCEPT ![i] = [imports[i] EXCEPT !.exists = b, !.pc = "write"]]
        <3> DEFINE head == Files!Head1(i)
        <3>1. CASE head.as = "badIp" \/ imports[i].aborted
            BY <1>2, <3>1 DEF Files!FindMachine
        <3>2. CASE head.as = "SKIP" /\ head.as # "badIp" /\ ~imports[i].aborted
            BY <1>2, <3>2 DEF Files!FindMachine
        <3>3. CASE head.as # "SKIP" /\ head.as # "badIp" /\ ~imports[i].aborted
            <4> DEFINE b == head.host \in machines \cup imports[i].held
            <4>1. imports' = [imports EXCEPT ![i] =
                                 [imports[i] EXCEPT !.exists = b, !.pc = "write"]]
                BY <1>2, <3>3 DEF Files!FindMachine
            <4>2. b \in BOOLEAN
                OBVIOUS
            <4> HIDE DEF b
            <4> QED
                BY <4>1, <4>2
        <3> QED
            BY <3>1, <3>2, <3>3
    <2>3. imports[i].held \in SUBSET Thing
        BY <1>t DEF Files!ImportState
    <2>4. CASE \E b \in BOOLEAN :
                 imports' = [imports EXCEPT ![i] = [imports[i] EXCEPT !.exists = b, !.pc = "write"]]
        <3>1. PICK b \in BOOLEAN :
                 imports' = [imports EXCEPT ![i] = [imports[i] EXCEPT !.exists = b, !.pc = "write"]]
            BY <2>4
        <3> DEFINE old == imports[i]
                   new == [old EXCEPT !.exists = b, !.pc = "write"]
        <3>2. /\ new.rows = old.rows /\ new.total = old.total /\ new.count = old.count
              /\ new.aborted = old.aborted /\ new.pc = "write"
              /\ new \in Files!ImportState
            BY <1>t DEF Files!ImportState
        <3>3. Sound(old) /\ old.pc = "find"
            BY <1>t, <2>1
        <3>4. imports' = [imports EXCEPT ![i] = new]
            BY <3>1
        <3> HIDE DEF old, new
        <3>5. Sound(new)
            BY <3>2, <3>3 DEF Sound
        <3>6. /\ imports' \in [Client -> Files!ImportState] /\ Sound(imports'[i])
              /\ \A j \in Client \ {i} : imports'[j] = imports[j]
            BY <1>t, <3>2, <3>4, <3>5
        <3> QED
            BY <1>t, <2>1, <3>6, OneImport
    <2>5. CASE \/ Files!Failed(i, TRUE) \/ Files!Failed(i, FALSE)
               \/ Files!Counted(i, "skipped", imports[i].held)
        <3>1. /\ imports' \in [Client -> Files!ImportState] /\ Sound(imports'[i])
              /\ \A j \in Client \ {i} : imports'[j] = imports[j]
            BY <1>t, <2>1, <2>3, <2>5, CountedStep, FailedStep
        <3> QED
            BY <1>t, <2>1, <3>1, OneImport
    <2> QED
        BY <2>2, <2>4, <2>5
<1>3. ASSUME NEW i \in Client, Files!WriteMachine(i)
      PROVE  Files!TypeOK' /\ FilesInv'
    <2>1. /\ imports[i].pc = "write" /\ UNCHANGED <<machines, begun, writes, logs>>
        BY <1>3 DEF Files!WriteMachine
    <2>2. /\ imports[i].held \in SUBSET Thing
          /\ Files!Head1(i).host \in Thing
          /\ imports[i].exists \in BOOLEAN
        <3>1. /\ imports[i].rows \in Seq(Files!Row) /\ imports[i].rows # <<>>
              /\ imports[i].held \in SUBSET Thing /\ imports[i].exists \in BOOLEAN
            BY <1>t, <2>1 DEF Files!ImportState, Sound
        <3>2. Files!Head1(i) \in Files!Row
            BY <3>1, RestType DEF Files!Head1
        <3> QED
            BY <3>1, <3>2 DEF Files!Row
    <2> DEFINE more == imports[i].held \cup {Files!Head1(i).host}
    <2>3. more \in SUBSET Thing
        BY <2>2
    <2>4. \/ Files!Counted(i, "skipped", imports[i].held)
          \/ Files!Failed(i, imports[i].exists)
          \/ Files!Counted(i, "updated", more) \/ Files!Counted(i, "created", more)
        BY <1>3 DEF Files!WriteMachine
    <2> HIDE DEF more
    <2>5. /\ imports' \in [Client -> Files!ImportState] /\ Sound(imports'[i])
          /\ \A j \in Client \ {i} : imports'[j] = imports[j]
        BY <1>t, <2>1, <2>2, <2>3, <2>4, CountedStep, FailedStep
    <2> QED
        BY <1>t, <2>1, <2>5, OneImport
<1>4. ASSUME NEW i \in Client, Files!StatementFails(i)
      PROVE  Files!TypeOK' /\ FilesInv'
    <2>1. /\ imports[i].pc \in {"find", "write"} /\ UNCHANGED <<machines, begun, logs>>
          /\ writes' = writes + 1 /\ Files!Failed(i, FALSE)
        BY <1>4 DEF Files!StatementFails
    <2>2. /\ imports' \in [Client -> Files!ImportState] /\ Sound(imports'[i])
          /\ \A j \in Client \ {i} : imports'[j] = imports[j]
        BY <1>t, <2>1, FailedStep
    <2> QED
        BY <1>t, <2>1, <2>2, OneImport
<1>5. ASSUME NEW i \in Client, Files!TimesOut(i)
      PROVE  Files!TypeOK' /\ FilesInv'
    <2>1. /\ imports' = [imports EXCEPT ![i] = Files!NoImport]
          /\ UNCHANGED <<machines, begun, writes, logs>>
        BY <1>5 DEF Files!TimesOut
    <2>2. Sound(Files!NoImport)
        BY DEF Sound, Files!NoImport
    <2>3. /\ imports' \in [Client -> Files!ImportState] /\ Sound(imports'[i])
          /\ \A j \in Client \ {i} : imports'[j] = imports[j]
        BY <1>t, <2>1, <2>2, NoImportType
    <2> QED
        BY <1>t, <2>1, <2>3, OneImport
<1>6. ASSUME NEW i \in Client, Files!Commit(i)
      PROVE  Files!TypeOK' /\ FilesInv'
    <2>1. /\ imports[i].pc = "commit"
          /\ imports' = [imports EXCEPT ![i] = [imports[i] EXCEPT !.pc = "log"]]
          /\ UNCHANGED <<begun, writes, logs>>
        BY <1>6 DEF Files!Commit
    <2>2. machines' \subseteq Thing
        <3>1. imports[i].held \subseteq Thing
            BY <1>t DEF Files!ImportState
        <3> QED
            BY <1>6, <1>t, <3>1 DEF Files!Commit
    <2> DEFINE old == imports[i]
               new == [old EXCEPT !.pc = "log"]
    <2>3. /\ new.rows = old.rows /\ new.total = old.total /\ new.count = old.count
          /\ new.aborted = old.aborted /\ new.pc = "log"
          /\ new \in Files!ImportState
        BY <1>t DEF Files!ImportState
    <2>4. Sound(old) /\ old.pc = "commit" /\ imports' = [imports EXCEPT ![i] = new]
        BY <1>t, <2>1
    <2> HIDE DEF old, new
    <2>5. Sound(new)
        BY <2>3, <2>4 DEF Sound
    <2>6. /\ imports' \in [Client -> Files!ImportState] /\ Sound(imports'[i])
          /\ \A j \in Client \ {i} : imports'[j] = imports[j]
        BY <1>t, <2>3, <2>4, <2>5
    <2> QED
        BY <1>t, <2>1, <2>2, <2>6, OneImport
<1>7. ASSUME NEW i \in Client, Files!SaveLog(i)
      PROVE  Files!TypeOK' /\ FilesInv'
    <2> DEFINE old == imports[i]
               l == [count |-> old.count, total |-> old.total, claimed |-> old.held,
                     wrote |-> IF old.aborted THEN {} ELSE old.held]
    <2>1. /\ old.pc = "log" /\ logs' = logs \cup {l}
          /\ imports' = [imports EXCEPT ![i] = Files!NoImport]
          /\ UNCHANGED <<machines, begun, writes>>
        BY <1>7 DEF Files!SaveLog
    <2>2. old \in Files!ImportState /\ Sound(old)
        BY <1>t
    <2>3. Files!TypeOK'
        <3>1. l \in Files!Log
            BY <2>2 DEF Files!ImportState, Files!Log
        <3> QED
            BY <1>t, <2>1, <3>1, NoImportType DEF Files!TypeOK
    <2>4. \A j \in Client : Sound(imports[j])'
        <3>1. \A j \in Client : Sound(imports'[j])
            BY <1>t, <2>1 DEF Sound, Files!NoImport
        <3> QED
            BY <3>1 DEF Sound
    <2>5. /\ Tally(old.count) = old.total
          /\ old.aborted => old.count.errors > old.count.local
        <3>1. Tally(old.count) + Len(old.rows) = old.total /\ old.rows = <<>>
              /\ (old.aborted => old.count.errors > old.count.local)
            BY <2>1, <2>2 DEF Sound
        <3>2. Tally(old.count) \in Nat
            BY <2>2, TallyType DEF Files!ImportState
        <3> QED
            BY <3>1, <3>2
    <2>6. /\ l.count.created + l.count.updated + l.count.skipped + l.count.errors = l.total
          /\ l.wrote # l.claimed => l.wrote = {} /\ l.count.errors > l.count.local
        BY <2>5 DEF Tally
    <2> HIDE DEF l, old
    <2>7. Files!ImportHonest'
        BY <2>1, <2>6 DEF FilesInv, Files!ImportHonest
    <2> QED
        BY <2>3, <2>4, <2>7 DEF FilesInv
<1>8. ASSUME NEW h \in Thing, Files!WriteElsewhere(h)
      PROVE  Files!TypeOK' /\ FilesInv'
    <2>1. machines' \subseteq Thing /\ writes' \in Nat /\ UNCHANGED <<imports, begun, logs>>
        BY <1>8, <1>t DEF Files!WriteElsewhere
    <2>2. Files!TypeOK'
        BY <2>1 DEF Files!TypeOK
    <2> QED
        BY <2>1, <2>2 DEF FilesInv, Sound, Files!ImportHonest
<1> QED
    BY <1>1, <1>2, <1>3, <1>4, <1>5, <1>6, <1>7, <1>8 DEF Files!Next

LEMMA FilesStep ==
    ASSUME Files!TypeOK, FilesInv, Files!Next \/ UNCHANGED fileVars
    PROVE  Files!TypeOK' /\ FilesInv'
<1>1. CASE UNCHANGED fileVars
    BY <1>1 DEF fileVars, Files!TypeOK, FilesInv, Sound, Files!ImportHonest
<1> QED
    BY <1>1, FilesNext

-----------------------------------------------------------------------------
(* The monitoring of a host: Monitoring.                                   *)

\* What was found when an ingestion looked for a standing anomaly is still
\* true of the anomalies that were there: they are resolved or too old.
Looked(r) ==
    r.pc = "record" =>
        /\ r.seen <= Len(anomalies)
        /\ \A a \in DOMAIN anomalies :
              a <= r.seen => anomalies[a].resolved \/ time - anomalies[a].at > Recent

\* An outage that was raised and has not been excused is still in the status.
HostsInv ==
    /\ raised.open /\ ~raised.excused => hostStatus = "OFFLINE"
    /\ \A i \in Client : Looked(ingest[i])
    /\ Hosts!AnomalyOnce

IngestState == [pc : {"idle", "read", "write", "search", "record"},
                sample : Hosts!Sample, was : Hosts!HostStatus, seen : Nat]

LEMMA NoIngestType ==
    /\ Hosts!NoSample \in Hosts!Sample
    /\ Hosts!NoIngest \in IngestState
    /\ Hosts!NoIngest.pc = "idle"
BY DEF Hosts!NoSample, Hosts!Sample, Hosts!NoIngest, IngestState, Hosts!HostStatus

LEMMA HostsInit == Hosts!Init => Hosts!TypeOK /\ HostsInv
<1> SUFFICES ASSUME Hosts!Init PROVE Hosts!TypeOK /\ HostsInv
    OBVIOUS
<1>1. /\ up = TRUE /\ hasPort \in BOOLEAN /\ hostStatus = "ONLINE" /\ anomalies = <<>>
      /\ cycle = [pc |-> "idle", sample |-> Hosts!NoSample, port |-> FALSE]
      /\ ingest = [i \in Client |-> Hosts!NoIngest]
      /\ time = 0 /\ cycles = 0 /\ outside = 0
      /\ raised = [open |-> FALSE, excused |-> FALSE]
    BY DEF Hosts!Init
<1>2. Hosts!TypeOK
    BY <1>1, NoIngestType DEF Hosts!TypeOK, IngestState, Hosts!HostStatus
<1>3. HostsInv
    BY <1>1, NoIngestType DEF HostsInv, Looked, Hosts!AnomalyOnce
<1> QED
    BY <1>2, <1>3

RaisedState == [open : BOOLEAN, excused : BOOLEAN]

LEMMA RaisedType ==
    ASSUME NEW r \in RaisedState, NEW e \in BOOLEAN
    PROVE  /\ [r EXCEPT !.open = FALSE] \in RaisedState
           /\ [r EXCEPT !.excused = e] \in RaisedState
           /\ [open |-> TRUE, excused |-> e] \in RaisedState
BY DEF RaisedState

LEMMA HostsTypeNext ==
    ASSUME Hosts!TypeOK, Hosts!Next
    PROVE  Hosts!TypeOK'
<1>t. /\ up \in BOOLEAN /\ hasPort \in BOOLEAN
      /\ hostStatus \in Hosts!HostStatus
      /\ anomalies \in Seq(Hosts!Anomaly)
      /\ cycle \in [pc : {"idle", "probe", "post", "wait"}, sample : Hosts!Sample,
                    port : BOOLEAN]
      /\ ingest \in [Client -> IngestState]
      /\ time \in Nat /\ cycles \in Nat /\ outside \in Nat
      /\ raised \in RaisedState
    BY DEF Hosts!TypeOK, RaisedState, IngestState
<1> DEFINE T == Hosts!TypeOK'
<1>1. ASSUME Hosts!FetchMachines PROVE T
    BY <1>1, <1>t, NoIngestType DEF Hosts!FetchMachines, Hosts!TypeOK, RaisedState, IngestState
<1>2. ASSUME Hosts!CollectMachineMetrics PROVE T
    <2>1. PICK s \in Hosts!Sample : cycle' = [cycle EXCEPT !.sample = s, !.pc = "post"]
        BY <1>2 DEF Hosts!CollectMachineMetrics
    <2> QED
        BY <1>2, <1>t, <2>1 DEF Hosts!CollectMachineMetrics, Hosts!TypeOK, RaisedState, IngestState,
                                Hosts!limits
<1>3. ASSUME Hosts!PostSamples PROVE T
    <2>1. /\ cycle' \in [pc : {"idle", "probe", "post", "wait"}, sample : Hosts!Sample,
                         port : BOOLEAN]
          /\ UNCHANGED <<up, hasPort, hostStatus, anomalies, time, cycles, outside, raised>>
        BY <1>3, <1>t DEF Hosts!PostSamples, Hosts!limits
    <2>2. ingest' \in [Client -> IngestState]
        <3>1. CASE UNCHANGED ingest
            BY <1>t, <3>1
        <3>2. CASE \E i \in Client : ingest' = [ingest EXCEPT ![i] =
                      [Hosts!NoIngest EXCEPT !.pc = "read", !.sample = cycle.sample]]
            <4>1. [Hosts!NoIngest EXCEPT !.pc = "read", !.sample = cycle.sample]
                     \in IngestState
                BY <1>t, NoIngestType DEF IngestState
            <4> QED
                BY <1>t, <3>2, <4>1
        <3> QED
            BY <1>3, <3>1, <3>2 DEF Hosts!PostSamples
    <2> QED
        BY <1>t, <2>1, <2>2 DEF Hosts!TypeOK, RaisedState, IngestState
<1>4. ASSUME Hosts!PostEnds PROVE T
    BY <1>4, <1>t DEF Hosts!PostEnds, Hosts!TypeOK, RaisedState, IngestState, Hosts!limits
<1>5. ASSUME NEW i \in Client, Hosts!ReadMachine(i) PROVE T
    <2>1. PICK p \in {"write", "search", "idle"} :
             ingest' = [ingest EXCEPT ![i] = [ingest[i] EXCEPT !.was = hostStatus, !.pc = p]]
        BY <1>5 DEF Hosts!ReadMachine
    <2>2. [ingest[i] EXCEPT !.was = hostStatus, !.pc = p] \in IngestState
        BY <1>t DEF IngestState
    <2>3. ingest' \in [Client -> IngestState]
        BY <1>t, <2>1, <2>2
    <2> QED
        BY <1>5, <1>t, <2>3 DEF Hosts!ReadMachine, Hosts!TypeOK, RaisedState, IngestState, Hosts!limits
<1>6. ASSUME NEW i \in Client, Hosts!WriteMachine(i) PROVE T
    <2>1. PICK p \in {"search", "idle"} :
             ingest' = [ingest EXCEPT ![i] = [ingest[i] EXCEPT !.pc = p]]
        BY <1>6 DEF Hosts!WriteMachine
    <2>2. [ingest[i] EXCEPT !.pc = p] \in IngestState
        BY <1>t DEF IngestState
    <2>3. ingest' \in [Client -> IngestState]
        BY <1>t, <2>1, <2>2
    <2>4. hostStatus' \in Hosts!HostStatus
        BY <1>6 DEF Hosts!WriteMachine, Hosts!NewMachineStatus, Hosts!HostStatus
    <2>5. raised' \in RaisedState
        <3> DEFINE s == ingest[i].sample
                   stale == hostStatus # ingest[i].was
                   e == raised.excused \/ stale \/ Hosts!NewMachineStatus(s) = "WARNING"
        <3>1. /\ stale \in BOOLEAN /\ e \in BOOLEAN
            OBVIOUS
        <3>2. \/ raised' = [open |-> TRUE, excused |-> stale]
              \/ raised' = [raised EXCEPT !.open = FALSE]
              \/ raised' = [raised EXCEPT !.excused = e]
            BY <1>6 DEF Hosts!WriteMachine
        <3> HIDE DEF stale, e
        <3> QED
            BY <1>t, <3>1, <3>2, RaisedType
    <2> QED
        BY <1>6, <1>t, <2>3, <2>4, <2>5 DEF Hosts!WriteMachine, Hosts!TypeOK, RaisedState, IngestState,
                                            Hosts!limits
<1>7. ASSUME NEW i \in Client, Hosts!SearchAnomaly(i) PROVE T
    <2>1. Len(anomalies) \in Nat
        BY <1>t, LenProperties
    <2>2. [ingest[i] EXCEPT !.pc = "record", !.seen = Len(anomalies)] \in IngestState
        BY <1>t, <2>1 DEF IngestState
    <2>3. ingest' \in [Client -> IngestState]
        BY <1>7, <1>t, <2>2, NoIngestType DEF Hosts!SearchAnomaly
    <2> QED
        BY <1>7, <1>t, <2>3 DEF Hosts!SearchAnomaly, Hosts!TypeOK, RaisedState, IngestState, Hosts!limits
<1>8. ASSUME NEW i \in Client, Hosts!RecordAnomaly(i) PROVE T
    <2>1. [at |-> time, resolved |-> FALSE, seen |-> ingest[i].seen] \in Hosts!Anomaly
        BY <1>t DEF IngestState, Hosts!Anomaly
    <2>2. anomalies' \in Seq(Hosts!Anomaly)
        BY <1>8, <1>t, <2>1, AppendProperties DEF Hosts!RecordAnomaly
    <2>3. ingest' \in [Client -> IngestState]
        BY <1>8, <1>t, NoIngestType DEF Hosts!RecordAnomaly
    <2> QED
        BY <1>8, <1>t, <2>2, <2>3 DEF Hosts!RecordAnomaly, Hosts!TypeOK, RaisedState, IngestState,
                                      Hosts!limits
<1>9. ASSUME NEW i \in Client, Hosts!IngestThrows(i) PROVE T
    BY <1>9, <1>t, NoIngestType DEF Hosts!IngestThrows, Hosts!TypeOK, RaisedState, IngestState
<1>10. ASSUME NEW a \in DOMAIN anomalies, Hosts!ResolveAnomaly(a) PROVE T
    <2>1. anomalies' = [anomalies EXCEPT ![a] = [anomalies[a] EXCEPT !.resolved = TRUE]]
        BY <1>10 DEF Hosts!ResolveAnomaly
    <2>2. anomalies[a] \in Hosts!Anomaly
        BY <1>t, ElementOfSeq
    <2>3. [anomalies[a] EXCEPT !.resolved = TRUE] \in Hosts!Anomaly
        BY <2>2 DEF Hosts!Anomaly
    <2>4. anomalies' \in Seq(Hosts!Anomaly)
        BY <1>t, <2>1, <2>3, ExceptSeq
    <2> QED
        BY <1>10, <1>t, <2>4 DEF Hosts!ResolveAnomaly, Hosts!TypeOK, RaisedState, IngestState, Hosts!limits
<1>11. ASSUME Hosts!HostChanges PROVE T
    BY <1>11, <1>t DEF Hosts!HostChanges, Hosts!TypeOK, RaisedState, IngestState, Hosts!limits
<1>12. ASSUME Hosts!WriteStatus PROVE T
    <2>1. /\ UNCHANGED <<up, hasPort, anomalies, cycle, ingest, time, cycles>>
          /\ outside' = outside + 1 /\ hostStatus' \in Hosts!HostStatus
          /\ raised' = [raised EXCEPT !.excused = TRUE]
        BY <1>12 DEF Hosts!WriteStatus
    <2>2. raised' \in RaisedState
        BY <1>t, <2>1, RaisedType
    <2> QED
        BY <1>t, <2>1, <2>2 DEF Hosts!TypeOK, RaisedState, IngestState
<1>13. ASSUME Hosts!Tick PROVE T
    BY <1>13, <1>t DEF Hosts!Tick, Hosts!TypeOK, RaisedState, IngestState, Hosts!monitored
<1> QED
    BY <1>1, <1>2, <1>3, <1>4, <1>5, <1>6, <1>7, <1>8, <1>9, <1>10, <1>11, <1>12, <1>13
       DEF Hosts!Next
\* The anomalies and the clock stand still, or time only passes.
LEMMA LookedStays ==
    ASSUME Hosts!TypeOK, NEW i \in Client, Looked(ingest[i]),
           anomalies' = anomalies, time' \in Nat, time' >= time, ingest'[i] = ingest[i]
    PROVE  Looked(ingest[i])'
<1>1. \A a \in DOMAIN anomalies : anomalies[a].at \in Nat
    <2> TAKE a \in DOMAIN anomalies
    <2>1. anomalies \in Seq(Hosts!Anomaly)
        BY DEF Hosts!TypeOK
    <2>2. anomalies[a] \in Hosts!Anomaly
        BY <2>1, LenProperties, ElementOfSeq
    <2> QED
        BY <2>2 DEF Hosts!Anomaly
<1>2. time \in Nat
    BY DEF Hosts!TypeOK
<1> QED
    BY <1>1, <1>2, PlatformAssumption DEF Looked

LEMMA HostsNext ==
    ASSUME Hosts!TypeOK, HostsInv, Hosts!Next
    PROVE  HostsInv'
<1>t. /\ hostStatus \in Hosts!HostStatus
      /\ anomalies \in Seq(Hosts!Anomaly)
      /\ ingest \in [Client -> IngestState]
      /\ cycle \in [pc : {"idle", "probe", "post", "wait"}, sample : Hosts!Sample,
                    port : BOOLEAN]
      /\ time \in Nat
      /\ raised \in RaisedState
      /\ Len(anomalies) \in Nat /\ DOMAIN anomalies = 1 .. Len(anomalies)
    <2>1. anomalies \in Seq(Hosts!Anomaly)
        BY DEF Hosts!TypeOK
    <2> QED
        BY <2>1, LenProperties DEF Hosts!TypeOK, IngestState, RaisedState
<1>a. ASSUME NEW a \in DOMAIN anomalies PROVE anomalies[a] \in Hosts!Anomaly
    BY <1>t, ElementOfSeq
<1> DEFINE
       Still == raised' = raised /\ hostStatus' = hostStatus
       Kept  == anomalies' = anomalies /\ time' = time
<1>h. /\ raised.open /\ ~raised.excused => hostStatus = "OFFLINE"
      /\ \A i \in Client : Looked(ingest[i])
      /\ Hosts!AnomalyOnce
    BY DEF HostsInv
\* What a step has to show, part by part.
<1>p. ASSUME raised'.open /\ ~raised'.excused => hostStatus' = "OFFLINE",
             \A i \in Client : Looked(ingest[i])',
             Hosts!AnomalyOnce'
      PROVE  HostsInv'
    BY <1>p DEF HostsInv
<1>o. ASSUME anomalies' = anomalies PROVE Hosts!AnomalyOnce'
    BY <1>o, <1>h DEF Hosts!AnomalyOnce
\* One ingestion changes, and the anomalies do not.
<1>i. ASSUME Kept, NEW i \in Client, NEW r \in IngestState,
             ingest' = [ingest EXCEPT ![i] = r], r.pc # "record"
      PROVE  \A j \in Client : Looked(ingest[j])'
    <2> TAKE j \in Client
    <2>1. CASE j = i
        BY <1>i, <1>t, <2>1 DEF Looked
    <2>2. CASE j # i
        <3>1. ingest'[j] = ingest[j]
            BY <1>i, <1>t, <2>2
        <3> QED
            BY <1>h, <1>i, <1>t, <3>1, LookedStays
    <2> QED
        BY <2>1, <2>2
\* None does.
<1>n. ASSUME Kept, ingest' = ingest
      PROVE  \A j \in Client : Looked(ingest[j])'
    BY <1>h, <1>n, <1>t, LookedStays
<1>1. ASSUME Hosts!FetchMachines PROVE HostsInv'
    <2>1. Still /\ Kept /\ ingest' = ingest
        BY <1>1 DEF Hosts!FetchMachines
    <2> QED
        BY <1>h, <1>n, <1>o, <1>p, <2>1
<1>2. ASSUME Hosts!CollectMachineMetrics PROVE HostsInv'
    <2>1. Still /\ Kept /\ ingest' = ingest
        BY <1>2 DEF Hosts!CollectMachineMetrics, Hosts!limits
    <2> QED
        BY <1>h, <1>n, <1>o, <1>p, <2>1
<1>3. ASSUME Hosts!PostSamples PROVE HostsInv'
    <2>1. Still /\ Kept
        BY <1>3 DEF Hosts!PostSamples, Hosts!limits
    <2>2. \A j \in Client : Looked(ingest[j])'
        <3>1. CASE UNCHANGED ingest
            BY <1>n, <2>1, <3>1
        <3>2. CASE \E i \in Client : ingest' = [ingest EXCEPT ![i] =
                      [Hosts!NoIngest EXCEPT !.pc = "read", !.sample = cycle.sample]]
            <4> DEFINE r == [Hosts!NoIngest EXCEPT !.pc = "read", !.sample = cycle.sample]
            <4>1. r \in IngestState /\ r.pc = "read"
                BY <1>t, NoIngestType DEF IngestState
            <4>2. PICK i \in Client : ingest' = [ingest EXCEPT ![i] = r]
                BY <3>2
            <4> HIDE DEF r
            <4> QED
                BY <1>h, <1>i, <2>1, <4>1, <4>2
        <3> QED
            BY <1>3, <3>1, <3>2 DEF Hosts!PostSamples
    <2> QED
        BY <1>h, <1>o, <1>p, <2>1, <2>2
<1>4. ASSUME Hosts!PostEnds PROVE HostsInv'
    <2>1. Still /\ Kept /\ ingest' = ingest
        BY <1>4, <1>t DEF Hosts!PostEnds, Hosts!limits
    <2> QED
        BY <1>h, <1>n, <1>o, <1>p, <2>1
<1>5. ASSUME NEW i \in Client, Hosts!ReadMachine(i) PROVE HostsInv'
    <2>1. Still /\ Kept
        BY <1>5 DEF Hosts!ReadMachine, Hosts!limits
    <2>2. PICK q \in {"write", "search", "idle"} :
             ingest' = [ingest EXCEPT ![i] = [ingest[i] EXCEPT !.was = hostStatus, !.pc = q]]
        BY <1>5 DEF Hosts!ReadMachine
    <2> DEFINE r == [ingest[i] EXCEPT !.was = hostStatus, !.pc = q]
    <2>3. r \in IngestState /\ r.pc # "record"
        BY <1>t DEF IngestState
    <2>4. ingest' = [ingest EXCEPT ![i] = r]
        BY <2>2
    <2> HIDE DEF r
    <2> QED
        BY <1>h, <1>i, <1>o, <1>p, <2>1, <2>3, <2>4
<1>6. ASSUME NEW i \in Client, Hosts!WriteMachine(i) PROVE HostsInv'
    <2>1. Kept
        BY <1>6 DEF Hosts!WriteMachine, Hosts!limits
    <2>2. PICK q \in {"search", "idle"} :
             ingest' = [ingest EXCEPT ![i] = [ingest[i] EXCEPT !.pc = q]]
        BY <1>6 DEF Hosts!WriteMachine
    <2> DEFINE r == [ingest[i] EXCEPT !.pc = q]
    <2>3. r \in IngestState /\ r.pc # "record"
        BY <1>t DEF IngestState
    <2>4. ingest' = [ingest EXCEPT ![i] = r]
        BY <2>2
    <2> HIDE DEF r
    <2> DEFINE s == ingest[i].sample
               new == Hosts!NewMachineStatus(s)
               stale == hostStatus # ingest[i].was
               e == raised.excused \/ stale \/ new = "WARNING"
    <2>5. /\ hostStatus' = new
          /\ \/ new = "OFFLINE" /\ raised' = [open |-> TRUE, excused |-> stale]
             \/ /\ new = "ONLINE" /\ ingest[i].was = "OFFLINE"
                /\ raised' = [raised EXCEPT !.open = FALSE]
             \/ /\ new # "OFFLINE" /\ ~(new = "ONLINE" /\ ingest[i].was = "OFFLINE")
                /\ raised' = [raised EXCEPT !.excused = e]
        BY <1>6 DEF Hosts!WriteMachine, Hosts!Recovered
    <2>6. new \in {"ONLINE", "WARNING", "OFFLINE"}
        BY DEF Hosts!NewMachineStatus
    <2> HIDE DEF new, s
    <2>7. raised'.open /\ ~raised'.excused => hostStatus' = "OFFLINE"
        <3>1. CASE new = "OFFLINE"
            BY <2>5, <3>1
        <3>2. CASE raised' = [raised EXCEPT !.open = FALSE]
            BY <1>t, <3>2 DEF RaisedState
        <3>3. CASE /\ new # "OFFLINE" /\ ~(new = "ONLINE" /\ ingest[i].was = "OFFLINE")
                   /\ raised' = [raised EXCEPT !.excused = e]
            <4>1. raised'.open = raised.open /\ raised'.excused = e
                BY <1>t, <3>3 DEF RaisedState
            <4> QED
                BY <1>h, <2>6, <3>3, <4>1
        <3> QED
            BY <2>5, <3>1, <3>2, <3>3
    <2> QED
        BY <1>h, <1>i, <1>o, <1>p, <2>1, <2>3, <2>4, <2>7
<1>7. ASSUME NEW i \in Client, Hosts!SearchAnomaly(i) PROVE HostsInv'
    <2>1. Still /\ Kept
        BY <1>7 DEF Hosts!SearchAnomaly, Hosts!limits
    <2>2. CASE ingest' = [ingest EXCEPT ![i] = Hosts!NoIngest]
        BY <1>h, <1>i, <1>o, <1>p, <2>1, <2>2, NoIngestType
    <2>3. CASE /\ \A a \in DOMAIN anomalies : ~Hosts!Current(a)
               /\ ingest' = [ingest EXCEPT ![i] =
                     [ingest[i] EXCEPT !.pc = "record", !.seen = Len(anomalies)]]
        <3> DEFINE r == [ingest[i] EXCEPT !.pc = "record", !.seen = Len(anomalies)]
        <3>1. r.pc = "record" /\ r.seen = Len(anomalies)
            BY <1>t DEF IngestState
        <3>2. ingest'[i] = r /\ \A j \in Client \ {i} : ingest'[j] = ingest[j]
            BY <1>t, <2>3
        <3> HIDE DEF r
        <3>3. \A a \in DOMAIN anomalies :
                 anomalies[a].resolved \/ time - anomalies[a].at > Recent
            <4> TAKE a \in DOMAIN anomalies
            <4>1. anomalies[a].at \in Nat
                BY <1>a DEF Hosts!Anomaly
            <4> QED
                BY <1>t, <2>3, <4>1, PlatformAssumption DEF Hosts!Current
        <3>4. Looked(ingest[i])'
            BY <1>t, <2>1, <3>1, <3>2, <3>3 DEF Looked
        <3>5. \A j \in Client : Looked(ingest[j])'
            <4> TAKE j \in Client
            <4>1. CASE j = i
                BY <1>h, <3>1, <3>2, <3>4, <4>1
            <4>2. CASE j # i
                <5>1. ingest'[j] = ingest[j]
                    BY <3>2, <4>2
                <5> QED
                    BY <1>h, <1>t, <2>1, <5>1, LookedStays
            <4> QED
                BY <4>1, <4>2
        <3> QED
            BY <1>h, <1>o, <1>p, <2>1, <3>5
    <2> QED
        BY <1>7, <2>2, <2>3 DEF Hosts!SearchAnomaly
<1>8. ASSUME NEW i \in Client, Hosts!RecordAnomaly(i) PROVE HostsInv'
    <2> DEFINE new == [at |-> time, resolved |-> FALSE, seen |-> ingest[i].seen]
               n == Len(anomalies)
    <2>1. /\ Still /\ time' = time /\ ingest[i].pc = "record"
          /\ anomalies' = Append(anomalies, new)
          /\ ingest' = [ingest EXCEPT ![i] = Hosts!NoIngest]
        BY <1>8 DEF Hosts!RecordAnomaly, Hosts!limits
    <2>2. new \in Hosts!Anomaly
        BY <1>t DEF IngestState, Hosts!Anomaly
    <2>3. /\ new.at = time /\ new.seen = ingest[i].seen /\ new.seen \in Nat
        BY <2>2 DEF Hosts!Anomaly
    <2> HIDE DEF new
    <2>4. /\ anomalies' \in Seq(Hosts!Anomaly) /\ Len(anomalies') = n + 1
          /\ anomalies'[n + 1] = new
          /\ \A a \in 1 .. n : anomalies'[a] = anomalies[a]
        BY <1>t, <2>1, <2>2, AppendProperties
    <2>5. DOMAIN anomalies' = 1 .. n + 1
        BY <2>4, LenProperties
    <2>6. Hosts!AnomalyOnce'
        <3> SUFFICES ASSUME NEW a \in 1 .. n + 1, NEW b \in 1 .. n + 1,
                            a < b, ~anomalies'[a].resolved, ~anomalies'[b].resolved,
                            anomalies'[b].at - anomalies'[a].at <= Recent
                     PROVE  anomalies'[b].seen < a
            BY <2>5 DEF Hosts!AnomalyOnce
        <3>1. a \in 1 .. n /\ anomalies'[a] = anomalies[a] /\ anomalies[a].at \in Nat
            <4>1. a \in 1 .. n
                BY <1>t
            <4> QED
                BY <1>a, <1>t, <2>4, <4>1 DEF Hosts!Anomaly
        <3>2. CASE b \in 1 .. n
            BY <1>h, <1>t, <2>4, <3>1, <3>2 DEF Hosts!AnomalyOnce
        <3>3. CASE b = n + 1
            <4>1. Looked(ingest[i])
                BY <1>h
            <4>2. ~(a <= ingest[i].seen)
                BY SMTT(40), <1>t, <2>1, <2>3, <2>4, <3>1, <3>3, <4>1, PlatformAssumption DEF Looked
            <4> QED
                BY <2>3, <2>4, <3>1, <3>3, <4>2
        <3> QED
            BY <1>t, <3>2, <3>3
    <2>7. \A j \in Client : Looked(ingest[j])'
        <3> TAKE j \in Client
        <3>1. CASE j = i
            <4>1. ingest'[j] = Hosts!NoIngest
                BY <1>t, <2>1, <3>1
            <4> QED
                BY <4>1, NoIngestType DEF Looked
        <3>2. CASE j # i
            <4>1. ingest'[j] = ingest[j] /\ ingest[j].seen \in Nat
                BY <1>t, <2>1, <3>2 DEF IngestState
            <4>2. Looked(ingest[j])
                BY <1>h
            <4>3. ASSUME ingest[j].pc = "record"
                  PROVE  /\ ingest[j].seen <= n + 1
                         /\ \A a \in 1 .. n + 1 : a <= ingest[j].seen =>
                               anomalies'[a].resolved \/ time - anomalies'[a].at > Recent
                <5>1. /\ ingest[j].seen <= n
                      /\ \A a \in 1 .. n : a <= ingest[j].seen =>
                            anomalies[a].resolved \/ time - anomalies[a].at > Recent
                    BY <1>t, <4>2, <4>3 DEF Looked
                <5> QED
                    BY <1>t, <2>4, <4>1, <5>1
            <4> QED
                BY <2>1, <2>4, <2>5, <4>1, <4>2, <4>3 DEF Looked
        <3> QED
            BY <3>1, <3>2
    <2> QED
        BY <1>h, <1>p, <2>1, <2>6, <2>7
<1>9. ASSUME NEW i \in Client, Hosts!IngestThrows(i) PROVE HostsInv'
    <2>1. Still /\ Kept /\ ingest' = [ingest EXCEPT ![i] = Hosts!NoIngest]
        BY <1>9 DEF Hosts!IngestThrows
    <2> QED
        BY <1>h, <1>i, <1>o, <1>p, <2>1, NoIngestType
<1>10. ASSUME NEW a \in DOMAIN anomalies, Hosts!ResolveAnomaly(a) PROVE HostsInv'
    <2> DEFINE new == [anomalies[a] EXCEPT !.resolved = TRUE]
    <2>1. /\ Still /\ time' = time /\ ingest' = ingest
          /\ anomalies' = [anomalies EXCEPT ![a] = new]
        BY <1>10 DEF Hosts!ResolveAnomaly, Hosts!limits
    <2>2. /\ new.resolved /\ new.at = anomalies[a].at /\ new.seen = anomalies[a].seen
          /\ new \in Hosts!Anomaly
        BY <1>a DEF Hosts!Anomaly
    <2> HIDE DEF new
    <2>3. /\ Len(anomalies') = Len(anomalies) /\ DOMAIN anomalies' = DOMAIN anomalies
          /\ \A b \in DOMAIN anomalies : anomalies'[b] = IF b = a THEN new ELSE anomalies[b]
        BY <1>t, <2>1, <2>2, ExceptSeq
    <2>4. \A b \in DOMAIN anomalies :
             /\ anomalies'[b].at = anomalies[b].at /\ anomalies'[b].seen = anomalies[b].seen
             /\ ~anomalies'[b].resolved => ~anomalies[b].resolved
        BY <2>2, <2>3
    <2>5. Hosts!AnomalyOnce'
        BY <1>h, <2>3, <2>4 DEF Hosts!AnomalyOnce
    <2>6. \A j \in Client : Looked(ingest[j])'
        <3> TAKE j \in Client
        <3>1. Looked(ingest[j])
            BY <1>h
        <3> QED
            BY <2>1, <2>3, <2>4, <3>1 DEF Looked
    <2> QED
        BY <1>h, <1>p, <2>1, <2>5, <2>6
<1>11. ASSUME Hosts!HostChanges PROVE HostsInv'
    <2>1. Still /\ Kept /\ ingest' = ingest
        BY <1>11 DEF Hosts!HostChanges, Hosts!limits
    <2> QED
        BY <1>h, <1>n, <1>o, <1>p, <2>1
<1>12. ASSUME Hosts!WriteStatus PROVE HostsInv'
    <2>1. /\ Kept /\ ingest' = ingest
          /\ raised' = [raised EXCEPT !.excused = TRUE]
        BY <1>12 DEF Hosts!WriteStatus
    <2>2. raised'.excused
        BY <1>t, <2>1 DEF RaisedState
    <2> QED
        BY <1>h, <1>n, <1>o, <1>p, <2>1, <2>2
<1>13. ASSUME Hosts!Tick PROVE HostsInv'
    <2>1. /\ Still /\ anomalies' = anomalies /\ time' = time + 1 
          /\ ingest' = ingest
        BY <1>13 DEF Hosts!Tick, Hosts!monitored
    <2>2. \A j \in Client : Looked(ingest[j])'
        BY <1>h, <1>t, <2>1, LookedStays
    <2> QED
        BY <1>h, <1>o, <1>p, <2>1, <2>2
<1> QED
    BY <1>1, <1>2, <1>3, <1>4, <1>5, <1>6, <1>7, <1>8, <1>9, <1>10, <1>11, <1>12, <1>13
       DEF Hosts!Next

LEMMA HostsStep ==
    ASSUME Hosts!TypeOK, HostsInv, Hosts!Next \/ UNCHANGED hostVars
    PROVE  Hosts!TypeOK' /\ HostsInv'
<1>1. CASE UNCHANGED hostVars
    BY <1>1 DEF hostVars, Hosts!TypeOK, HostsInv, Looked, Hosts!AnomalyOnce
<1> QED
    BY <1>1, HostsTypeNext, HostsNext

-----------------------------------------------------------------------------
(* The locations: Locations.                                               *)

\* What is reached from l along f: Sites!Above(l) is Up(parent, l).
Closed(f, S) == \A x \in S : {f[x]} \cap Place \subseteq S
Up(f, l)     == {a \in Place : \A S \in SUBSET Place : l \in S /\ Closed(f, S) => a \in S}

LEMMA UpFacts ==
    ASSUME NEW f, NEW l \in Place
    PROVE  /\ l \in Up(f, l) /\ Up(f, l) \in SUBSET Place /\ Closed(f, Up(f, l))
           /\ \A S \in SUBSET Place : l \in S /\ Closed(f, S) => Up(f, l) \subseteq S
<1>1. Closed(f, Up(f, l))
    <2> SUFFICES ASSUME NEW x \in Up(f, l), f[x] \in Place PROVE f[x] \in Up(f, l)
        BY DEF Closed
    <2> SUFFICES ASSUME NEW S \in SUBSET Place, l \in S, Closed(f, S) PROVE f[x] \in S
        BY DEF Up
    <2>1. x \in S
        BY DEF Up
    <2> QED
        BY <2>1 DEF Closed
<1> QED
    BY <1>1 DEF Up

\* What lies above a location does not depend on the parents of the others.
LEMMA UpAgrees ==
    ASSUME NEW f, NEW g, NEW l \in Place, \A x \in Up(f, l) : g[x] = f[x]
    PROVE  Up(g, l) = Up(f, l)
<1>1. Up(g, l) \subseteq Up(f, l)
    <2>1. Closed(g, Up(f, l))
        BY UpFacts DEF Closed
    <2> QED
        BY <2>1, UpFacts
<1>2. Up(f, l) \subseteq Up(g, l)
    <2>1. Closed(f, Up(g, l))
        BY <1>1, UpFacts DEF Closed
    <2> QED
        BY <2>1, UpFacts
<1> QED
    BY <1>1, <1>2

LEMMA UpWithin ==
    ASSUME NEW f, NEW l \in Place, NEW p \in Up(f, l)
    PROVE  Up(f, p) \subseteq Up(f, l)
BY UpFacts

\* A location is shown, or one that was moved below itself lies above it.
Placed(f, moved, l) ==
    (\E a \in Up(f, l) : f[a] \notin Place) \/ Up(f, l) \cap moved # {}

\* Parents are there, a location is never moved to itself, and what is there is
\* placed.
SitesInv ==
    /\ \A l \in Place : parent[l] \in Place => parent[parent[l]] # "absent"
    /\ \A e \in Client : editors[e].pc = "update" =>
          \A l \in editors[e].on : l \notin editors[e].parentId
    /\ \A l \in Place : parent[l] # "absent" => Placed(parent, looped, l)

LEMMA SitesInit == Sites!Init => Sites!TypeOK /\ SitesInv
<1> SUFFICES ASSUME Sites!Init PROVE Sites!TypeOK /\ SitesInv
    OBVIOUS
<1>1. /\ parent = [l \in Place |-> "root"] /\ editors = [e \in Client |-> Sites!Off]
      /\ looped = {} /\ edits = 0
    BY DEF Sites!Init, Sites!Root
<1>2. Sites!TypeOK
    BY <1>1 DEF Sites!TypeOK, Sites!Off, Sites!EditorState, Sites!Root
<1>3. "root" \notin Place
    BY PlatformAssumption
<1>4. \A l \in Place : Placed(parent, looped, l)
    BY <1>1, <1>3, UpFacts DEF Placed
<1> QED
    BY <1>1, <1>2, <1>3, <1>4 DEF SitesInv, Sites!Off

\* One location gets the parent p, the root or one that is there and does not lie
\* below it, or else is remembered as moved below itself.
LEMMA Reparented ==
    ASSUME Sites!TypeOK, SitesInv, NEW l \in Place, NEW p,
           p = "root" \/ (p \in Place /\ parent[p] # "absent" /\ p # l),
           parent' = [parent EXCEPT ![l] = p],
           looped \ {l} \subseteq looped',
           p # "root" /\ l \in Up(parent, p) => l \in looped'
    PROVE  \A x \in Place : parent'[x] # "absent" =>
              Placed(parent', looped', x) \/ (parent[x] = "absent" /\ x # l)
<1> SUFFICES ASSUME NEW x \in Place, parent'[x] # "absent", x = l \/ parent[x] # "absent"
             PROVE  Placed(parent', looped', x)
    OBVIOUS
<1>1. /\ "root" \notin Place /\ "absent" \notin Place
      /\ parent' [l] = p /\ \A y \in Place \ {l} : parent'[y] = parent[y]
    BY PlatformAssumption DEF Sites!TypeOK
<1>2. CASE l \notin Up(parent, x)
    <2>1. \A y \in Up(parent, x) : parent'[y] = parent[y]
        BY <1>1, <1>2 DEF Up
    <2>2. Up(parent', x) = Up(parent, x)
        BY <2>1, UpAgrees
    <2>3. Placed(parent, looped, x)
        BY <1>2, UpFacts DEF SitesInv
    <2> QED
        BY <1>2, <2>1, <2>2, <2>3 DEF Placed
<1>3. CASE l \in Up(parent, x)
    <2>1. l \in Up(parent', x)
        <3> SUFFICES ASSUME l \notin Up(parent', x) PROVE FALSE
            OBVIOUS
        <3>1. \A y \in Up(parent', x) : parent[y] = parent'[y]
            BY <1>1, UpFacts
        <3>2. Up(parent, x) = Up(parent', x)
            BY ONLY <3>1, UpAgrees
        <3> QED
            BY <1>3, <3>2
    <2>2. CASE p = "root"
        BY <1>1, <2>1, <2>2 DEF Placed
    <2>3. CASE p # "root" /\ l \in Up(parent, p)
        BY <2>1, <2>3 DEF Placed
    <2>4. CASE p # "root" /\ l \notin Up(parent, p)
        <3>1. p \in Place /\ parent[p] # "absent"
            BY <2>4
        <3>2. /\ Up(parent', p) = Up(parent, p)
              /\ \A y \in Up(parent, p) : parent'[y] = parent[y]
            <4>1. \A y \in Up(parent, p) : parent'[y] = parent[y]
                BY <1>1, <2>4 DEF Up
            <4> QED
                BY <3>1, <4>1, UpAgrees
        <3>3. p \in Up(parent', x)
            <4>1. Closed(parent', Up(parent', x))
                BY UpFacts
            <4> QED
                BY <1>1, <2>1, <3>1, <4>1 DEF Closed
        <3>4. Up(parent, p) \subseteq Up(parent', x)
            BY <3>2, <3>3, UpWithin
        <3>5. Placed(parent, looped, p)
            BY <3>1 DEF SitesInv
        <3> QED
            BY <2>4, <3>2, <3>4, <3>5 DEF Placed
    <2> QED
        BY <2>2, <2>3, <2>4
<1> QED
    BY <1>2, <1>3

LEMMA SitesNext ==
    ASSUME Sites!TypeOK, SitesInv, Sites!Next
    PROVE  Sites!TypeOK' /\ SitesInv'
<1>t. /\ parent \in [Place -> Place \cup {"root", "absent"}]
      /\ editors \in [Client -> Sites!EditorState]
      /\ looped \subseteq Place /\ edits \in Nat
      /\ "root" \notin Place /\ "absent" \notin Place
    BY PlatformAssumption DEF Sites!TypeOK, Sites!Root, Sites!Absent
<1>h. /\ \A l \in Place : parent[l] \in Place => parent[parent[l]] # "absent"
      /\ \A e \in Client : editors[e].pc = "update" =>
            \A l \in editors[e].on : l \notin editors[e].parentId
      /\ \A l \in Place : parent[l] # "absent" => Placed(parent, looped, l)
    BY DEF SitesInv
<1> DEFINE T == Sites!TypeOK' /\ SitesInv'
           Settled(e) == editors'[e].pc = "update" =>
                            \A l \in editors'[e].on : l \notin editors'[e].parentId
<1>p. ASSUME parent' \in [Place -> Place \cup {"root", "absent"}],
             editors' \in [Client -> Sites!EditorState],
             looped' \subseteq Place, edits' \in Nat,
             \A l \in Place : parent'[l] \in Place => parent'[parent'[l]] # "absent",
             \A e \in Client : Settled(e),
             \A l \in Place : parent'[l] # "absent" => Placed(parent', looped', l)
      PROVE  T
    BY <1>p DEF Sites!TypeOK, Sites!Root, Sites!Absent, SitesInv, Placed, Up, Closed
\* Of the editors: one is off, or at work on one location.
<1>o. ASSUME NEW e \in Client, editors' = [editors EXCEPT ![e] = Sites!Off]
      PROVE  editors' \in [Client -> Sites!EditorState] /\ \A f \in Client : Settled(f)
    <2>1. Sites!Off \in Sites!EditorState /\ Sites!Off.pc = "idle"
        BY DEF Sites!Off, Sites!EditorState
    <2> QED
        BY <1>h, <1>o, <1>t, <2>1
<1>g. ASSUME NEW e \in Client, NEW pc \in {"update", "delete"}, NEW l \in Place,
             NEW to \in SUBSET (Place \cup {"root"}), pc = "update" => l \notin to,
             editors' = [editors EXCEPT ![e] = [pc |-> pc, on |-> {l}, parentId |-> to]]
      PROVE  editors' \in [Client -> Sites!EditorState] /\ \A f \in Client : Settled(f)
    <2>1. [pc |-> pc, on |-> {l}, parentId |-> to] \in Sites!EditorState
        BY DEF Sites!EditorState, Sites!Root
    <2> QED
        BY <1>g, <1>h, <1>t, <2>1
<1>u. ASSUME UNCHANGED editors
      PROVE  editors' \in [Client -> Sites!EditorState] /\ \A f \in Client : Settled(f)
    BY <1>h, <1>t, <1>u
<1>v. ASSUME UNCHANGED <<parent, looped>>
      PROVE  \A l \in Place :
                /\ parent'[l] \in Place => parent'[parent'[l]] # "absent"
                /\ parent'[l] # "absent" => Placed(parent', looped', l)
    BY <1>h, <1>v
<1>1. ASSUME NEW e \in Client, NEW l \in Place, Sites!Create(e, l)
      PROVE  T
    <2>1. /\ edits' = edits + 1 /\ parent[l] = "absent" /\ UNCHANGED <<editors, looped>>
        BY <1>1 DEF Sites!Create, Sites!Ask, Sites!There, Sites!Absent
    <2>2. PICK p \in {y \in Place : parent[y] # "absent"} \cup {"root"} :
             parent' = [parent EXCEPT ![l] = p]
        BY <1>1 DEF Sites!Create, Sites!There, Sites!Absent, Sites!Root
    <2>3. p # "root" => l \notin Up(parent, p)
        <3> SUFFICES ASSUME p # "root" PROVE l \notin Up(parent, p)
            OBVIOUS
        <3> DEFINE S == {y \in Place : parent[y] # "absent"}
        <3>1. p \in S /\ l \notin S
            BY <2>1
        <3>2. Closed(parent, S)
            BY <1>h DEF Closed
        <3>3. Up(parent, p) \subseteq S
            BY <3>1, <3>2, UpFacts
        <3> QED
            BY <3>1, <3>3
    <2>4. \A x \in Place : parent'[x] # "absent" => Placed(parent', looped', x)
        <3>1. \A x \in Place : parent'[x] # "absent" =>
                 Placed(parent', looped', x) \/ (parent[x] = "absent" /\ x # l)
            BY <2>1, <2>2, <2>3, Reparented
        <3> QED
            BY <1>t, <2>2, <3>1
    <2>5. \A x \in Place : parent'[x] \in Place => parent'[parent'[x]] # "absent"
        BY <1>h, <1>t, <2>1, <2>2
    <2>6. parent' \in [Place -> Place \cup {"root", "absent"}]
        BY <1>t, <2>2
    <2> QED
        BY <1>p, <1>t, <1>u, <2>1, <2>4, <2>5, <2>6
<1>2. ASSUME NEW e \in Client, NEW l \in Place, Sites!ReadLocation(e, l)
      PROVE  T
    <2>1. /\ edits' = edits + 1 /\ UNCHANGED <<parent, looped>>
        BY <1>2 DEF Sites!ReadLocation, Sites!Ask
    <2>2. PICK p \in Place \cup {"root"} :
             /\ p # l
             /\ editors' = [editors EXCEPT ![e] = [pc |-> "update", on |-> {l},
                                                    parentId |-> {p}]]
        BY <1>2 DEF Sites!ReadLocation, Sites!MayBeParent, Sites!Go, Sites!Root
    <2>3. editors' \in [Client -> Sites!EditorState] /\ \A f \in Client : Settled(f)
        <3>1. {p} \in SUBSET (Place \cup {"root"}) /\ l \notin {p}
            BY <2>2
        <3> QED
            BY <1>g, <2>2, <3>1
    <2> QED
        BY <1>p, <1>t, <1>v, <2>1, <2>3
<1>3. ASSUME NEW e \in Client, Sites!WriteLocation(e)
      PROVE  T
    <2>1. /\ edits' = edits /\ editors' = [editors EXCEPT ![e] = Sites!Off]
          /\ editors[e].pc = "update"
        BY <1>3 DEF Sites!WriteLocation, Sites!Done, Sites!At
    <2>2. editors[e].on \subseteq Place /\ editors[e].parentId \subseteq Place \cup {"root"}
        BY <1>t DEF Sites!EditorState, Sites!Root
    <2>3. CASE UNCHANGED <<parent, looped>>
        BY <1>o, <1>p, <1>t, <1>v, <2>1, <2>3
    <2>4. CASE ~UNCHANGED <<parent, looped>>
        <3>1. PICK l \in editors[e].on : \E p \in editors[e].parentId :
                 /\ parent[l] # "absent" /\ (p = "root" \/ (p \in Place /\ parent[p] # "absent"))
                 /\ parent' = [parent EXCEPT ![l] = p]
                 /\ looped' = IF p # l /\ p # "root" /\ l \in Up(parent, p)
                              THEN looped \cup {l} ELSE looped \ {l}
            BY <1>3, <2>2, <2>4 DEF Sites!WriteLocation, Sites!There, Sites!Root, Sites!Absent,
                                    Sites!Above, Up, Closed
        <3>2. PICK p \in editors[e].parentId :
                 /\ parent[l] # "absent" /\ (p = "root" \/ (p \in Place /\ parent[p] # "absent"))
                 /\ parent' = [parent EXCEPT ![l] = p]
                 /\ looped' = IF p # l /\ p # "root" /\ l \in Up(parent, p)
                              THEN looped \cup {l} ELSE looped \ {l}
            BY <3>1
        <3>3. l \in Place /\ p # l
            BY <1>h, <2>1, <2>2
        <3>4. \A x \in Place : parent'[x] # "absent" => Placed(parent', looped', x)
            <4>1. \A x \in Place : parent'[x] # "absent" =>
                     Placed(parent', looped', x) \/ (parent[x] = "absent" /\ x # l)
                BY <3>2, <3>3, Reparented
            <4> QED
                BY <1>t, <3>2, <4>1
        <3>5. \A x \in Place : parent'[x] \in Place => parent'[parent'[x]] # "absent"
            BY <1>h, <1>t, <3>2, <3>3
        <3>6. parent' \in [Place -> Place \cup {"root", "absent"}] /\ looped' \subseteq Place
            BY <1>t, <3>2, <3>3
        <3> QED
            BY <1>o, <1>p, <1>t, <2>1, <3>4, <3>5, <3>6
    <2> QED
        BY <2>3, <2>4
<1>4. ASSUME NEW e \in Client, NEW l \in Place, Sites!LookForChildren(e, l)
      PROVE  T
    <2>1. /\ edits' = edits + 1 /\ UNCHANGED <<parent, looped>>
        BY <1>4 DEF Sites!LookForChildren, Sites!Ask
    <2>2. \/ UNCHANGED editors
          \/ editors' = [editors EXCEPT ![e] = [pc |-> "delete", on |-> {l}, parentId |-> {}]]
        BY <1>4 DEF Sites!LookForChildren, Sites!Go
    <2>3. editors' \in [Client -> Sites!EditorState] /\ \A f \in Client : Settled(f)
        BY <1>g, <1>u, <2>2
    <2> QED
        BY <1>p, <1>t, <1>v, <2>1, <2>3
<1>5. ASSUME NEW e \in Client, Sites!Delete(e)
      PROVE  T
    <2> DEFINE D == editors[e].on
    <2>1. /\ edits' = edits /\ editors' = [editors EXCEPT ![e] = Sites!Off]
          /\ looped' = looped \ D
          /\ parent' = [c \in Place |-> IF c \in D THEN "absent"
                                        ELSE IF {parent[c]} \subseteq D THEN "root"
                                        ELSE parent[c]]
        BY <1>5 DEF Sites!Delete, Sites!Done, Sites!Absent, Sites!Root
    <2>2. D \subseteq Place
        BY <1>t DEF Sites!EditorState
    <2>3. /\ \A c \in Place : parent'[c] = IF c \in D THEN "absent"
                                          ELSE IF parent[c] \in D THEN "root" ELSE parent[c]
          /\ parent' \in [Place -> Place \cup {"root", "absent"}]
        BY <1>t, <2>1
    <2> HIDE DEF D
    <2>4. \A x \in Place : parent'[x] \in Place => parent'[parent'[x]] # "absent"
        BY <1>h, <1>t, <2>2, <2>3
    <2>5. ASSUME NEW x \in Place, parent'[x] # "absent"
          PROVE  Placed(parent', looped', x)
        <3>1. CASE \E a \in Up(parent', x) : parent'[a] \notin Place
            BY <3>1 DEF Placed
        <3>2. CASE \A a \in Up(parent', x) : parent'[a] \in Place
            <4>1. \A a \in Up(parent', x) : a \notin D /\ parent[a] = parent'[a]
                BY <1>t, <2>3, <3>2, UpFacts
            <4>2. Up(parent, x) = Up(parent', x)
                BY <4>1, UpAgrees
            <4>3. Placed(parent, looped, x)
                <5>1. parent[x] # "absent"
                    BY <1>t, <2>2, <2>3, <2>5
                <5> QED
                    BY <1>h, <5>1
            <4> QED
                BY <2>1, <3>2, <4>1, <4>2, <4>3 DEF Placed
        <3> QED
            BY <3>1, <3>2
    <2>6. looped' \subseteq Place
        BY <1>t, <2>1
    <2> QED
        BY <1>o, <1>p, <1>t, <2>1, <2>3, <2>4, <2>5, <2>6
<1>6. ASSUME NEW e \in Client, Sites!Fail(e)
      PROVE  T
    <2>1. /\ UNCHANGED <<parent, looped, edits>> /\ editors' = [editors EXCEPT ![e] = Sites!Off]
        BY <1>6 DEF Sites!Fail, Sites!Done
    <2> QED
        BY <1>o, <1>p, <1>t, <1>v, <2>1
<1> QED
    BY <1>1, <1>2, <1>3, <1>4, <1>5, <1>6 DEF Sites!Next

LEMMA SitesStep ==
    ASSUME Sites!TypeOK, SitesInv, Sites!Next \/ UNCHANGED placeVars
    PROVE  Sites!TypeOK' /\ SitesInv'
<1>1. CASE UNCHANGED placeVars
    BY <1>1 DEF placeVars, Sites!TypeOK, SitesInv, Placed, Up, Closed
<1> QED
    BY <1>1, SitesNext

LEMMA SitesShown == SitesInv => Sites!LocationsShown
<1> SUFFICES ASSUME SitesInv, NEW l \in Sites!There \ Sites!Shown
             PROVE  Sites!Above(l) \cap looped # {}
    BY DEF Sites!LocationsShown
<1>1. Sites!Above(l) = Up(parent, l)
    BY DEF Sites!Above, Up, Closed
<1>2. l \in Place /\ parent[l] # "absent" /\ ~\E a \in Up(parent, l) : parent[a] \notin Place
    BY <1>1 DEF Sites!There, Sites!Shown, Sites!Absent
<1> QED
    BY <1>1, <1>2 DEF SitesInv, Placed
-----------------------------------------------------------------------------
(* The seats of a licence: Licences.                                       *)

Logging == {b \in Client : assigners[b].pc = "logAssigned"}
Pending == {b \in Logging : ~assigners[b].room}

RoomStands(r) ==
    r.pc = "assign" /\ ~r.old /\ r.room => assignments + 1 <= seats

\* Room that was read is still there, unless the count may be old.  The seats too
\* many were logged or are about to be, unless a count that may be old was taken.
SeatsInv ==
    /\ IsFiniteSet(Logging)
    /\ \A b \in Client : RoomStands(assigners[b])
    /\ ~unsure /\ (\A b \in Logging : ~assigners[b].old) =>
          assignments - seats <= warned + Cardinality(Pending)

LEMMA SeatsInit == Seats!Init => Seats!TypeOK /\ SeatsInv
<1> SUFFICES ASSUME Seats!Init PROVE Seats!TypeOK /\ SeatsInv
    OBVIOUS
<1>1. /\ seats \in 1 .. MaxSeats /\ assignments = 0 /\ warned = 0 /\ unsure = FALSE
      /\ assigners = [b \in Client |-> Seats!Away] /\ assigned = 0
    BY DEF Seats!Init
<1>2. Seats!TypeOK
    BY <1>1 DEF Seats!TypeOK, Seats!Away, Seats!AssignerState
<1>3. Logging = {} /\ Pending = {}
    BY <1>1 DEF Logging, Pending, Seats!Away
<1>4. Cardinality(Pending) = 0 /\ IsFiniteSet(Logging)
    BY <1>3, FS_EmptySet
<1>5. 0 - seats <= 0
    BY <1>1, PlatformAssumption
<1>6. \A b \in Client : assigners[b].pc # "assign"
    BY <1>1 DEF Seats!Away
<1>7. assignments - seats <= warned + Cardinality(Pending)
    BY <1>1, <1>4, <1>5
<1> QED
    BY <1>2, <1>4, <1>6, <1>7 DEF SeatsInv, RoomStands

LEMMA SeatsNext ==
    ASSUME Seats!TypeOK, SeatsInv, Seats!Next
    PROVE  Seats!TypeOK' /\ SeatsInv'
<1>t. /\ seats \in 1 .. MaxSeats /\ seats \in Nat /\ assignments \in Nat /\ warned \in Nat
      /\ unsure \in BOOLEAN /\ assigners \in [Client -> Seats!AssignerState]
      /\ assigned \in Nat
    BY PlatformAssumption DEF Seats!TypeOK
<1>h. /\ IsFiniteSet(Logging)
      /\ \A b \in Client : RoomStands(assigners[b])
      /\ ~unsure /\ (\A b \in Logging : ~assigners[b].old) =>
            assignments - seats <= warned + Cardinality(Pending)
    BY DEF SeatsInv
<1>c. IsFiniteSet(Pending) /\ Cardinality(Pending) \in Nat
    BY <1>h, FS_Subset, FS_CardinalityType DEF Pending
<1>a. Seats!Away \in Seats!AssignerState /\ Seats!Away.pc = "idle"
    BY DEF Seats!Away, Seats!AssignerState
<1>1. ASSUME NEW b \in Client, Seats!ReadLicence(b)
      PROVE  Seats!TypeOK' /\ SeatsInv'
    <2> DEFINE new == [Seats!Away EXCEPT !.pc = "assign", !.room = Seats!Room]
    <2>1. /\ assigners' = [assigners EXCEPT ![b] = new] /\ assigned' = assigned + 1
          /\ assigners[b].pc = "idle" /\ UNCHANGED <<seats, assignments, warned, unsure>>
        BY <1>1 DEF Seats!ReadLicence, Seats!Ask
    <2>2. new.pc = "assign" /\ (new.room => assignments + 1 <= seats)
        BY DEF Seats!Away, Seats!Room
    <2>3. new \in Seats!AssignerState
        <3>1. Seats!Room \in BOOLEAN
            BY DEF Seats!Room
        <3> QED
            BY <3>1 DEF Seats!Away, Seats!AssignerState
    <2> HIDE DEF new
    <2>4. Seats!TypeOK'
        BY <1>t, <2>1, <2>3 DEF Seats!TypeOK
    <2>5. Logging' = Logging /\ Pending' = Pending
        BY <1>t, <2>1, <2>2 DEF Logging, Pending
    <2>6. \A c \in Logging : assigners'[c] = assigners[c]
        BY <1>t, <2>1 DEF Logging
    <2>7. \A c \in Client : RoomStands(assigners[c])'
        BY <1>h, <1>t, <2>1, <2>2 DEF RoomStands
    <2> QED
        BY <1>h, <2>1, <2>4, <2>5, <2>6, <2>7 DEF SeatsInv
<1>2. ASSUME NEW b \in Client, Seats!Assign(b)
      PROVE  Seats!TypeOK' /\ SeatsInv'
    <2>1. /\ assigners[b].pc = "assign" /\ assignments' = assignments + 1
          /\ assigners' = [c \in Client |->
                IF c = b THEN [assigners[c] EXCEPT !.pc = "logAssigned"]
                ELSE [assigners[c] EXCEPT
                         !.old = assigners[c].old \/ assigners[c].pc = "assign"]]
          /\ UNCHANGED <<seats, warned, unsure, assigned>>
        BY <1>2 DEF Seats!Assign, Seats!At
    <2>2. \A c \in Client :
             /\ assigners'[c] \in Seats!AssignerState /\ assigners'[c].room = assigners[c].room
             /\ assigners'[c].pc = IF c = b THEN "logAssigned" ELSE assigners[c].pc
             /\ assigners'[c].old <=> (assigners[c].old \/ (c # b /\ assigners[c].pc = "assign"))
        <3> SUFFICES ASSUME NEW c \in Client
                     PROVE  /\ assigners'[c] \in Seats!AssignerState
                            /\ assigners'[c].room = assigners[c].room
                            /\ assigners'[c].pc =
                                  IF c = b THEN "logAssigned" ELSE assigners[c].pc
                            /\ assigners'[c].old <=>
                                  (assigners[c].old \/ (c # b /\ assigners[c].pc = "assign"))
            OBVIOUS
        <3>1. assigners[c] \in Seats!AssignerState
            BY <1>t
        <3> DEFINE o == assigners[c].old \/ assigners[c].pc = "assign"
        <3>2. o \in BOOLEAN
            OBVIOUS
        <3>3. assigners'[c] = IF c = b THEN [assigners[c] EXCEPT !.pc = "logAssigned"]
                              ELSE [assigners[c] EXCEPT !.old = o]
            BY <2>1
        <3>4. CASE c = b
            BY <3>1, <3>3, <3>4 DEF Seats!AssignerState
        <3>5. CASE c # b
            <4>1. assigners'[c] = [assigners[c] EXCEPT !.old = o]
                BY <3>3, <3>5
            <4> HIDE DEF o
            <4>2. /\ assigners'[c] \in Seats!AssignerState
                  /\ assigners'[c].room = assigners[c].room
                  /\ assigners'[c].pc = assigners[c].pc /\ assigners'[c].old = o
                BY <3>1, <3>2, <4>1 DEF Seats!AssignerState
            <4> QED
                BY <3>5, <4>2 DEF o
        <3> QED
            BY <3>4, <3>5
    <2>3. Seats!TypeOK'
        <3>1. assigners' \in [Client -> Seats!AssignerState]
            BY <2>1, <2>2
        <3> QED
            BY <1>t, <2>1, <3>1 DEF Seats!TypeOK
    <2>4. /\ Logging' = Logging \cup {b} /\ b \notin Logging /\ IsFiniteSet(Logging')
        <3>1. Logging' = Logging \cup {b} /\ b \notin Logging
            BY <2>1, <2>2 DEF Logging
        <3> QED
            BY <1>h, <3>1, FS_AddElement
    <2>5. \A c \in Client : RoomStands(assigners[c])'
        <3>1. \A c \in Client : assigners'[c].pc = "assign" => assigners'[c].old
            BY <2>2
        <3> QED
            BY <3>1 DEF RoomStands
    <2>6. ASSUME ~unsure', \A c \in Logging' : ~assigners'[c].old
          PROVE  assignments' - seats' <= warned' + Cardinality(Pending')
        <3>1. (\A c \in Logging : ~assigners[c].old) /\ ~assigners[b].old
            BY <2>2, <2>4, <2>6 DEF Logging
        <3>2. assignments - seats <= warned + Cardinality(Pending)
            BY <1>h, <2>1, <2>6, <3>1
        <3>3. CASE assigners[b].room
            <4>1. assignments + 1 <= seats
                BY <1>h, <2>1, <3>1, <3>3 DEF RoomStands
            <4>2. Cardinality(Pending') \in Nat
                BY <2>4, FS_Subset, FS_CardinalityType DEF Pending
            <4> QED
                BY <1>t, <2>1, <4>1, <4>2
        <3>4. CASE ~assigners[b].room
            <4>1. Pending' = Pending \cup {b} /\ b \notin Pending
                BY <2>2, <2>4, <3>4 DEF Pending, Logging
            <4>2. Cardinality(Pending') = Cardinality(Pending) + 1
                BY <1>c, <4>1, FS_AddElement
            <4> QED
                BY <1>c, <1>t, <2>1, <3>2, <4>2
        <3> QED
            BY <3>3, <3>4
    <2> QED
        BY <2>3, <2>4, <2>5, <2>6 DEF SeatsInv
\* A request ends.
<1>e. ASSUME NEW b \in Client, assigners' = [assigners EXCEPT ![b] = Seats!Away],
             UNCHANGED <<seats, assignments>>
      PROVE  /\ assigners' \in [Client -> Seats!AssignerState]
             /\ Logging' = Logging \ {b} /\ Pending' = Pending \ {b}
             /\ IsFiniteSet(Logging')
             /\ \A c \in Logging' : assigners'[c] = assigners[c]
             /\ \A c \in Client : RoomStands(assigners[c])'
    <2>1. /\ assigners' \in [Client -> Seats!AssignerState] /\ assigners'[b].pc = "idle"
          /\ \A c \in Client \ {b} : assigners'[c] = assigners[c]
        BY <1>a, <1>e, <1>t
    <2>2. Logging' = Logging \ {b} /\ Pending' = Pending \ {b}
        BY <2>1 DEF Logging, Pending
    <2>3. IsFiniteSet(Logging')
        BY <1>h, <2>2, FS_RemoveElement
    <2>4. \A c \in Logging' : assigners'[c] = assigners[c]
        BY <2>1, <2>2 DEF Logging
    <2>5. \A c \in Client : RoomStands(assigners[c])'
        <3> TAKE c \in Client
        <3>1. CASE c = b
            BY <2>1, <3>1 DEF RoomStands
        <3>2. CASE c # b
            BY <1>e, <1>h, <2>1, <3>2 DEF RoomStands
        <3> QED
            BY <3>1, <3>2
    <2> QED
        BY <2>1, <2>2, <2>3, <2>4, <2>5
<1>3. ASSUME NEW b \in Client, Seats!LogAssigned(b)
      PROVE  Seats!TypeOK' /\ SeatsInv'
    <2>1. /\ assigners[b].pc = "logAssigned"
          /\ warned' = warned + (IF assigners[b].room THEN 0 ELSE 1)
          /\ unsure' = (unsure \/ assigners[b].old)
          /\ assigners' = [assigners EXCEPT ![b] = Seats!Away]
          /\ UNCHANGED <<seats, assignments, assigned>>
        BY <1>3 DEF Seats!LogAssigned, Seats!At
    <2>2. Seats!TypeOK'
        <3>1. warned' \in Nat /\ unsure' \in BOOLEAN
            BY <1>t, <2>1
        <3> QED
            BY <1>e, <1>t, <2>1, <3>1 DEF Seats!TypeOK
    <2>3. ASSUME ~unsure', \A c \in Logging' : ~assigners'[c].old
          PROVE  assignments' - seats' <= warned' + Cardinality(Pending')
        <3>1. ~unsure /\ ~assigners[b].old
            BY <2>1, <2>3
        <3>2. \A c \in Logging : ~assigners[c].old
            BY <1>e, <2>1, <2>3, <3>1
        <3>3. assignments - seats <= warned + Cardinality(Pending)
            BY <1>h, <3>1, <3>2
        <3>4. CASE assigners[b].room
            <4>1. Pending' = Pending
                BY <1>e, <2>1, <3>4 DEF Pending
            <4> QED
                BY <1>t, <2>1, <3>3, <3>4, <4>1
        <3>5. CASE ~assigners[b].room
            <4>1. Pending' = Pending \ {b} /\ b \in Pending
                BY <1>e, <2>1, <3>5 DEF Pending, Logging
            <4>2. Cardinality(Pending') = Cardinality(Pending) - 1
                BY <1>c, <4>1, FS_RemoveElement
            <4> QED
                BY <1>c, <1>t, <2>1, <3>3, <3>5, <4>2
        <3> QED
            BY <3>4, <3>5
    <2> QED
        BY <1>e, <2>1, <2>2, <2>3 DEF SeatsInv
<1>4. ASSUME NEW b \in Client, Seats!UpdateSeats(b)
      PROVE  Seats!TypeOK' /\ SeatsInv'
    <2>1. PICK s \in (1 .. MaxSeats) \ {seats} :
             /\ seats' = s /\ unsure' = (unsure \/ s < seats)
             /\ assigners' = [c \in Client |-> [assigners[c] EXCEPT
                   !.old = assigners[c].old \/ (s < seats /\ assigners[c].pc = "assign")]]
        BY <1>4 DEF Seats!UpdateSeats, Seats!At
    <2>2. assigned' = assigned + 1 /\ UNCHANGED <<assignments, warned>>
        BY <1>4 DEF Seats!UpdateSeats, Seats!Ask
    <2>3. \A c \in Client :
             /\ assigners'[c] \in Seats!AssignerState /\ assigners'[c].room = assigners[c].room
             /\ assigners'[c].pc = assigners[c].pc
             /\ assigners'[c].old <=>
                   (assigners[c].old \/ (s < seats /\ assigners[c].pc = "assign"))
        <3> SUFFICES ASSUME NEW c \in Client
                     PROVE  /\ assigners'[c] \in Seats!AssignerState
                            /\ assigners'[c].room = assigners[c].room
                            /\ assigners'[c].pc = assigners[c].pc
                            /\ assigners'[c].old <=>
                                  (assigners[c].old \/ (s < seats /\ assigners[c].pc = "assign"))
            OBVIOUS
        <3>1. assigners[c] \in Seats!AssignerState
            BY <1>t
        <3> DEFINE o == assigners[c].old \/ (s < seats /\ assigners[c].pc = "assign")
        <3>2. o \in BOOLEAN
            OBVIOUS
        <3>3. assigners'[c] = [assigners[c] EXCEPT !.old = o]
            BY <2>1
        <3> HIDE DEF o
        <3>4. /\ assigners'[c] \in Seats!AssignerState
              /\ assigners'[c].room = assigners[c].room
              /\ assigners'[c].pc = assigners[c].pc /\ assigners'[c].old = o
            BY <3>1, <3>2, <3>3 DEF Seats!AssignerState
        <3> QED
            BY <3>4 DEF o
    <2>4. Seats!TypeOK'
        <3>1. assigners' \in [Client -> Seats!AssignerState]
            BY <2>1, <2>3
        <3>2. unsure' \in BOOLEAN /\ seats' \in 1 .. MaxSeats
            BY <2>1
        <3> QED
            BY <1>t, <2>2, <3>1, <3>2 DEF Seats!TypeOK
    <2>5. Logging' = Logging /\ Pending' = Pending
        BY <2>3 DEF Logging, Pending
    <2>6. s \in Nat /\ (~unsure' => s >= seats)
        <3>1. s \in Nat
            BY <2>1, PlatformAssumption
        <3>2. ~unsure' => ~(s < seats)
            BY <2>1
        <3> QED
            BY <1>t, <3>1, <3>2
    <2>7. \A c \in Client : RoomStands(assigners[c])'
        <3> SUFFICES ASSUME NEW c \in Client, assigners'[c].pc = "assign", ~assigners'[c].old,
                            assigners'[c].room
                     PROVE  assignments' + 1 <= seats'
            BY DEF RoomStands
        <3>1. assignments + 1 <= seats /\ ~(s < seats)
            BY <1>h, <2>3 DEF RoomStands
        <3> QED
            BY <1>t, <2>1, <2>2, <2>6, <3>1
    <2>8. ASSUME ~unsure', \A c \in Logging' : ~assigners'[c].old
          PROVE  assignments' - seats' <= warned' + Cardinality(Pending')
        <3>1. ~unsure /\ \A c \in Logging : ~assigners[c].old
            BY <2>1, <2>3, <2>5, <2>8 DEF Logging
        <3> QED
            BY <1>c, <1>h, <1>t, <2>1, <2>2, <2>5, <2>6, <2>8, <3>1
    <2> QED
        BY <1>h, <2>4, <2>5, <2>7, <2>8 DEF SeatsInv
<1>5. ASSUME NEW b \in Client, Seats!RemoveAssignment(b)
      PROVE  Seats!TypeOK' /\ SeatsInv'
    <2>1. /\ assignments > 0 /\ assignments' = assignments - 1 /\ assigned' = assigned + 1
          /\ UNCHANGED <<seats, warned, unsure, assigners>>
        BY <1>5 DEF Seats!RemoveAssignment, Seats!Ask
    <2>2. Seats!TypeOK'
        BY <1>t, <2>1 DEF Seats!TypeOK
    <2>3. Logging' = Logging /\ Pending' = Pending
        BY <2>1 DEF Logging, Pending
    <2> QED
        BY <1>c, <1>h, <1>t, <2>1, <2>2, <2>3 DEF SeatsInv, RoomStands
<1>6. ASSUME NEW b \in Client, Seats!Fail(b)
      PROVE  Seats!TypeOK' /\ SeatsInv'
    <2>1. /\ unsure' = (unsure \/ assigners[b].pc = "logAssigned")
          /\ assigners' = [assigners EXCEPT ![b] = Seats!Away]
          /\ UNCHANGED <<seats, assignments, warned, assigned>>
        BY <1>6 DEF Seats!Fail, Seats!At
    <2>2. Seats!TypeOK'
        <3>1. unsure' \in BOOLEAN
            BY <1>t, <2>1
        <3> QED
            BY <1>e, <1>t, <2>1, <3>1 DEF Seats!TypeOK
    <2>3. ASSUME ~unsure', \A c \in Logging' : ~assigners'[c].old
          PROVE  assignments' - seats' <= warned' + Cardinality(Pending')
        <3>1. ~unsure /\ b \notin Logging
            BY <2>1, <2>3 DEF Logging
        <3>2. Logging' = Logging /\ Pending' = Pending
            <4>1. b \notin Pending
                BY <3>1 DEF Pending
            <4>2. Logging' = Logging \ {b} /\ Pending' = Pending \ {b}
                BY <1>e, <2>1
            <4> HIDE DEF Logging, Pending
            <4> QED
                BY <3>1, <4>1, <4>2
        <3>3. \A c \in Logging : ~assigners[c].old
            BY <1>e, <2>1, <2>3, <3>2
        <3> QED
            BY <1>h, <2>1, <3>1, <3>2, <3>3
    <2> QED
        BY <1>e, <2>1, <2>2, <2>3 DEF SeatsInv
<1> QED
    BY <1>1, <1>2, <1>3, <1>4, <1>5, <1>6 DEF Seats!Next

LEMMA SeatsStep ==
    ASSUME Seats!TypeOK, SeatsInv, Seats!Next \/ UNCHANGED seatVars
    PROVE  Seats!TypeOK' /\ SeatsInv'
<1>1. CASE UNCHANGED seatVars
    BY <1>1 DEF seatVars, Seats!TypeOK, SeatsInv, Logging, Pending, RoomStands
<1> QED
    BY <1>1, SeatsNext

LEMMA SeatsAreNoticed == Seats!TypeOK /\ SeatsInv => Seats!SeatsNoticed
<1> SUFFICES ASSUME Seats!TypeOK, SeatsInv, \A b \in Client : ~Seats!At(b, "logAssigned"), ~unsure
             PROVE  assignments - seats <= warned
    BY DEF Seats!SeatsNoticed
<1>1. Logging = {} /\ Pending = {}
    BY DEF Logging, Pending, Seats!At
<1>2. Cardinality(Pending) = 0
    BY <1>1, FS_EmptySet
<1>3. assignments - seats <= warned + 0
    BY <1>1, <1>2 DEF SeatsInv
<1> QED
    BY <1>3 DEF Seats!TypeOK
-----------------------------------------------------------------------------
(* The maintenances: Maintenances.                                         *)

\* A count that is not an old one has every live maintenance the new one meets.
CountComplete(r) ==
    r.pc = "insert" /\ ~r.old =>
        \A m \in Thing : Planning!Conflicts(r.row, m) => m \in r.row.counted

PlanningInv ==
    /\ \A b \in Client : CountComplete(planners[b])
    /\ Planning!ConflictsReported

LEMMA PlanningInit == Planning!Init => Planning!TypeOK /\ PlanningInv
<1> SUFFICES ASSUME Planning!Init PROVE Planning!TypeOK /\ PlanningInv
    OBVIOUS
<1>1. /\ maintenances = [m \in Thing |-> Planning!NoRow]
      /\ planners = [b \in Client |-> Planning!Away] /\ planned = 0
    BY DEF Planning!Init
<1>2. Planning!NoRow \in Planning!Row
    BY PlatformAssumption DEF Planning!NoRow, Planning!Row, Planning!Places, Planning!Hour
<1>3. Planning!TypeOK
    BY <1>1, <1>2 DEF Planning!TypeOK, Planning!Away, Planning!PlannerState
<1>4. PlanningInv
    BY <1>1 DEF PlanningInv, CountComplete, Planning!Away, Planning!ConflictsReported,
                Planning!NoRow
<1> QED
    BY <1>3, <1>4

\* Two maintenances of which one reported the other, if they should.
Reported(m, n, a, b) ==
    /\ m # n /\ a.status = "live" /\ b.status = "live" /\ a.on = b.on /\ a.on # "none"
    /\ \E h \in Planning!Hour : h \in a.start .. a.end /\ h \in b.start .. b.end
    /\ ~a.changed /\ ~b.changed
    => n \in a.counted \/ m \in b.counted

LEMMA ReportedAll ==
    Planning!ConflictsReported <=>
       \A m, n \in Thing : Reported(m, n, maintenances[m], maintenances[n])
BY DEF Planning!ConflictsReported, Reported

\* To share an hour is to begin before the other has ended.
LEMMA SharedHour ==
    ASSUME NEW a \in Planning!Row, NEW b \in Planning!Row, NEW h \in Planning!Hour,
           h \in a.start .. a.end, h \in b.start .. b.end
    PROVE  a.start <= b.end /\ b.start <= a.end
<1>1. /\ a.start \in Nat /\ a.end \in Nat /\ b.start \in Nat /\ b.end \in Nat /\ h \in Nat
    BY PlatformAssumption DEF Planning!Row, Planning!Hour
<1> QED
    BY <1>1

\* A new row that has counted all it meets, among the others.
LEMMA NewReported ==
    ASSUME Planning!TypeOK, NEW m \in Thing, NEW new \in Planning!Row,
           ~new.changed => \A n \in Thing : Planning!Conflicts(new, n) => n \in new.counted,
           NEW n \in Thing, n # m
    PROVE  /\ Reported(m, n, new, maintenances[n]) /\ Reported(n, m, maintenances[n], new)
<1> DEFINE other == maintenances[n]
<1>1. other \in Planning!Row
    BY DEF Planning!TypeOK
<1> SUFFICES ASSUME other.status = "live", new.on = other.on, new.on # "none", ~new.changed,
                    NEW h \in Planning!Hour, h \in new.start .. new.end,
                    h \in other.start .. other.end
             PROVE  n \in new.counted
    BY DEF Reported
<1>2. other.start <= new.end /\ new.start <= other.end
    BY <1>1, SharedHour
<1>3. other.end >= new.start
    BY <1>1, <1>2, PlatformAssumption DEF Planning!Row, Planning!Hour
<1>4. Planning!Conflicts(new, n)
    BY <1>2, <1>3 DEF Planning!Conflicts
<1> QED
    BY <1>4

LEMMA PlanningNext ==
    ASSUME Planning!TypeOK, PlanningInv, Planning!Next
    PROVE  Planning!TypeOK' /\ PlanningInv'
<1>t. /\ maintenances \in [Thing -> Planning!Row]
      /\ planners \in [Client -> Planning!PlannerState]
      /\ planned \in Nat
    BY DEF Planning!TypeOK
<1>h. /\ \A b \in Client : CountComplete(planners[b])
      /\ \A m, n \in Thing : Reported(m, n, maintenances[m], maintenances[n])
    BY ReportedAll DEF PlanningInv
<1> DEFINE T == Planning!TypeOK' /\ PlanningInv'
<1>p. ASSUME maintenances' \in [Thing -> Planning!Row],
             planners' \in [Client -> Planning!PlannerState], planned' \in Nat,
             \A b \in Client : CountComplete(planners[b])',
             \A m, n \in Thing : Reported(m, n, maintenances'[m], maintenances'[n])
      PROVE  T
    <2>1. Planning!ConflictsReported'
        BY <1>p DEF Planning!ConflictsReported, Reported
    <2> QED
        BY <1>p, <2>1 DEF Planning!TypeOK, PlanningInv
<1>n. /\ Planning!NoRow \in Planning!Row /\ Planning!NoRow.status = "none"
      /\ Planning!Away \in Planning!PlannerState /\ Planning!Away.pc = "idle"
    <2>1. Planning!NoRow \in Planning!Row
        BY PlatformAssumption DEF Planning!NoRow, Planning!Row, Planning!Places, Planning!Hour
    <2> QED
        BY <2>1 DEF Planning!NoRow, Planning!Away, Planning!PlannerState
\* A request ends; rows are left alone, or none becomes one to report.
<1>a. ASSUME NEW b \in Client, planners' = [planners EXCEPT ![b] = Planning!Away],
             \A m \in Thing : /\ maintenances'[m].status = maintenances[m].status
                              /\ maintenances'[m].on = maintenances[m].on
                              /\ maintenances'[m].start = maintenances[m].start
                              /\ maintenances'[m].end = maintenances[m].end
      PROVE  /\ planners' \in [Client -> Planning!PlannerState]
             /\ \A c \in Client : CountComplete(planners[c])'
    <2>1. planners' \in [Client -> Planning!PlannerState]
        BY <1>a, <1>n, <1>t
    <2>2. \A c \in Client : CountComplete(planners[c])'
        <3> TAKE c \in Client
        <3>1. CASE c = b
            BY <1>a, <1>n, <1>t, <3>1 DEF CountComplete
        <3>2. CASE c # b
            <4>1. planners'[c] = planners[c] /\ CountComplete(planners[c])
                BY <1>a, <1>h, <1>t, <3>2
            <4> QED
                BY <1>a, <4>1 DEF CountComplete, Planning!Conflicts
        <3> QED
            BY <3>1, <3>2
    <2> QED
        BY <2>1, <2>2
\* What Outdated leaves of the planners: those about to insert are old.
<1>o. ASSUME NEW b \in Client
      PROVE  /\ Planning!Outdated(b) \in [Client -> Planning!PlannerState]
             /\ \A c \in Client :
                   /\ Planning!Outdated(b)[c].pc = planners[c].pc
                   /\ c # b /\ planners[c].pc = "insert" => Planning!Outdated(b)[c].old
    <2> SUFFICES ASSUME NEW c \in Client
                 PROVE  /\ Planning!Outdated(b)[c] \in Planning!PlannerState
                        /\ Planning!Outdated(b)[c].pc = planners[c].pc
                        /\ c # b /\ planners[c].pc = "insert" => Planning!Outdated(b)[c].old
        BY DEF Planning!Outdated
    <2> DEFINE o == planners[c].old \/ (c # b /\ planners[c].pc = "insert")
    <2>1. o \in BOOLEAN /\ Planning!Outdated(b)[c] = [planners[c] EXCEPT !.old = o]
        BY DEF Planning!Outdated, Planning!At
    <2>2. c # b /\ planners[c].pc = "insert" => o
        OBVIOUS
    <2> HIDE DEF o
    <2> QED
        BY <1>t, <2>1, <2>2 DEF Planning!PlannerState
<1>1. ASSUME NEW b \in Client, Planning!FindConflicts(b)
      PROVE  T
    <2>1. PICK on \in Planning!Places, start \in Planning!Hour, end \in Planning!Hour,
               status \in {"live", "over"} :
             LET plan == [Planning!NoRow EXCEPT !.status = status, !.on = on, !.start = start,
                                                !.end = end]
             IN  planners' = [planners EXCEPT ![b] =
                    [Planning!Away EXCEPT !.pc = "insert",
                        !.row = [plan EXCEPT !.counted =
                                   {m \in Thing : Planning!Conflicts(plan, m)}]]]
        BY <1>1 DEF Planning!FindConflicts
    <2> DEFINE plan == [Planning!NoRow EXCEPT !.status = status, !.on = on, !.start = start,
                                              !.end = end]
               counted == {m \in Thing : Planning!Conflicts(plan, m)}
               full == [plan EXCEPT !.counted = counted]
               new == [Planning!Away EXCEPT !.pc = "insert", !.row = full]
    <2>2. /\ planned' = planned + 1 /\ UNCHANGED maintenances
          /\ planners' = [planners EXCEPT ![b] = new]
        BY <1>1, <2>1 DEF Planning!FindConflicts, Planning!Ask
    <2>3. /\ plan \in Planning!Row
          /\ plan.on = on /\ plan.start = start /\ plan.end = end
        BY <1>n DEF Planning!Row
    <2> HIDE DEF plan
    <2>4. /\ full \in Planning!Row /\ full.counted = counted
          /\ full.on = plan.on /\ full.start = plan.start /\ full.end = plan.end
        BY <2>3 DEF Planning!Row
    <2>5. \A m \in Thing : Planning!Conflicts(full, m) => m \in full.counted
        BY <2>4 DEF Planning!Conflicts
    <2> HIDE DEF full, counted
    <2>6. new \in Planning!PlannerState /\ new.row = full
        BY <2>4 DEF Planning!Away, Planning!PlannerState
    <2> HIDE DEF new
    <2>7. \A c \in Client : CountComplete(planners[c])'
        <3> TAKE c \in Client
        <3>1. CASE c = b
            <4>1. planners'[c] = new
                BY <1>t, <2>2, <3>1
            <4> QED
                BY <2>2, <2>5, <2>6, <4>1 DEF CountComplete, Planning!Conflicts
        <3>2. CASE c # b
            <4>1. planners'[c] = planners[c] /\ CountComplete(planners[c])
                BY <1>h, <1>t, <2>2, <3>2
            <4> QED
                BY <2>2, <4>1 DEF CountComplete, Planning!Conflicts
        <3> QED
            BY <3>1, <3>2
    <2> QED
        BY SMTT(40), <1>h, <1>p, <1>t, <2>2, <2>6, <2>7
<1>2. ASSUME NEW b \in Client, Planning!WriteChecklist(b)
      PROVE  T
    <2>1. /\ planned' = planned
          /\ planners' = [planners EXCEPT ![b] = Planning!Away]
          /\ \/ maintenances' = maintenances
             \/ maintenances' = [m \in Thing |->
                   IF m \in planners[b].id /\ maintenances[m].status # "none"
                   THEN [maintenances[m] EXCEPT !.items = TRUE] ELSE maintenances[m]]
        BY <1>2 DEF Planning!WriteChecklist
    <2>2. \A m \in Thing :
             /\ maintenances'[m] \in Planning!Row
             /\ maintenances'[m].status = maintenances[m].status
             /\ maintenances'[m].on = maintenances[m].on
             /\ maintenances'[m].start = maintenances[m].start
             /\ maintenances'[m].end = maintenances[m].end
             /\ maintenances'[m].changed = maintenances[m].changed
             /\ maintenances'[m].counted = maintenances[m].counted
        <3> TAKE m \in Thing
        <3>1. maintenances[m] \in Planning!Row
            BY <1>t
        <3>2. \/ maintenances'[m] = maintenances[m]
              \/ maintenances'[m] = [maintenances[m] EXCEPT !.items = TRUE]
            BY <2>1
        <3> QED
            BY <3>1, <3>2 DEF Planning!Row
    <2>3. maintenances' \in [Thing -> Planning!Row]
        BY <1>t, <2>1, <2>2
    <2>4. \A m, n \in Thing : Reported(m, n, maintenances'[m], maintenances'[n])
        BY <1>h, <2>2 DEF Reported
    <2> QED
        BY <1>a, <1>p, <1>t, <2>1, <2>2, <2>3, <2>4
<1>3. ASSUME NEW b \in Client, Planning!Fail(b)
      PROVE  T
    <2>1. /\ UNCHANGED <<maintenances, planned>>
          /\ planners' = [planners EXCEPT ![b] = Planning!Away]
        BY <1>3 DEF Planning!Fail
    <2> QED
        BY <1>a, <1>h, <1>p, <1>t, <2>1
<1>4. ASSUME NEW b \in Client, NEW m \in Thing, Planning!InsertMaintenance(b, m)
      PROVE  T
    <2> DEFINE new == [planners[b].row EXCEPT !.changed = planners[b].old]
               done == [Planning!Away EXCEPT !.pc = "checklist", !.id = {m}]
    <2>1. /\ planners[b].pc = "insert" /\ planned' = planned
          /\ maintenances' = [maintenances EXCEPT ![m] = new]
          /\ planners' = [Planning!Outdated(b) EXCEPT ![b] = done]
        BY <1>4 DEF Planning!InsertMaintenance, Planning!At
    <2>2. planners[b].row \in Planning!Row /\ planners[b].old \in BOOLEAN
        BY <1>t DEF Planning!PlannerState
    <2>3. /\ new \in Planning!Row /\ new.changed = planners[b].old
          /\ new.on = planners[b].row.on /\ new.start = planners[b].row.start
          /\ new.end = planners[b].row.end /\ new.counted = planners[b].row.counted
        BY <2>2 DEF Planning!Row
    <2>4. done \in Planning!PlannerState /\ done.pc = "checklist"
        BY <1>n DEF Planning!PlannerState
    <2> HIDE DEF new, done
    <2>5. planners' \in [Client -> Planning!PlannerState]
        BY <1>o, <2>1, <2>4
    <2>6. \A c \in Client : CountComplete(planners[c])'
        <3> TAKE c \in Client
        <3>1. planners'[c].pc = "insert" => planners'[c].old
            BY <1>o, <2>1, <2>4
        <3> QED
            BY <3>1 DEF CountComplete
    <2>7. ~new.changed => \A n \in Thing : Planning!Conflicts(new, n) => n \in new.counted
        BY <1>h, <2>1, <2>3 DEF CountComplete, Planning!Conflicts
    <2>8. ASSUME NEW x \in Thing, NEW y \in Thing
          PROVE  Reported(x, y, maintenances'[x], maintenances'[y])
        <3>1. CASE x = y
            BY <3>1 DEF Reported
        <3>2. CASE x # y /\ x = m
            BY <1>t, <2>1, <2>3, <2>7, <3>2, NewReported
        <3>3. CASE x # y /\ y = m
            BY <1>t, <2>1, <2>3, <2>7, <3>3, NewReported
        <3>4. CASE x # m /\ y # m
            BY <1>h, <1>t, <2>1, <3>4
        <3> QED
            BY <3>1, <3>2, <3>3, <3>4
    <2>9. maintenances' \in [Thing -> Planning!Row]
        BY <1>t, <2>1, <2>3
    <2> QED
        BY <1>p, <1>t, <2>1, <2>5, <2>6, <2>8, <2>9
<1>5. ASSUME NEW b \in Client, NEW m \in Thing, Planning!UpdateMaintenance(b, m)
      PROVE  T
    <2>1. PICK on \in Planning!Places, start \in Planning!Hour, end \in Planning!Hour,
               status \in {"live", "over"} :
             maintenances' = [maintenances EXCEPT ![m] = [maintenances[m] EXCEPT
                 !.status = status, !.on = on, !.start = start, !.end = end, !.changed = TRUE]]
        BY <1>5 DEF Planning!UpdateMaintenance
    <2> DEFINE new == [maintenances[m] EXCEPT !.status = status, !.on = on, !.start = start,
                                              !.end = end, !.changed = TRUE]
    <2>2. /\ planners[b].pc = "idle" /\ planned' = planned + 1
          /\ planners' = Planning!Outdated(b)
          /\ maintenances' = [maintenances EXCEPT ![m] = new]
        BY <1>5, <2>1 DEF Planning!UpdateMaintenance, Planning!Ask
    <2>3. new \in Planning!Row /\ new.changed
        <3>1. maintenances[m] \in Planning!Row
            BY <1>t
        <3> QED
            BY <3>1 DEF Planning!Row
    <2> HIDE DEF new
    <2>4. \A c \in Client : CountComplete(planners[c])'
        <3> TAKE c \in Client
        <3>1. planners'[c].pc = "insert" => planners'[c].old
            BY <1>o, <2>2
        <3> QED
            BY <3>1 DEF CountComplete
    <2>5. ASSUME NEW x \in Thing, NEW y \in Thing
          PROVE  Reported(x, y, maintenances'[x], maintenances'[y])
        <3>1. CASE x = m \/ y = m
            BY <1>t, <2>2, <2>3, <3>1 DEF Reported
        <3>2. CASE x # m /\ y # m
            BY <1>h, <1>t, <2>2, <3>2
        <3> QED
            BY <3>1, <3>2
    <2>6. maintenances' \in [Thing -> Planning!Row]
        BY <1>t, <2>2, <2>3
    <2> QED
        BY <1>o, <1>p, <1>t, <2>2, <2>4, <2>5, <2>6
<1>6. ASSUME NEW b \in Client, NEW m \in Thing, Planning!DeleteMaintenance(b, m)
      PROVE  T
    <2>1. /\ planned' = planned + 1 /\ UNCHANGED planners
          /\ maintenances' = [maintenances EXCEPT ![m] = Planning!NoRow]
        BY <1>6 DEF Planning!DeleteMaintenance, Planning!Ask
    <2>2. ASSUME NEW x \in Thing, NEW y \in Thing
          PROVE  Reported(x, y, maintenances'[x], maintenances'[y])
        <3>1. CASE x = m \/ y = m
            BY <1>n, <1>t, <2>1, <3>1 DEF Reported
        <3>2. CASE x # m /\ y # m
            BY <1>h, <1>t, <2>1, <3>2
        <3> QED
            BY <3>1, <3>2
    <2>3. \A c \in Client : CountComplete(planners[c])'
        <3> TAKE c \in Client
        <3>1. CountComplete(planners[c])
            BY <1>h
        <3>2. \A n \in Thing : maintenances'[n] = maintenances[n]
                              \/ maintenances'[n].status = "none"
            BY <1>n, <1>t, <2>1
        <3> QED
            BY <2>1, <3>1, <3>2 DEF CountComplete, Planning!Conflicts
    <2>4. maintenances' \in [Thing -> Planning!Row]
        BY <1>n, <1>t, <2>1
    <2> QED
        BY <1>p, <1>t, <2>1, <2>2, <2>3, <2>4
<1> QED
    BY <1>1, <1>2, <1>3, <1>4, <1>5, <1>6 DEF Planning!Next

LEMMA PlanningStep ==
    ASSUME Planning!TypeOK, PlanningInv, Planning!Next \/ UNCHANGED planningVars
    PROVE  Planning!TypeOK' /\ PlanningInv'
<1>1. CASE UNCHANGED planningVars
    BY <1>1 DEF planningVars, Planning!TypeOK, PlanningInv, CountComplete, Planning!Conflicts,
                Planning!ConflictsReported
<1> QED
    BY <1>1, PlanningNext
-----------------------------------------------------------------------------
(* The addresses of the machines: Ipam.  The parts of the invariant take    *)
(* the rows, a, the machines, p, and a request, r, as parameters.           *)

Flags(a, m) == {i \in Thing : a[i].machine = m /\ a[i].primary}
Used(a)     == {i \in Thing : a[i].machine # "none"}
Named(r, p) == p[r.row.machine] # "gone" => p[r.row.machine] = r.row.address

\* A machine with at most one primary address, the one it names.
Good(a, p, m) ==
    \A i \in Flags(a, m) : p[m] = a[i].address /\ \A j \in Flags(a, m) : i = j

\* A request that has begun to write and will settle the machine of its row.
Busy(r, m) ==
    /\ m \in r.on /\ m = r.row.machine
    /\ r.pc \in {"setPrimary", "insert", "clearOthers", "clearAll", "find", "flag"}

\* The row, the machines and the identifier a request has at each of its awaits.
Shape(r) ==
    /\ r.pc \in {"idle", "mark"} => r.on = {}
    /\ r.pc \notin {"idle", "mark"} => r.row.there
    /\ r.pc \in {"clear", "setPrimary", "clearOthers", "machine", "clearAll", "find", "flag"} =>
          r.row.machine \in r.on /\ r.row.primary
    /\ r.pc = "insert" => \/ r.on = {r.row.machine} /\ r.row.primary
                          \/ r.on = {} /\ (r.row.primary => r.row.machine \notin Machine)
    /\ r.pc \in {"clear", "machine", "clearAll", "find", "flag"}
          \/ (r.pc = "setPrimary" /\ ~r.makePrimary) => r.on \subseteq {r.row.machine}
    /\ r.pc = "clear" => ~r.makePrimary
    /\ r.pc = "clearOthers" => r.makePrimary
    /\ r.pc = "update" => /\ r.row.machine \in Machine => r.row.machine \in r.on
                          /\ r.makePrimary => r.row.primary /\ r.row.machine \in Machine
    /\ r.pc \in {"update", "clearOthers"} \/ (r.pc = "setPrimary" /\ r.makePrimary) =>
          \E i \in Thing : r.id = {i}

\* How far a request that no other crosses has come with its machine.
Half(r, a, p) ==
    ~r.crossed =>
      /\ r.pc = "update" /\ ~r.makePrimary /\ r.row.primary /\ r.row.machine \in Machine =>
            \A i \in r.id : a[i].machine = r.row.machine => a[i].primary
      /\ r.pc = "machine" /\ ~r.makePrimary /\ r.row.address # "none" => Named(r, p)
      /\ r.pc \in {"clearAll", "find", "flag"} \/ (r.pc = "insert" /\ r.on # {}) => Named(r, p)
      /\ \/ r.pc = "setPrimary" /\ ~r.makePrimary
         \/ r.pc = "insert" /\ r.on # {}
         \/ r.pc \in {"find", "flag"}
         => Flags(a, r.row.machine) = {}
      /\ r.pc = "clearOthers" \/ (r.pc = "setPrimary" /\ r.makePrimary) =>
            \A i \in r.id : a[i].machine = r.row.machine => a[i].address = r.row.address
      /\ r.pc = "setPrimary" /\ r.makePrimary => Flags(a, r.row.machine) \subseteq r.id

\* The rows a detection has read: two of one address are marked or will be.
Marked(r, a) ==
    r.pc = "mark" =>
      \A i \in r.seen :
         /\ a[i].there
         /\ \A j \in r.seen :
               a[i].address = a[j].address /\ a[i].machine # a[j].machine
               => a[i].status = "CONFLICT" \/ a[i].address \in r.found

\* Rows belong to machines that are there.
Housed(a, p) ==
    \A i \in Thing :
       /\ a[i].machine # "none" => a[i].machine \in Machine /\ p[a[i].machine] # "gone"
       /\ ~a[i].there => a[i].machine = "none"

IpsInv ==
    /\ \A m \in Machine \ muddled :
          Good(addresses, primaryIp, m) \/ \E k \in Client : Busy(requests[k], m)
    /\ \A j, k \in Client : j # k /\ requests[j].on \cap requests[k].on # {} =>
          requests[j].crossed /\ requests[k].crossed
    /\ \A k \in Client : /\ Shape(requests[k])
                         /\ Half(requests[k], addresses, primaryIp)
                         /\ Marked(requests[k], addresses)
    /\ Housed(addresses, primaryIp)
    /\ IsFiniteSet(Used(addresses))

LEMMA IpsValues ==
    /\ "none" \notin Machine /\ "none" \notin Client /\ "gone" \notin Address
    /\ Ips!NoOne = "none" /\ Ips!Gone = "gone"
    /\ Ips!NoRow \in Ips!Row /\ ~Ips!NoRow.there /\ Ips!NoRow.machine = "none"
    /\ Ips!Idle \in Ips!RequestState /\ Ips!Idle.pc = "idle" /\ Ips!Idle.on = {}
    /\ ~Ips!Idle.crossed
<1>1. "none" \notin Machine /\ "none" \notin Client /\ "gone" \notin Address
    BY PlatformAssumption
<1>2. Ips!NoRow \in Ips!Row /\ ~Ips!NoRow.there /\ Ips!NoRow.machine = "none"
    BY DEF Ips!NoRow, Ips!Row, Ips!NoOne
<1> QED
    BY <1>1, <1>2 DEF Ips!NoOne, Ips!Gone, Ips!Idle, Ips!RequestState

LEMMA IdleFine ==
    ASSUME NEW a, NEW p
    PROVE  Shape(Ips!Idle) /\ Half(Ips!Idle, a, p) /\ Marked(Ips!Idle, a)
BY IpsValues DEF Shape, Half, Marked

LEMMA IpsInit == Ips!Init => Ips!TypeOK /\ IpsInv
<1> SUFFICES ASSUME Ips!Init PROVE Ips!TypeOK /\ IpsInv
    OBVIOUS
<1>1. /\ addresses = [i \in Thing |-> Ips!NoRow]
      /\ primaryIp = [m \in Machine |-> "none"]
      /\ bare = 0 /\ requests = [k \in Client |-> Ips!Idle] /\ muddled = {} /\ called = 0
    BY DEF Ips!Init, Ips!NoOne
<1>2. Ips!TypeOK
    BY <1>1, IpsValues DEF Ips!TypeOK
<1>3. Used(addresses) = {} /\ \A m \in Machine : Flags(addresses, m) = {}
    BY <1>1, IpsValues DEF Used, Flags
<1>4. IsFiniteSet(Used(addresses))
    BY <1>3, FS_EmptySet
<1>5. \A m \in Machine : Good(addresses, primaryIp, m)
    BY <1>3 DEF Good
<1>6. \A k \in Client : /\ Shape(requests[k])
                        /\ Half(requests[k], addresses, primaryIp)
                        /\ Marked(requests[k], addresses)
    BY <1>1, IdleFine
<1>7. Housed(addresses, primaryIp)
    BY <1>1, IpsValues DEF Housed
<1>8. \A j, k \in Client : requests[j].on \cap requests[k].on = {}
    BY <1>1, IpsValues
<1> QED
    BY <1>2, <1>4, <1>5, <1>6, <1>7, <1>8 DEF IpsInv

-----------------------------------------------------------------------------
\* What a step of another request may do to one: cross it, and write rows that
\* a detection has read.
Follows(r, s) ==
    /\ s.pc = r.pc /\ s.id = r.id /\ s.row = r.row /\ s.makePrimary = r.makePrimary
    /\ s.on = r.on /\ s.found = r.found
    /\ r.crossed => s.crossed
    /\ s.seen \subseteq r.seen

\* The flags of machine m, and what it is named after, are left alone; a new row
\* without a flag may have come.
Calm(m, ids) ==
    /\ \A i \in Thing : addresses'[i].machine = m =>
          \/ /\ addresses[i].machine = m
             /\ addresses'[i].primary <=> addresses[i].primary
             /\ addresses'[i].address = addresses[i].address
          \/ ~addresses'[i].primary /\ i \notin ids
    /\ primaryIp'[m] # "gone" => primaryIp'[m] = primaryIp[m]

\* The row of i is as a detection has read it, or marked since.
KeptRow(i) ==
    /\ addresses'[i].there = addresses[i].there
    /\ addresses'[i].address = addresses[i].address
    /\ addresses'[i].machine = addresses[i].machine
    /\ addresses'[i].status \in {addresses[i].status, "CONFLICT"}

LEMMA HalfFollows ==
    ASSUME NEW r \in Ips!RequestState, NEW s \in Ips!RequestState, Follows(r, s),
           Shape(r), Half(r, addresses, primaryIp),
           \A m \in r.on : s.crossed \/ Calm(m, r.id)
    PROVE  Half(s, addresses', primaryIp')
<1> SUFFICES ASSUME ~s.crossed PROVE Half(s, addresses', primaryIp')
    BY DEF Half
<1> DEFINE m == r.row.machine
<1>1. ~r.crossed
    BY DEF Follows
<1>2. CASE m \notin r.on
    BY <1>2 DEF Follows, Shape, Half
<1>3. CASE m \in r.on
    <2>1. Calm(m, r.id)
        BY <1>3
    <2>2. Flags(addresses', m) \subseteq Flags(addresses, m)
        BY <2>1 DEF Calm, Flags
    <2>3. Named(r, primaryIp) => Named(s, primaryIp')
        BY <2>1 DEF Calm, Named, Follows
    <2>4. \A i \in r.id \cap Thing : addresses'[i].machine = m =>
             /\ addresses[i].machine = m
             /\ addresses'[i].primary <=> addresses[i].primary
             /\ addresses'[i].address = addresses[i].address
        BY <2>1 DEF Calm
    <2>5. r.id \subseteq Thing
        BY DEF Ips!RequestState
    <2> HIDE DEF m
    <2>6. s.row.machine = m /\ r.row.machine = m
        BY DEF m, Follows
    <2> QED
        BY <1>1, <2>2, <2>3, <2>4, <2>5, <2>6 DEF Half, Follows
<1> QED
    BY <1>2, <1>3

LEMMA MarkedFollows ==
    ASSUME NEW r, NEW s, Follows(r, s), Marked(r, addresses), \A i \in s.seen : KeptRow(i)
    PROVE  Marked(s, addresses')
BY DEF Follows, Marked, KeptRow

\* A step of request k that keeps the invariant.
LEMMA IpsConclude ==
    ASSUME NEW k \in Client, Ips!TypeOK, IpsInv,
           requests' \in [Client -> Ips!RequestState],
           \A j \in Client \ {k} :
              /\ Follows(requests[j], requests'[j])
              /\ \A m \in requests[j].on : requests'[j].crossed \/ Calm(m, requests[j].id)
              /\ \A i \in requests'[j].seen : KeptRow(i)
              /\ requests'[j].on \cap requests'[k].on # {} =>
                    requests'[j].crossed /\ requests'[k].crossed,
           Shape(requests'[k]), Half(requests'[k], addresses', primaryIp'),
           Marked(requests'[k], addresses'),
           Housed(addresses', primaryIp'), IsFiniteSet(Used(addresses')),
           \A m \in Machine \ muddled' :
              \/ Good(addresses', primaryIp', m) \/ Busy(requests'[k], m)
              \/ /\ m \notin muddled /\ ~Busy(requests[k], m)
                 /\ Good(addresses, primaryIp, m) => Good(addresses', primaryIp', m)
    PROVE  IpsInv'
<1>1. requests \in [Client -> Ips!RequestState]
    BY DEF Ips!TypeOK
<1>2. \A j \in Client \ {k} : /\ Shape(requests'[j])
                              /\ Half(requests'[j], addresses', primaryIp')
                              /\ Marked(requests'[j], addresses')
    <2> TAKE j \in Client \ {k}
    <2>1. /\ Follows(requests[j], requests'[j]) /\ Shape(requests[j])
          /\ Half(requests[j], addresses, primaryIp) /\ Marked(requests[j], addresses)
        BY DEF IpsInv
    <2>2. Shape(requests'[j])
        BY <2>1 DEF Shape, Follows
    <2>3. Half(requests'[j], addresses', primaryIp')
        BY <1>1, <2>1, HalfFollows
    <2>4. Marked(requests'[j], addresses')
        BY <2>1, MarkedFollows
    <2> QED
        BY <2>2, <2>3, <2>4
<1>3. \A j, l \in Client : j # l /\ requests'[j].on \cap requests'[l].on # {} =>
         requests'[j].crossed /\ requests'[l].crossed
    <2> TAKE j, l \in Client
    <2>1. CASE j # k /\ l # k
        BY <2>1 DEF IpsInv, Follows
    <2>2. CASE j = k \/ l = k
        BY <2>2
    <2> QED
        BY <2>1, <2>2
<1>4. \A m \in Machine \ muddled' :
         Good(addresses', primaryIp', m) \/ \E j \in Client : Busy(requests'[j], m)
    <2> TAKE m \in Machine \ muddled'
    <2>1. CASE Good(addresses', primaryIp', m) \/ Busy(requests'[k], m)
        BY <2>1
    <2>2. CASE /\ m \notin muddled /\ ~Busy(requests[k], m)
               /\ Good(addresses, primaryIp, m) => Good(addresses', primaryIp', m)
        <3>1. CASE Good(addresses, primaryIp, m)
            BY <2>2, <3>1
        <3>2. CASE \E j \in Client : Busy(requests[j], m)
            <4>1. PICK j \in Client \ {k} : Busy(requests[j], m)
                BY <2>2, <3>2
            <4>2. Busy(requests'[j], m)
                BY <4>1 DEF Busy, Follows
            <4> QED
                BY <4>2
        <3> QED
            BY <2>2, <3>1, <3>2 DEF IpsInv
    <2> QED
        BY <2>1, <2>2
<1>5. \A j \in Client : /\ Shape(requests[j])'
                        /\ Half(requests[j], addresses, primaryIp)'
                        /\ Marked(requests[j], addresses)'
    BY <1>2
<1>6. \A m \in Machine \ muddled' :
         Good(addresses, primaryIp, m)' \/ \E j \in Client : Busy(requests[j], m)'
    BY <1>4
<1> QED
    BY <1>3, <1>5, <1>6 DEF IpsInv
LEMMA ShapeFollows ==
    ASSUME NEW r, NEW s, Follows(r, s), Shape(r)
    PROVE  Shape(s)
BY DEF Follows, Shape

\* A request begins: it crosses the others, and is as it was given but for that.
LEMMA BeginStep ==
    ASSUME NEW k \in Client, NEW q \in Ips!RequestState, ~q.crossed,
           Ips!TypeOK, Ips!Begin(k, q)
    PROVE  /\ requests' \in [Client -> Ips!RequestState]
           /\ Follows(q, requests'[k])
           /\ \A j \in Client \ {k} :
                 /\ Follows(requests[j], requests'[j])
                 /\ requests'[j].on \cap requests'[k].on # {} =>
                       requests'[j].crossed /\ requests'[k].crossed
<1>1. requests \in [Client -> Ips!RequestState]
    BY DEF Ips!TypeOK
<1> DEFINE c == \E m \in q.on : Ips!Others(k, m) # {}
           o(j) == requests[j].crossed \/ requests[j].on \cap q.on # {}
<1>2. requests' = [j \in Client |-> IF j = k THEN [q EXCEPT !.crossed = c]
                                    ELSE [requests[j] EXCEPT !.crossed = o(j)]]
    BY DEF Ips!Begin
<1>3. \A j \in Client \ {k} : q.on \cap requests[j].on # {} => c
    BY <1>1 DEF Ips!Others, Ips!RequestState
<1>4. c \in BOOLEAN /\ \A j \in Client : o(j) \in BOOLEAN
    OBVIOUS
<1>5. \A j \in Client : (requests[j].crossed => o(j)) /\ (requests[j].on \cap q.on # {} => o(j))
    OBVIOUS
<1> HIDE DEF c, o
<1>6. [q EXCEPT !.crossed = c] \in Ips!RequestState
    BY <1>4 DEF Ips!RequestState
<1>7. \A j \in Client : [requests[j] EXCEPT !.crossed = o(j)] \in Ips!RequestState
    BY <1>1, <1>4 DEF Ips!RequestState
<1>8. requests' \in [Client -> Ips!RequestState]
    BY <1>2, <1>6, <1>7
<1>9. requests'[k] = [q EXCEPT !.crossed = c]
    BY <1>2
<1>10. Follows(q, requests'[k]) /\ (requests'[k].crossed <=> c) /\ requests'[k].on = q.on
    BY <1>4, <1>9 DEF Follows, Ips!RequestState
<1>11. \A j \in Client \ {k} : /\ Follows(requests[j], requests'[j])
                               /\ requests'[j].on = requests[j].on
                               /\ requests'[j].crossed <=> o(j)
    BY <1>1, <1>2, <1>4, <1>5 DEF Follows, Ips!RequestState
<1> QED
    BY <1>3, <1>5, <1>8, <1>10, <1>11

\* r has gone on to pc.
Moved(r, s, pc) ==
    /\ s.pc = pc /\ s.id = r.id /\ s.row = r.row /\ s.makePrimary = r.makePrimary
    /\ s.on = r.on /\ s.found = r.found /\ s.seen = r.seen /\ (s.crossed <=> r.crossed)

Awaits == {"clear", "setPrimary", "insert", "update", "clearOthers", "mark", "machine",
           "clearAll", "find", "flag"}

LEMMA GoStep ==
    ASSUME NEW k \in Client, NEW pc \in Awaits \cup {"idle"}, NEW ids,
           Ips!TypeOK, IpsInv, Ips!Go(k, pc, ids)
    PROVE  /\ requests' \in [Client -> Ips!RequestState]
           /\ pc = "idle" => requests'[k] = Ips!Idle
           /\ pc # "idle" => Moved(requests[k], requests'[k], pc)
           /\ \A j \in Client \ {k} :
                 /\ Follows(requests[j], requests'[j])
                 /\ requests'[j].seen \cap ids = {}
                 /\ \A m \in requests[j].on \cap requests[k].on : requests'[j].crossed
                 /\ requests'[j].on \cap requests'[k].on # {} =>
                       requests'[j].crossed /\ requests'[k].crossed
<1>1. requests \in [Client -> Ips!RequestState]
    BY DEF Ips!TypeOK
<1>2. requests' = [j \in Client |->
                      IF j # k THEN [requests[j] EXCEPT !.seen = requests[j].seen \ ids]
                      ELSE IF pc = "idle" THEN Ips!Idle ELSE [requests[j] EXCEPT !.pc = pc]]
    BY DEF Ips!Go
<1>3. \A j \in Client : /\ [requests[j] EXCEPT !.seen = requests[j].seen \ ids] \in Ips!RequestState
                        /\ pc # "idle" => [requests[j] EXCEPT !.pc = pc] \in Ips!RequestState
    BY <1>1 DEF Ips!RequestState, Awaits
<1>4. requests' \in [Client -> Ips!RequestState]
    BY <1>2, <1>3, IpsValues
<1>5. pc = "idle" => requests'[k] = Ips!Idle
    BY <1>2
<1>6. ASSUME pc # "idle" PROVE Moved(requests[k], requests'[k], pc)
    <2>1. requests'[k] = [requests[k] EXCEPT !.pc = pc]
        BY <1>2, <1>6
    <2> QED
        BY <1>1, <2>1 DEF Moved, Ips!RequestState
<1>7. \A j \in Client \ {k} : /\ Follows(requests[j], requests'[j])
                              /\ requests'[j].seen \cap ids = {}
                              /\ requests'[j].on = requests[j].on
                              /\ requests'[j].crossed <=> requests[j].crossed
    <2> TAKE j \in Client \ {k}
    <2>1. requests'[j] = [requests[j] EXCEPT !.seen = requests[j].seen \ ids]
        BY <1>2
    <2> QED
        BY <1>1, <2>1 DEF Follows, Ips!RequestState
<1>8. /\ requests'[k].on \subseteq requests[k].on
      /\ requests'[k].on # {} => (requests'[k].crossed <=> requests[k].crossed)
    BY <1>5, <1>6, IpsValues DEF Moved
<1>9. \A j \in Client \ {k} : requests[j].on \cap requests[k].on # {} =>
                                 requests[j].crossed /\ requests[k].crossed
    BY DEF IpsInv
<1> QED
    BY <1>4, <1>5, <1>6, <1>7, <1>8, <1>9

\* A step of k that writes no row and no machine.
LEMMA IpsNoRow ==
    ASSUME NEW k \in Client, Ips!TypeOK, IpsInv,
           addresses' = addresses, primaryIp' = primaryIp,
           requests' \in [Client -> Ips!RequestState],
           \A j \in Client \ {k} :
              /\ Follows(requests[j], requests'[j])
              /\ requests'[j].on \cap requests'[k].on # {} =>
                    requests'[j].crossed /\ requests'[k].crossed,
           Shape(requests'[k]), Half(requests'[k], addresses, primaryIp),
           Marked(requests'[k], addresses),
           muddled \subseteq muddled',
           \A m \in Machine \ muddled' : Busy(requests[k], m) => Busy(requests'[k], m)
    PROVE  IpsInv'
<1>1. \A m, ids : Calm(m, ids)
    BY DEF Calm
<1>2. \A i : KeptRow(i)
    BY DEF KeptRow
<1>3. Housed(addresses', primaryIp') /\ IsFiniteSet(Used(addresses'))
    BY DEF IpsInv
<1>4. \A m \in Machine \ muddled' :
         \/ Busy(requests'[k], m)
         \/ m \notin muddled /\ ~Busy(requests[k], m)
    OBVIOUS
<1>5. Half(requests'[k], addresses', primaryIp') /\ Marked(requests'[k], addresses')
    OBVIOUS
<1> QED
    BY <1>1, <1>2, <1>3, <1>4, <1>5, IpsConclude
-----------------------------------------------------------------------------
\* A step that only begins a request.
LEMMA OnlyBegins ==
    ASSUME NEW k \in Client, NEW q \in Ips!RequestState, ~q.crossed,
           Ips!TypeOK, IpsInv, requests[k].pc = "idle", Ips!Begin(k, q),
           addresses' = addresses, primaryIp' = primaryIp, muddled' = muddled,
           bare' \in Nat, called' \in Nat,
           Shape(q), Half(q, addresses, primaryIp), q.pc # "mark"
    PROVE  Ips!TypeOK' /\ IpsInv'
<1>1. /\ requests' \in [Client -> Ips!RequestState]
      /\ Follows(q, requests'[k])
      /\ \A j \in Client \ {k} :
            /\ Follows(requests[j], requests'[j])
            /\ requests'[j].on \cap requests'[k].on # {} =>
                  requests'[j].crossed /\ requests'[k].crossed
    BY BeginStep
<1>2. Ips!TypeOK'
    BY <1>1 DEF Ips!TypeOK
<1>3. Shape(requests'[k])
    BY <1>1, ShapeFollows
<1>4. Half(requests'[k], addresses, primaryIp)
    BY <1>1 DEF Half, Follows, Named
<1>5. Marked(requests'[k], addresses)
    BY <1>1 DEF Marked, Follows
<1>6. \A m : ~Busy(requests[k], m)
    BY DEF Busy
<1> QED
    BY <1>1, <1>2, <1>3, <1>4, <1>5, <1>6, IpsNoRow

LEMMA IpsCreateIP ==
    ASSUME NEW k \in Client, Ips!TypeOK, IpsInv, Ips!CreateIP(k)
    PROVE  Ips!TypeOK' /\ IpsInv'
<1>1. /\ requests[k].pc = "idle" /\ called' \in Nat
      /\ addresses' = addresses /\ primaryIp' = primaryIp /\ muddled' = muddled
    BY DEF Ips!CreateIP, Ips!Ask, Ips!TypeOK
<1>2. PICK a \in Address, n \in Single \cup {Ips!NoOne}, m \in Ips!There \cup {Ips!NoOne},
           p \in BOOLEAN, f \in BOOLEAN :
             IF Ips!Taken(Ips!NewRow(a, n, m, p))
             THEN f /\ bare' = bare + 1 /\ UNCHANGED requests
             ELSE Ips!Begin(k, Ips!Creation(Ips!NewRow(a, n, m, p), f)) /\ UNCHANGED bare
    BY DEF Ips!CreateIP
<1>3. CASE bare' = bare + 1 /\ requests' = requests
    BY <1>1, <1>3 DEF Ips!TypeOK, IpsInv
<1>4. CASE Ips!Begin(k, Ips!Creation(Ips!NewRow(a, n, m, p), f)) /\ bare' = bare
    <2> DEFINE r == Ips!NewRow(a, n, m, p)
               q == Ips!Creation(r, f)
    <2>1. m \in Machine \cup {"none"}
        BY IpsValues DEF Ips!There
    <2>2. r \in Ips!Row
        BY <2>1, IpsValues DEF Ips!NewRow, Ips!Row
    <2>3. r.there /\ r.machine = m /\ (r.primary <=> p)
        BY DEF Ips!NewRow
    <2> HIDE DEF r
    <2>4. CASE p /\ m # "none"
        <3>1. q = [Ips!Idle EXCEPT !.pc = "clear", !.row = r, !.iface = f, !.on = {r.machine}]
            BY <2>3, <2>4, IpsValues DEF Ips!Creation
        <3> DEFINE o == {r.machine}
        <3>5. o \subseteq Machine /\ q = [Ips!Idle EXCEPT !.pc = "clear", !.row = r, !.iface = f, !.on = o]
            BY <2>1, <2>3, <2>4, <3>1
        <3> HIDE DEF o
        <3>2. q \in Ips!RequestState
            BY <2>2, <3>5, IpsValues DEF Ips!RequestState
        <3>3. /\ q.pc = "clear" /\ q.row = r /\ q.on = {m} /\ ~q.crossed /\ ~q.makePrimary
            BY <2>3, <3>1, IpsValues DEF Ips!Idle
        <3> HIDE DEF q
        <3>4. Shape(q) /\ Half(q, addresses, primaryIp)
            BY <2>3, <2>4, <3>3 DEF Shape, Half
        <3> QED
            BY <1>1, <1>4, <3>2, <3>3, <3>4, OnlyBegins DEF Ips!TypeOK, q, r
    <2>5. CASE ~(p /\ m # "none")
        <3>1. q = [Ips!Idle EXCEPT !.pc = "insert", !.row = r, !.iface = f]
            BY <2>3, <2>5, IpsValues DEF Ips!Creation
        <3>2. q \in Ips!RequestState
            BY <2>2, <3>1, IpsValues DEF Ips!RequestState
        <3>3. /\ q.pc = "insert" /\ q.row = r /\ q.on = {} /\ ~q.crossed /\ ~q.makePrimary
            BY <3>1, IpsValues DEF Ips!Idle
        <3> HIDE DEF q
        <3>4. Shape(q) /\ Half(q, addresses, primaryIp)
            BY <2>3, <2>5, <3>3, IpsValues DEF Shape, Half
        <3> QED
            BY <1>1, <1>4, <3>2, <3>3, <3>4, OnlyBegins DEF Ips!TypeOK, q, r
    <2> QED
        BY <2>4, <2>5
<1> QED
    BY <1>2, <1>3, <1>4

LEMMA IpsUpdateIP ==
    ASSUME NEW k \in Client, NEW i \in Thing, Ips!TypeOK, IpsInv, Ips!UpdateIP(k, i)
    PROVE  Ips!TypeOK' /\ IpsInv'
<1>1. /\ requests[k].pc = "idle" /\ called' \in Nat /\ addresses[i].there
      /\ addresses' = addresses /\ primaryIp' = primaryIp /\ muddled' = muddled /\ bare' = bare
    BY SMTT(40) DEF Ips!UpdateIP, Ips!Ask, Ips!TypeOK
<1> DEFINE old == addresses[i]
           status(m, s) == IF m # old.machine THEN IF m = Ips!NoOne THEN "FREE" ELSE "ASSIGNED"
                           ELSE IF s = "keep" THEN old.status ELSE s
           flag(p) == (p = "set") \/ (p = "keep" /\ old.primary)
           new(a, n, m, s, p) ==
               [old EXCEPT !.address = a, !.network = n, !.machine = m,
                           !.primary = flag(p), !.status = status(m, s)]
           q(a, n, m, s, p) ==
               [Ips!Idle EXCEPT !.pc = "update", !.id = {i}, !.row = new(a, n, m, s, p),
                                !.makePrimary = p = "set" /\ m # Ips!NoOne,
                                !.on = {old.machine, m} \cap Machine]
<1>2. PICK a \in Address, n \in Single \cup {Ips!NoOne}, m \in Ips!There \cup {Ips!NoOne},
           s \in {"FREE", "ASSIGNED", "keep"}, p \in {"keep", "set", "unset"} :
             Ips!Begin(k, q(a, n, m, s, p))
    BY DEF Ips!UpdateIP
<1> DEFINE r == new(a, n, m, s, p)
           b == q(a, n, m, s, p)
<1>3. m \in Machine \cup {"none"} /\ old \in Ips!Row
    BY IpsValues DEF Ips!There, Ips!TypeOK
<1>4. status(m, s) \in {"FREE", "ASSIGNED", "CONFLICT"} /\ flag(p) \in BOOLEAN
    BY <1>3 DEF Ips!Row
<1>5. /\ p = "set" => flag(p)
      /\ p # "set" /\ flag(p) => old.primary
    OBVIOUS
<1> HIDE DEF status, flag
<1>6. r \in Ips!Row /\ r.there /\ r.machine = m /\ (r.primary <=> flag(p))
    <2>1. /\ a \in Address /\ n \in Single \cup {"none"}
          /\ old \in [there : BOOLEAN, address : Address \cup {"none"},
                     network : Single \cup {"none"}, machine : Machine \cup {"none"},
                     primary : BOOLEAN, status : {"FREE", "ASSIGNED", "CONFLICT"}]
        BY <1>3, IpsValues DEF Ips!Row
    <2> DEFINE g == flag(p)
               t == status(m, s)
    <2>2. g \in BOOLEAN /\ t \in {"FREE", "ASSIGNED", "CONFLICT"}
        BY <1>4
    <2> HIDE DEF g, t, old
    <2>3. r = [old EXCEPT !.address = a, !.network = n, !.machine = m, !.primary = g, !.status = t]
        BY DEF g, t, new
    <2> HIDE DEF new
    <2>4. r \in Ips!Row /\ r.machine = m /\ (r.primary <=> g) /\ r.there = old.there
        BY <1>3, <2>1, <2>2, <2>3, IpsValues DEF Ips!Row
    <2> QED
        BY <1>1, <2>4 DEF g, old
<1> HIDE DEF new
<1>7. b \in Ips!RequestState
    BY <1>6, IpsValues DEF Ips!RequestState
<1>8. /\ b.pc = "update" /\ b.id = {i} /\ b.row = r /\ b.on = {old.machine, m} \cap Machine
      /\ ~b.crossed /\ (b.makePrimary <=> p = "set" /\ m # "none")
    BY IpsValues DEF Ips!Idle
<1> HIDE DEF q
<1>9. Shape(b)
    BY <1>3, <1>5, <1>6, <1>8 DEF Shape
<1>10. Half(b, addresses, primaryIp)
    <2> SUFFICES ASSUME ~b.makePrimary, b.row.primary, b.row.machine \in Machine
                 PROVE  \A l \in b.id : addresses[l].primary
        BY <1>8 DEF Half
    <2> QED
        BY <1>5, <1>6, <1>8, IpsValues
<1> QED
    BY <1>1, <1>2, <1>7, <1>8, <1>9, <1>10, OnlyBegins DEF Ips!TypeOK

LEMMA PrimaryRowType ==
    ASSUME NEW m \in Machine, NEW a \in Address \cup {"none"}
    PROVE  /\ Ips!PrimaryRow(m, a) \in Ips!Row
           /\ Ips!PrimaryRow(m, a).there /\ Ips!PrimaryRow(m, a).primary
           /\ Ips!PrimaryRow(m, a).machine = m /\ Ips!PrimaryRow(m, a).address = a
BY IpsValues DEF Ips!PrimaryRow, Ips!Row

LEMMA IpsUpdateMachine ==
    ASSUME NEW k \in Client, NEW m \in Machine, Ips!TypeOK, IpsInv, Ips!UpdateMachine(k, m)
    PROVE  Ips!TypeOK' /\ IpsInv'
<1>1. /\ requests[k].pc = "idle" /\ called' \in Nat
      /\ addresses' = addresses /\ primaryIp' = primaryIp /\ muddled' = muddled /\ bare' = bare
    BY DEF Ips!UpdateMachine, Ips!Ask, Ips!TypeOK
<1> DEFINE q(a) == [Ips!Idle EXCEPT !.pc = "machine", !.row = Ips!PrimaryRow(m, a), !.on = {m},
                                    !.makePrimary = a \notin {"none", primaryIp[m]}]
<1>2. PICK a \in Address \cup {"none"} : Ips!Begin(k, q(a))
    BY IpsValues DEF Ips!UpdateMachine
<1> DEFINE s == q(a)
           r == Ips!PrimaryRow(m, a)
<1>3. r \in Ips!Row /\ r.there /\ r.primary /\ r.machine = m /\ r.address = a
    BY PrimaryRowType
<1> HIDE DEF r
<1>4. s \in Ips!RequestState
    BY <1>3, IpsValues DEF Ips!RequestState, r
<1>5. /\ s.pc = "machine" /\ s.row = r /\ s.on = {m} /\ ~s.crossed
      /\ s.makePrimary <=> a \notin {"none", primaryIp[m]}
    BY IpsValues DEF Ips!Idle, r
<1> HIDE DEF q
<1>6. Shape(s)
    BY <1>3, <1>5 DEF Shape
<1>7. Half(s, addresses, primaryIp)
    BY <1>3, <1>5 DEF Half, Named
<1> QED
    BY <1>1, <1>2, <1>4, <1>5, <1>6, <1>7, OnlyBegins DEF Ips!TypeOK
-----------------------------------------------------------------------------
LEMMA TwoIn ==
    ASSUME NEW S, IsFiniteSet(S), NEW x \in S, NEW y \in S, x # y
    PROVE  Cardinality(S) > 1
<1>1. IsFiniteSet(S \ {x}) /\ Cardinality(S \ {x}) = Cardinality(S) - 1
    BY FS_RemoveElement
<1>2. y \in S \ {x}
    OBVIOUS
<1>3. /\ IsFiniteSet((S \ {x}) \ {y})
      /\ Cardinality((S \ {x}) \ {y}) = Cardinality(S \ {x}) - 1
    BY <1>1, <1>2, FS_RemoveElement
<1>4. Cardinality(S) \in Nat /\ Cardinality((S \ {x}) \ {y}) \in Nat
    BY <1>3, FS_CardinalityType
<1> QED
    BY <1>1, <1>3, <1>4

LEMMA SameCount == ASSUME NEW S PROVE Ips!Cardinality(S) = Cardinality(S)
BY DEF Ips!Cardinality, Cardinality

LEMMA IpsReadAddresses ==
    ASSUME NEW k \in Client, Ips!TypeOK, IpsInv, Ips!ReadAddresses(k)
    PROVE  Ips!TypeOK' /\ IpsInv'
<1>1. /\ requests[k].pc = "idle" /\ called' \in Nat
      /\ addresses' = addresses /\ primaryIp' = primaryIp /\ muddled' = muddled /\ bare' = bare
    BY DEF Ips!ReadAddresses, Ips!Ask, Ips!TypeOK
<1>2. requests \in [Client -> Ips!RequestState]
    BY DEF Ips!TypeOK
<1> DEFINE its == UNION {Ips!Assigned(a) : a \in Address}
           two == {a \in Address : Ips!Shared(a)}
           q   == [Ips!Idle EXCEPT !.pc = "mark", !.seen = its, !.found = two]
<1>3. requests' = [requests EXCEPT ![k] = q]
    BY DEF Ips!ReadAddresses
<1>4. its \subseteq Thing /\ two \subseteq Address
    BY DEF Ips!Assigned
<1>5. \A i \in its : /\ addresses[i].there /\ i \in Thing
                     /\ \A j \in its : /\ addresses[i].address = addresses[j].address
                                       /\ addresses[i].machine # addresses[j].machine
                                       => addresses[i].address \in two
    <2> SUFFICES ASSUME NEW i \in its
                 PROVE  /\ addresses[i].there /\ i \in Thing
                        /\ \A j \in its : /\ addresses[i].address = addresses[j].address
                                          /\ addresses[i].machine # addresses[j].machine
                                          => addresses[i].address \in two
        OBVIOUS
    <2>1. PICK a \in Address : i \in Ips!Assigned(a)
        OBVIOUS
    <2>2. i \in Thing /\ addresses[i].machine # "none" /\ addresses[i].address = a
        BY <2>1, IpsValues DEF Ips!Assigned
    <2>3. addresses[i].there
        BY <2>2 DEF IpsInv, Housed
    <2>4. ASSUME NEW j \in its, addresses[j].address = a,
                 addresses[i].machine # addresses[j].machine
          PROVE  a \in two
        <3> DEFINE S == {addresses[l].machine : l \in Ips!Assigned(a)}
        <3>1. PICK b \in Address : j \in Ips!Assigned(b)
            BY <2>4
        <3>2. j \in Ips!Assigned(a)
            BY <2>4, <3>1 DEF Ips!Assigned
        <3>3. IsFiniteSet(Ips!Assigned(a))
            <4>1. Ips!Assigned(a) \subseteq Used(addresses)
                BY IpsValues DEF Ips!Assigned, Used
            <4> QED
                BY <4>1, FS_Subset DEF IpsInv
        <3>4. IsFiniteSet(S)
            <4> DEFINE A == Ips!Assigned(a)
                       g == [l \in A |-> addresses[l].machine]
            <4>1. g \in Surjection(A, S)
                BY DEF Surjection
            <4> HIDE DEF g, S
            <4> QED
                BY <3>3, <4>1, FS_Surjection
        <3>5. addresses[i].machine \in S /\ addresses[j].machine \in S
            BY <2>1, <2>2, <3>2
        <3>6. Cardinality(S) > 1
            BY <2>4, <3>4, <3>5, TwoIn
        <3>7. Ips!Shared(a) <=> Cardinality(S) > 1
            BY SameCount DEF Ips!Shared
        <3> HIDE DEF S
        <3> QED
            BY <3>6, <3>7
    <2> QED
        BY <2>2, <2>3, <2>4
<1> HIDE DEF its, two
<1>6. q \in Ips!RequestState
    BY <1>4, IpsValues DEF Ips!RequestState
<1>7. /\ q.pc = "mark" /\ q.on = {} /\ q.seen = its /\ q.found = two
    BY IpsValues DEF Ips!Idle
<1> HIDE DEF q
<1>8. requests' \in [Client -> Ips!RequestState] /\ requests'[k] = q
    BY <1>2, <1>3, <1>6
<1>9. \A j \in Client \ {k} : Follows(requests[j], requests'[j])
    BY <1>2, <1>3 DEF Follows
<1>10. Shape(q) /\ Half(q, addresses, primaryIp)
    BY <1>7 DEF Shape, Half
<1>11. Marked(q, addresses)
    BY <1>5, <1>7 DEF Marked
<1>12. \A m : ~Busy(requests[k], m)
    BY <1>1 DEF Busy
<1>13. Ips!TypeOK'
    BY <1>1, <1>8 DEF Ips!TypeOK
<1> QED
    BY <1>1, <1>7, <1>8, <1>9, <1>10, <1>11, <1>12, <1>13, IpsNoRow

LEMMA IpsEndDetection ==
    ASSUME NEW k \in Client, Ips!TypeOK, IpsInv, Ips!EndDetection(k)
    PROVE  Ips!TypeOK' /\ IpsInv'
<1>1. /\ requests[k].pc = "mark" /\ Ips!Go(k, "idle", {}) /\ called' = called
      /\ addresses' = addresses /\ primaryIp' = primaryIp /\ muddled' = muddled /\ bare' = bare
    BY DEF Ips!EndDetection, Ips!At
<1>2. /\ requests' \in [Client -> Ips!RequestState] /\ requests'[k] = Ips!Idle
      /\ \A j \in Client \ {k} :
            /\ Follows(requests[j], requests'[j])
            /\ requests'[j].on \cap requests'[k].on # {} =>
                  requests'[j].crossed /\ requests'[k].crossed
    BY <1>1, GoStep
<1>3. Ips!TypeOK'
    BY <1>1, <1>2 DEF Ips!TypeOK
<1>4. \A m : ~Busy(requests[k], m)
    BY <1>1 DEF Busy
<1> QED
    BY <1>1, <1>2, <1>3, <1>4, IpsNoRow, IdleFine

LEMMA IpsFail ==
    ASSUME NEW k \in Client, Ips!TypeOK, IpsInv, Ips!Fail(k)
    PROVE  Ips!TypeOK' /\ IpsInv'
<1>1. /\ Ips!Go(k, "idle", {}) /\ called' = called
      /\ addresses' = addresses /\ primaryIp' = primaryIp
      /\ muddled' = muddled \cup requests[k].on
      /\ bare' = bare + IF requests[k].iface THEN 1 ELSE 0
    BY DEF Ips!Fail, Ips!Settle
<1>2. /\ requests' \in [Client -> Ips!RequestState] /\ requests'[k] = Ips!Idle
      /\ \A j \in Client \ {k} :
            /\ Follows(requests[j], requests'[j])
            /\ requests'[j].on \cap requests'[k].on # {} =>
                  requests'[j].crossed /\ requests'[k].crossed
    BY <1>1, GoStep
<1>3. bare' \in Nat
    BY <1>1 DEF Ips!TypeOK
<1>4. requests[k].on \subseteq Machine
    BY DEF Ips!TypeOK, Ips!RequestState
<1>5. Ips!TypeOK'
    BY <1>1, <1>2, <1>3, <1>4 DEF Ips!TypeOK
<1>6. \A m \in Machine \ muddled' : ~Busy(requests[k], m)
    BY <1>1 DEF Busy
<1> QED
    BY <1>1, <1>2, <1>5, <1>6, IpsNoRow, IdleFine

LEMMA IpsFindIP ==
    ASSUME NEW k \in Client, Ips!TypeOK, IpsInv, Ips!FindIP(k)
    PROVE  Ips!TypeOK' /\ IpsInv'
<1> DEFINE r == requests[k]
<1>1. /\ r.pc = "find" /\ called' = called /\ bare' = bare /\ muddled' = muddled
      /\ addresses' = addresses /\ primaryIp' = primaryIp
    BY DEF Ips!FindIP, Ips!At
<1>2. requests \in [Client -> Ips!RequestState]
    BY DEF Ips!TypeOK
<1>3. Shape(r) /\ Half(r, addresses, primaryIp)
    BY DEF IpsInv
<1>4. r.row.there /\ r.row.primary /\ r.on = {r.row.machine}
    BY <1>1, <1>3 DEF Shape
<1>5. ~r.crossed => Named(r, primaryIp) /\ Flags(addresses, r.row.machine) = {}
    BY <1>1, <1>3 DEF Half
<1>6. CASE Ips!Go(k, "insert", {})
    <2>1. /\ requests' \in [Client -> Ips!RequestState] /\ Moved(r, requests'[k], "insert")
          /\ \A j \in Client \ {k} :
                /\ Follows(requests[j], requests'[j])
                /\ requests'[j].on \cap requests'[k].on # {} =>
                      requests'[j].crossed /\ requests'[k].crossed
        BY <1>6, GoStep DEF Awaits
    <2>2. Ips!TypeOK'
        BY <1>1, <2>1 DEF Ips!TypeOK
    <2>3. /\ Shape(requests'[k]) /\ Half(requests'[k], addresses, primaryIp)
          /\ Marked(requests'[k], addresses)
        BY <1>4, <1>5, <2>1 DEF Moved, Shape, Half, Marked, Named
    <2>4. \A m : Busy(r, m) => Busy(requests'[k], m)
        BY <2>1 DEF Moved, Busy
    <2> QED
        BY <1>1, <2>1, <2>2, <2>3, <2>4, IpsNoRow
<1>7. ASSUME NEW i \in Thing, requests' = [requests EXCEPT ![k] = [r EXCEPT !.pc = "flag", !.id = {i}]]
      PROVE  Ips!TypeOK' /\ IpsInv'
    <2> DEFINE q == [r EXCEPT !.pc = "flag", !.id = {i}]
    <2>1. r \in Ips!RequestState
        BY <1>2
    <2> HIDE DEF r
    <2>2. q \in Ips!RequestState
        BY <2>1 DEF Ips!RequestState
    <2>3. /\ q.pc = "flag" /\ q.id = {i} /\ q.row = r.row /\ q.on = r.on
          /\ q.crossed <=> r.crossed
        BY <2>1 DEF Ips!RequestState
    <2>4. requests' \in [Client -> Ips!RequestState] /\ requests'[k] = q
        BY <1>2, <1>7, <2>2 DEF r
    <2> HIDE DEF q
    <2>5. \A j \in Client \ {k} : /\ Follows(requests[j], requests'[j])
                                  /\ requests'[j] = requests[j]
        BY <1>2, <1>7 DEF Follows
    <2>6. \A j \in Client \ {k} : requests[j].on \cap r.on # {} =>
                                     requests[j].crossed /\ r.crossed
        BY DEF IpsInv, r
    <2>7. Ips!TypeOK'
        BY <1>1, <2>4 DEF Ips!TypeOK
    <2>8. Shape(q) /\ Half(q, addresses, primaryIp) /\ Marked(q, addresses)
        BY <1>4, <1>5, <2>3 DEF Shape, Half, Marked, Named
    <2>9. \A m : Busy(requests[k], m) => Busy(requests'[k], m)
        BY <2>3, <2>4, <1>1 DEF Busy, r
    <2>10. \A j \in Client \ {k} :
              /\ Follows(requests[j], requests'[j])
              /\ requests'[j].on \cap requests'[k].on # {} =>
                    requests'[j].crossed /\ requests'[k].crossed
        BY <2>3, <2>4, <2>5, <2>6
    <2> QED
        BY <1>1, <2>4, <2>7, <2>8, <2>9, <2>10, IpsNoRow
<1> QED
    BY <1>6, <1>7 DEF Ips!FindIP
-----------------------------------------------------------------------------
\* Every flag of the machine of the row is taken away but those of ids.
LEMMA IpsCleared ==
    ASSUME NEW k \in Client, Ips!TypeOK, IpsInv, NEW pc \in Awaits, NEW ids,
           requests[k].pc \in {"clear", "clearOthers", "clearAll"},
           pc \in {"setPrimary", "find"}, pc = "find" => requests[k].pc = "clearAll",
           pc = "setPrimary" => requests[k].pc # "clearAll",
           ids = IF requests[k].pc = "clearOthers" THEN requests[k].id ELSE {},
           addresses' = Ips!Cleared(requests[k].row, ids),
           Ips!Go(k, pc, Ips!Touched(requests[k].row, ids)),
           primaryIp' = primaryIp, muddled' = muddled, bare' = bare, called' = called
    PROVE  Ips!TypeOK' /\ IpsInv'
<1> DEFINE r == requests[k]
           m0 == r.row.machine
<1>1. r \in Ips!RequestState /\ addresses \in [Thing -> Ips!Row]
    BY DEF Ips!TypeOK
<1>2. Shape(r) /\ Half(r, addresses, primaryIp) /\ Housed(addresses, primaryIp)
    BY DEF IpsInv
<1>3. m0 \in r.on /\ m0 \in Machine /\ r.row.primary /\ r.row.there
    BY <1>1, <1>2 DEF Shape, Ips!RequestState
<1>4. \A i \in Thing :
         /\ addresses'[i] = IF i \notin ids /\ addresses[i].machine = m0
                            THEN [addresses[i] EXCEPT !.primary = FALSE] ELSE addresses[i]
    BY DEF Ips!Cleared
<1>5. \A i \in Thing :
         /\ addresses'[i].there = addresses[i].there
         /\ addresses'[i].address = addresses[i].address
         /\ addresses'[i].machine = addresses[i].machine
         /\ addresses'[i].status = addresses[i].status
         /\ addresses[i].machine # m0 \/ i \in ids =>
               (addresses'[i].primary <=> addresses[i].primary)
         /\ addresses[i].machine = m0 /\ i \notin ids => ~addresses'[i].primary
    BY <1>1, <1>4 DEF Ips!Row
<1>6. addresses' \in [Thing -> Ips!Row]
    BY <1>1 DEF Ips!Cleared, Ips!Row
<1>7. /\ requests' \in [Client -> Ips!RequestState] /\ Moved(r, requests'[k], pc)
      /\ \A j \in Client \ {k} :
            /\ Follows(requests[j], requests'[j])
            /\ \A m \in requests[j].on \cap r.on : requests'[j].crossed
            /\ requests'[j].on \cap requests'[k].on # {} =>
                  requests'[j].crossed /\ requests'[k].crossed
    BY GoStep DEF Awaits
<1>8. Ips!TypeOK'
    BY <1>6, <1>7 DEF Ips!TypeOK
<1>9. \A m, is : m # m0 => Calm(m, is)
    BY <1>5 DEF Calm
<1>10. \A i \in Thing : KeptRow(i)
    BY <1>5 DEF KeptRow
<1>11. \A j \in Client \ {k} :
          /\ \A m \in requests[j].on : requests'[j].crossed \/ Calm(m, requests[j].id)
          /\ \A i \in requests'[j].seen : KeptRow(i)
    BY <1>3, <1>7, <1>9, <1>10 DEF Ips!RequestState
<1>12. Shape(requests'[k])
    BY <1>2, <1>3, <1>7 DEF Shape, Moved
<1>13. Marked(requests'[k], addresses')
    BY <1>7 DEF Marked, Moved
<1>14. Flags(addresses', m0) \subseteq ids
    BY <1>5 DEF Flags
<1>15. Half(requests'[k], addresses', primaryIp')
    <2> DEFINE s == requests'[k]
    <2>1. /\ s.pc = pc /\ s.id = r.id /\ s.row = r.row /\ (s.makePrimary <=> r.makePrimary)
          /\ s.on = r.on /\ (s.crossed <=> r.crossed)
        BY <1>7 DEF Moved
    <2>2. r.id \subseteq Thing
        BY <1>1 DEF Ips!RequestState
    <2> HIDE DEF s
    <2> SUFFICES ASSUME ~s.crossed PROVE Half(s, addresses', primaryIp')
        BY DEF Half, s
    <2>3. CASE r.pc = "clear"
        BY <1>2, <1>14, <2>1, <2>3 DEF Half, Shape
    <2>4. CASE r.pc = "clearAll"
        BY <1>2, <1>14, <2>1, <2>4 DEF Half, Shape, Named
    <2>5. CASE r.pc = "clearOthers"
        BY <1>2, <1>5, <1>14, <2>1, <2>2, <2>5 DEF Half, Shape
    <2> QED
        BY <2>3, <2>4, <2>5
<1>16. Housed(addresses', primaryIp')
    BY <1>2, <1>5 DEF Housed
<1>17. Used(addresses') = Used(addresses)
    BY <1>5 DEF Used
<1>18. IsFiniteSet(Used(addresses'))
    BY <1>17 DEF IpsInv
<1>19. Busy(requests'[k], m0)
    BY <1>3, <1>7 DEF Busy, Moved
<1>20. \A m \in Machine : m # m0 => /\ ~Busy(r, m)
                                    /\ Good(addresses, primaryIp, m) => Good(addresses', primaryIp', m)
    BY <1>5 DEF Busy, Good, Flags
<1> QED
    BY <1>7, <1>8, <1>11, <1>12, <1>13, <1>15, <1>16, <1>18, <1>19, <1>20, IpsConclude

LEMMA IpsClearFlags ==
    ASSUME NEW k \in Client, Ips!TypeOK, IpsInv,
           Ips!ClearFlags(k) \/ Ips!ClearOthers(k) \/ Ips!ClearAll(k)
    PROVE  Ips!TypeOK' /\ IpsInv'
<1>1. CASE Ips!ClearFlags(k)
    BY <1>1, IpsCleared DEF Ips!ClearFlags, Ips!At, Awaits
<1>2. CASE Ips!ClearOthers(k)
    BY <1>2, IpsCleared DEF Ips!ClearOthers, Ips!At, Awaits
<1>3. CASE Ips!ClearAll(k)
    BY <1>3, IpsCleared DEF Ips!ClearAll, Ips!At, Awaits
<1> QED
    BY <1>1, <1>2, <1>3
LEMMA IpsThere == \A m \in Ips!There : m \in Machine /\ primaryIp[m] # "gone"
BY IpsValues DEF Ips!There

LEMMA IpsSetPrimary ==
    ASSUME NEW k \in Client, Ips!TypeOK, IpsInv, Ips!SetPrimary(k)
    PROVE  Ips!TypeOK' /\ IpsInv'
<1> DEFINE r == requests[k]
           m0 == r.row.machine
<1>1. /\ r.pc = "setPrimary" /\ addresses' = addresses /\ bare' = bare /\ called' = called
      /\ primaryIp' = [m \in Machine |-> IF m = m0 THEN r.row.address ELSE primaryIp[m]]
    BY DEF Ips!SetPrimary, Ips!At
<1>2. r \in Ips!RequestState /\ r.row \in Ips!Row /\ primaryIp \in [Machine -> Address \cup {"none", "gone"}]
    BY IpsValues DEF Ips!TypeOK, Ips!RequestState
<1>3. Shape(r) /\ Half(r, addresses, primaryIp) /\ Housed(addresses, primaryIp)
    BY DEF IpsInv
<1>4. m0 \in r.on /\ m0 \in Machine /\ r.row.primary /\ r.row.there
    BY <1>1, <1>2, <1>3 DEF Shape, Ips!RequestState
<1>5. r.row.address \in Address \cup {"none"}
    BY <1>2, IpsValues DEF Ips!Row
<1>6. /\ primaryIp' \in [Machine -> Address \cup {"none", "gone"}]
      /\ primaryIp'[m0] = r.row.address /\ primaryIp'[m0] # "gone"
      /\ \A m \in Machine : m # m0 => primaryIp'[m] = primaryIp[m]
    BY <1>1, <1>2, <1>4, <1>5, IpsValues
<1>7. Housed(addresses', primaryIp')
    BY <1>1, <1>3, <1>6 DEF Housed
<1>8. \A m \in Machine : \A ids : m # m0 => Calm(m, ids)
    BY <1>1, <1>6 DEF Calm
<1>9. \A i : KeptRow(i)
    BY <1>1 DEF KeptRow
<1>10. IsFiniteSet(Used(addresses'))
    BY <1>1 DEF IpsInv
<1>11. \A m \in Machine : m # m0 => /\ ~Busy(r, m)
                                    /\ Good(addresses, primaryIp, m) => Good(addresses', primaryIp', m)
    BY <1>1, <1>6 DEF Busy, Good
<1>12. \A j \in Client : requests[j].on \subseteq Machine
    BY DEF Ips!TypeOK, Ips!RequestState
<1>13. CASE r.makePrimary
    <2>1. /\ Ips!Go(k, "idle", {})
          /\ muddled' = IF ~r.crossed THEN muddled \ (r.on \cap {m0}) ELSE muddled \cup r.on
        BY <1>13 DEF Ips!SetPrimary, Ips!Settle
    <2>2. /\ requests' \in [Client -> Ips!RequestState] /\ requests'[k] = Ips!Idle
          /\ \A j \in Client \ {k} :
                /\ Follows(requests[j], requests'[j])
                /\ \A m \in requests[j].on \cap r.on : requests'[j].crossed
                /\ requests'[j].on \cap requests'[k].on # {} =>
                      requests'[j].crossed /\ requests'[k].crossed
        BY <2>1, GoStep
    <2>3. \A j \in Client \ {k} :
             \A m \in requests[j].on : requests'[j].crossed \/ Calm(m, requests[j].id)
        BY <1>4, <1>8, <1>12, <2>2
    <2>4. muddled' \subseteq Machine
        BY <1>2, <2>1 DEF Ips!TypeOK, Ips!RequestState
    <2>5. Ips!TypeOK'
        BY <1>1, <1>6, <2>2, <2>4, IpsValues DEF Ips!TypeOK
    <2>6. ~r.crossed => Good(addresses', primaryIp', m0)
        BY <1>1, <1>2, <1>3, <1>4, <1>6, <1>13 DEF Half, Good, Shape, Flags, Ips!RequestState
    <2>7. /\ m0 \notin muddled' => ~r.crossed
          /\ \A m : m # m0 /\ m \notin muddled' => m \notin muddled
        BY <1>4, <2>1
    <2>8. \A m \in Machine \ muddled' :
             \/ Good(addresses', primaryIp', m)
             \/ /\ m \notin muddled /\ ~Busy(r, m)
                /\ Good(addresses, primaryIp, m) => Good(addresses', primaryIp', m)
        BY <1>11, <2>6, <2>7
    <2> QED
        BY <1>7, <1>9, <1>10, <2>2, <2>3, <2>5, <2>8, IdleFine, IpsConclude
<1>14. CASE ~r.makePrimary
    <2>1. Ips!Go(k, "insert", {}) /\ muddled' = muddled
        BY <1>14 DEF Ips!SetPrimary
    <2>2. /\ requests' \in [Client -> Ips!RequestState] /\ Moved(r, requests'[k], "insert")
          /\ \A j \in Client \ {k} :
                /\ Follows(requests[j], requests'[j])
                /\ \A m \in requests[j].on \cap r.on : requests'[j].crossed
                /\ requests'[j].on \cap requests'[k].on # {} =>
                      requests'[j].crossed /\ requests'[k].crossed
        BY <2>1, GoStep DEF Awaits
    <2>3. \A j \in Client \ {k} :
             \A m \in requests[j].on : requests'[j].crossed \/ Calm(m, requests[j].id)
        BY <1>4, <1>8, <1>12, <2>2
    <2>5. Ips!TypeOK'
        BY <1>1, <1>6, <2>1, <2>2, IpsValues DEF Ips!TypeOK
    <2>6. r.on = {m0}
        BY <1>1, <1>3, <1>4, <1>14 DEF Shape
    <2>7. Shape(requests'[k]) /\ Marked(requests'[k], addresses')
        BY <1>4, <2>2, <2>6 DEF Shape, Moved, Marked
    <2>8. Half(requests'[k], addresses', primaryIp')
        BY <1>1, <1>3, <1>6, <1>14, <2>2, <2>6 DEF Half, Moved, Named
    <2>9. Busy(requests'[k], m0)
        BY <1>4, <2>2 DEF Busy, Moved
    <2> QED
        BY <1>7, <1>9, <1>10, <1>11, <2>1, <2>2, <2>3, <2>5, <2>7, <2>8, <2>9, IpsConclude
<1> QED
    BY <1>13, <1>14

LEMMA IpsInsertIP ==
    ASSUME NEW k \in Client, NEW i \in Thing, Ips!TypeOK, IpsInv, Ips!InsertIP(k, i)
    PROVE  Ips!TypeOK' /\ IpsInv'
<1> DEFINE r == requests[k]
           m0 == r.row.machine
<1>1. /\ r.pc = "insert" /\ ~addresses[i].there /\ m0 \in Ips!There \cup {"none"}
      /\ \A j \in Client : i \notin requests[j].id
      /\ addresses' = [addresses EXCEPT ![i] = r.row]
      /\ Ips!Go(k, "idle", {i})
      /\ muddled' = IF ~r.crossed THEN muddled \ (r.on \cap {m0}) ELSE muddled \cup r.on
      /\ primaryIp' = primaryIp /\ bare' = bare /\ called' = called
    BY IpsValues DEF Ips!InsertIP, Ips!At, Ips!Settle
<1>2. /\ r \in Ips!RequestState /\ r.row \in Ips!Row /\ addresses \in [Thing -> Ips!Row]
      /\ \A j \in Client : requests[j].on \subseteq Machine
    BY DEF Ips!TypeOK, Ips!RequestState
<1>3. Shape(r) /\ Half(r, addresses, primaryIp) /\ Housed(addresses, primaryIp)
    BY DEF IpsInv
<1>4. /\ r.row.there
      /\ \/ r.on = {m0} /\ r.row.primary /\ m0 \in Machine
         \/ r.on = {} /\ (r.row.primary => m0 \notin Machine)
    BY <1>1, <1>2, <1>3 DEF Shape
<1>5. m0 = "none" \/ (m0 \in Machine /\ primaryIp[m0] # "gone")
    BY <1>1, IpsThere
<1>6. addresses[i].machine = "none"
    BY <1>1, <1>3 DEF Housed
<1>7. /\ addresses' \in [Thing -> Ips!Row] /\ addresses'[i] = r.row
      /\ \A l \in Thing : l # i => addresses'[l] = addresses[l]
    BY <1>1, <1>2
<1>8. /\ requests' \in [Client -> Ips!RequestState] /\ requests'[k] = Ips!Idle
      /\ \A j \in Client \ {k} :
            /\ Follows(requests[j], requests'[j])
            /\ requests'[j].seen \cap {i} = {}
            /\ \A m \in requests[j].on \cap r.on : requests'[j].crossed
            /\ requests'[j].on \cap requests'[k].on # {} =>
                  requests'[j].crossed /\ requests'[k].crossed
    BY <1>1, GoStep
<1>9. Ips!TypeOK'
    BY <1>1, <1>2, <1>7, <1>8 DEF Ips!TypeOK
<1>10. \A j \in Client \ {k} : \A l \in requests'[j].seen : KeptRow(l)
    BY <1>7, <1>8 DEF KeptRow, Ips!RequestState
<1>11. \A j \in Client \ {k} :
          \A m \in requests[j].on : requests'[j].crossed \/ Calm(m, requests[j].id)
    BY <1>1, <1>2, <1>4, <1>7, <1>8 DEF Calm
<1>12. Housed(addresses', primaryIp')
    BY <1>1, <1>3, <1>4, <1>5, <1>7 DEF Housed
<1>13. IsFiniteSet(Used(addresses'))
    <2>1. Used(addresses') \subseteq Used(addresses) \cup {i}
        BY <1>7 DEF Used
    <2>2. IsFiniteSet(Used(addresses) \cup {i})
        BY FS_AddElement DEF IpsInv
    <2> QED
        BY <2>1, <2>2, FS_Subset
<1>14. \A m \in Machine : m # m0 \/ r.on = {} =>
          /\ ~Busy(r, m)
          /\ Good(addresses, primaryIp, m) => Good(addresses', primaryIp', m)
    BY <1>1, <1>4, <1>7 DEF Busy, Good, Flags
<1>15. ~r.crossed /\ r.on = {m0} => Good(addresses', primaryIp', m0)
    <2> SUFFICES ASSUME ~r.crossed, r.on = {m0} PROVE Good(addresses', primaryIp', m0)
        OBVIOUS
    <2>1. Flags(addresses, m0) = {} /\ Named(r, primaryIp)
        BY <1>1, <1>3 DEF Half
    <2>2. primaryIp[m0] = r.row.address
        BY <1>4, <1>5, <2>1, IpsValues DEF Named
    <2>3. Flags(addresses', m0) \subseteq {i}
        BY <1>7, <2>1 DEF Flags
    <2> QED
        BY <1>1, <1>7, <2>2, <2>3 DEF Good
<1>16. \A m \in Machine \ muddled' :
          \/ Good(addresses', primaryIp', m)
          \/ /\ m \notin muddled /\ ~Busy(r, m)
             /\ Good(addresses, primaryIp, m) => Good(addresses', primaryIp', m)
    <2> TAKE m \in Machine \ muddled'
    <2>1. CASE m = m0 /\ r.on = {m0}
        BY <1>1, <1>15, <2>1
    <2>2. CASE m # m0 \/ r.on # {m0}
        BY <1>1, <1>4, <1>14, <2>2
    <2> QED
        BY <2>1, <2>2
<1> QED
    BY <1>8, <1>9, <1>10, <1>11, <1>12, <1>13, <1>16, IdleFine, IpsConclude

LEMMA IpsWriteIP ==
    ASSUME NEW k \in Client, NEW i \in Thing, Ips!TypeOK, IpsInv, Ips!WriteIP(k, i)
    PROVE  Ips!TypeOK' /\ IpsInv'
<1> DEFINE r == requests[k]
           m0 == r.row.machine
<1>1. /\ r.pc = "update" /\ i \in r.id
      /\ primaryIp' = primaryIp /\ bare' = bare /\ called' = called
    BY DEF Ips!WriteIP, Ips!At
<1>2. /\ r \in Ips!RequestState /\ r.row \in Ips!Row /\ addresses \in [Thing -> Ips!Row]
      /\ \A j \in Client : requests[j].on \subseteq Machine
    BY DEF Ips!TypeOK, Ips!RequestState
<1>3. Shape(r) /\ Half(r, addresses, primaryIp) /\ Housed(addresses, primaryIp)
    BY DEF IpsInv
<1>4. /\ r.row.there /\ r.id = {i}
      /\ m0 \in Machine => m0 \in r.on
      /\ r.makePrimary => r.row.primary /\ m0 \in Machine
    BY <1>1, <1>3 DEF Shape
<1>5. \A m : ~Busy(r, m)
    BY <1>1 DEF Busy
<1>6. CASE Ips!Go(k, "idle", {}) /\ addresses' = addresses /\ muddled' = muddled
    <2>1. /\ requests' \in [Client -> Ips!RequestState] /\ requests'[k] = Ips!Idle
          /\ \A j \in Client \ {k} :
                /\ Follows(requests[j], requests'[j])
                /\ requests'[j].on \cap requests'[k].on # {} =>
                      requests'[j].crossed /\ requests'[k].crossed
        BY <1>6, GoStep
    <2>2. Ips!TypeOK'
        BY <1>1, <1>6, <2>1 DEF Ips!TypeOK
    <2> QED
        BY <1>1, <1>5, <1>6, <2>1, <2>2, IpsNoRow, IdleFine
<1>7. ASSUME m0 \in Ips!There \cup {"none"}, addresses' = [addresses EXCEPT ![i] = r.row],
             Ips!Go(k, IF r.makePrimary THEN "clearOthers" ELSE "idle", {i}),
             muddled' = IF Ips!Unsettled(k, i) THEN muddled \cup r.on ELSE muddled
      PROVE  Ips!TypeOK' /\ IpsInv'
    <2> DEFINE pc == IF r.makePrimary THEN "clearOthers" ELSE "idle"
    <2>1. pc \in Awaits \cup {"idle"}
        BY DEF Awaits
    <2>2. /\ requests' \in [Client -> Ips!RequestState]
          /\ ~r.makePrimary => requests'[k] = Ips!Idle
          /\ r.makePrimary => Moved(r, requests'[k], "clearOthers")
          /\ \A j \in Client \ {k} :
                /\ Follows(requests[j], requests'[j])
                /\ requests'[j].seen \cap {i} = {}
                /\ \A m \in requests[j].on \cap r.on : requests'[j].crossed
                /\ requests'[j].on \cap requests'[k].on # {} =>
                      requests'[j].crossed /\ requests'[k].crossed
        BY <1>7, <2>1, GoStep
    <2>3. m0 = "none" \/ (m0 \in Machine /\ primaryIp[m0] # "gone")
        BY <1>7, IpsThere
    <2>4. /\ addresses' \in [Thing -> Ips!Row] /\ addresses'[i] = r.row
          /\ \A l \in Thing : l # i => addresses'[l] = addresses[l]
        BY <1>2, <1>7
    <2>5. muddled \subseteq muddled' /\ muddled' \subseteq Machine
        BY <1>2, <1>7 DEF Ips!TypeOK
    <2>6. Ips!TypeOK'
        BY <1>1, <1>7, <2>2, <2>4, <2>5 DEF Ips!TypeOK
    <2>7. \A j \in Client \ {k} : \A l \in requests'[j].seen : KeptRow(l)
        BY <2>2, <2>4 DEF KeptRow, Ips!RequestState
    <2>8. \A m, ids : m # m0 => Calm(m, ids)
        BY <1>1, <2>4 DEF Calm
    <2>9. \A j \in Client \ {k} :
             \A m \in requests[j].on : requests'[j].crossed \/ Calm(m, requests[j].id)
        BY <1>2, <1>4, <2>2, <2>8
    <2>10. Housed(addresses', primaryIp')
        BY <1>1, <1>3, <1>4, <2>3, <2>4 DEF Housed
    <2>11. IsFiniteSet(Used(addresses'))
        <3>1. Used(addresses') \subseteq Used(addresses) \cup {i}
            BY <2>4 DEF Used
        <3>2. IsFiniteSet(Used(addresses) \cup {i})
            BY FS_AddElement DEF IpsInv
        <3> QED
            BY <3>1, <3>2, FS_Subset
    <2>12. \A m \in Machine : m # m0 /\ Good(addresses, primaryIp, m) =>
                                 Good(addresses', primaryIp', m)
        BY <1>1, <2>4 DEF Good, Flags
    <2>13. ASSUME m0 \in Machine \ muddled', ~r.makePrimary, Good(addresses, primaryIp, m0)
           PROVE  Good(addresses', primaryIp', m0)
        <3>1. /\ ~r.crossed
              /\ r.row.primary => /\ addresses[i].machine = m0
                                  /\ addresses[i].address = r.row.address
            BY <1>4, <1>7, <2>13 DEF Ips!Unsettled
        <3>2. r.row.primary => addresses[i].primary
            BY <1>1, <1>3, <2>13, <3>1 DEF Half
        <3>3. Flags(addresses', m0) \subseteq Flags(addresses, m0)
            BY <2>4, <3>1, <3>2 DEF Flags
        <3>4. \A l \in Flags(addresses', m0) : addresses'[l].address = addresses[l].address
            BY <2>4, <3>1 DEF Flags
        <3> QED
            BY <1>1, <2>13, <3>3, <3>4 DEF Good
    <2>14. r.makePrimary => Busy(requests'[k], m0)
        BY <1>4, <2>2 DEF Busy, Moved
    <2>15. \A m \in Machine \ muddled' :
              \/ Busy(requests'[k], m)
              \/ /\ m \notin muddled /\ ~Busy(r, m)
                 /\ Good(addresses, primaryIp, m) => Good(addresses', primaryIp', m)
        BY <1>5, <2>5, <2>12, <2>13, <2>14
    <2>16. /\ Shape(requests'[k]) /\ Half(requests'[k], addresses', primaryIp')
           /\ Marked(requests'[k], addresses')
        <3>1. CASE ~r.makePrimary
            BY <2>2, <3>1, IdleFine
        <3>2. CASE r.makePrimary
            <4>1. Shape(requests'[k]) /\ Marked(requests'[k], addresses')
                BY <1>4, <2>2, <3>2 DEF Shape, Moved, Marked
            <4>2. Half(requests'[k], addresses', primaryIp')
                BY <1>4, <2>2, <2>4, <3>2 DEF Half, Moved
            <4> QED
                BY <4>1, <4>2
        <3> QED
            BY <3>1, <3>2
    <2> QED
        BY <2>2, <2>6, <2>7, <2>9, <2>10, <2>11, <2>15, <2>16, IpsConclude
<1>8. \/ Ips!Go(k, "idle", {}) /\ addresses' = addresses /\ muddled' = muddled
      \/ /\ m0 \in Ips!There \cup {"none"} /\ addresses' = [addresses EXCEPT ![i] = r.row]
         /\ Ips!Go(k, IF r.makePrimary THEN "clearOthers" ELSE "idle", {i})
         /\ muddled' = IF Ips!Unsettled(k, i) THEN muddled \cup r.on ELSE muddled
    BY IpsValues DEF Ips!WriteIP
<1> QED
    BY <1>6, <1>7, <1>8
-----------------------------------------------------------------------------
\* Rows are written by an idle request: the detections forget them.
Forgets(k, ids) ==
    requests' = [j \in Client |-> [requests[j] EXCEPT !.seen = requests[j].seen \ ids]]

LEMMA ForgetStep ==
    ASSUME NEW k \in Client, NEW ids, Ips!TypeOK, IpsInv, requests[k].pc = "idle", Forgets(k, ids)
    PROVE  /\ requests' \in [Client -> Ips!RequestState]
           /\ Shape(requests'[k]) /\ Half(requests'[k], addresses', primaryIp')
           /\ Marked(requests'[k], addresses')
           /\ \A j \in Client \ {k} :
                 /\ Follows(requests[j], requests'[j])
                 /\ requests'[j].seen \cap ids = {}
                 /\ requests'[j].on \cap requests'[k].on # {} =>
                       requests'[j].crossed /\ requests'[k].crossed
<1>1. requests \in [Client -> Ips!RequestState]
    BY DEF Ips!TypeOK
<1>2. \A j \in Client : [requests[j] EXCEPT !.seen = requests[j].seen \ ids] \in Ips!RequestState
    BY <1>1 DEF Ips!RequestState
<1>3. requests' \in [Client -> Ips!RequestState]
    BY <1>2 DEF Forgets
<1>4. \A j \in Client : Follows(requests[j], requests'[j]) /\ requests'[j].seen \cap ids = {}
    <2> TAKE j \in Client
    <2>1. requests'[j] = [requests[j] EXCEPT !.seen = requests[j].seen \ ids]
        BY DEF Forgets
    <2> QED
        BY <1>1, <2>1 DEF Follows, Ips!RequestState
<1>5. Shape(requests'[k])
    BY <1>4, ShapeFollows DEF IpsInv
<1>6. requests'[k].pc = "idle" /\ requests'[k].on = {}
    BY <1>4, <1>5 DEF Follows, Shape
<1>7. Half(requests'[k], addresses', primaryIp') /\ Marked(requests'[k], addresses')
    BY <1>6 DEF Half, Marked
<1> QED
    BY <1>3, <1>4, <1>5, <1>6, <1>7

LEMMA IpsDeleteIP ==
    ASSUME NEW k \in Client, NEW i \in Thing, Ips!TypeOK, IpsInv, Ips!DeleteIP(k, i)
    PROVE  Ips!TypeOK' /\ IpsInv'
<1>1. /\ requests[k].pc = "idle" /\ called' \in Nat /\ Forgets(k, {i})
      /\ addresses' = [addresses EXCEPT ![i] = Ips!NoRow]
      /\ primaryIp' = primaryIp /\ muddled' = muddled /\ bare' = bare
    BY DEF Ips!DeleteIP, Ips!Ask, Ips!TypeOK, Forgets
<1>2. /\ addresses \in [Thing -> Ips!Row]
      /\ \A j \in Client : requests[j].on \subseteq Machine
    BY DEF Ips!TypeOK, Ips!RequestState
<1>3. /\ requests' \in [Client -> Ips!RequestState]
      /\ Shape(requests'[k]) /\ Half(requests'[k], addresses', primaryIp')
      /\ Marked(requests'[k], addresses')
      /\ \A j \in Client \ {k} :
            /\ Follows(requests[j], requests'[j])
            /\ requests'[j].seen \cap {i} = {}
            /\ requests'[j].on \cap requests'[k].on # {} =>
                  requests'[j].crossed /\ requests'[k].crossed
    BY <1>1, ForgetStep
<1>4. /\ addresses' \in [Thing -> Ips!Row] /\ addresses'[i] = Ips!NoRow
      /\ \A l \in Thing : l # i => addresses'[l] = addresses[l]
    BY <1>1, <1>2, IpsValues
<1>5. Ips!TypeOK'
    BY <1>1, <1>3, <1>4 DEF Ips!TypeOK
<1>6. \A j \in Client \ {k} : \A l \in requests'[j].seen : KeptRow(l)
    BY <1>3, <1>4 DEF KeptRow, Ips!RequestState
<1>7. \A m \in Machine : \A ids : Calm(m, ids)
    BY <1>1, <1>4, IpsValues DEF Calm
<1>8. Housed(addresses', primaryIp')
    BY <1>1, <1>4, IpsValues DEF IpsInv, Housed
<1>9. IsFiniteSet(Used(addresses'))
    <2>1. Used(addresses') \subseteq Used(addresses)
        BY <1>4, IpsValues DEF Used
    <2> QED
        BY <2>1, FS_Subset DEF IpsInv
<1>10. \A m \in Machine : /\ ~Busy(requests[k], m)
                          /\ Good(addresses, primaryIp, m) => Good(addresses', primaryIp', m)
    BY <1>1, <1>4, IpsValues DEF Busy, Good, Flags
<1> QED
    BY <1>1, <1>2, <1>3, <1>5, <1>6, <1>7, <1>8, <1>9, <1>10, IpsConclude

LEMMA IpsDeleteMachine ==
    ASSUME NEW k \in Client, NEW m0 \in Machine, Ips!TypeOK, IpsInv, Ips!DeleteMachine(k, m0)
    PROVE  Ips!TypeOK' /\ IpsInv'
<1> DEFINE its == {i \in Thing : addresses[i].machine = m0}
<1>1. /\ requests[k].pc = "idle" /\ called' \in Nat /\ Forgets(k, its)
      /\ addresses' = [i \in Thing |-> IF i \in its THEN Ips!NoRow ELSE addresses[i]]
      /\ primaryIp' = [primaryIp EXCEPT ![m0] = "gone"] /\ muddled' = muddled \ {m0}
      /\ bare' = bare
    BY IpsValues DEF Ips!DeleteMachine, Ips!Ask, Ips!TypeOK, Forgets
<1>2. /\ addresses \in [Thing -> Ips!Row]
      /\ primaryIp \in [Machine -> Address \cup {"none", "gone"}]
      /\ \A j \in Client : requests[j].on \subseteq Machine
    BY IpsValues DEF Ips!TypeOK, Ips!RequestState
<1>3. /\ requests' \in [Client -> Ips!RequestState]
      /\ Shape(requests'[k]) /\ Half(requests'[k], addresses', primaryIp')
      /\ Marked(requests'[k], addresses')
      /\ \A j \in Client \ {k} :
            /\ Follows(requests[j], requests'[j])
            /\ requests'[j].seen \cap its = {}
            /\ requests'[j].on \cap requests'[k].on # {} =>
                  requests'[j].crossed /\ requests'[k].crossed
    BY <1>1, ForgetStep
<1>4. /\ addresses' \in [Thing -> Ips!Row]
      /\ \A l \in Thing : /\ addresses[l].machine = m0 => addresses'[l] = Ips!NoRow
                          /\ addresses[l].machine # m0 => addresses'[l] = addresses[l]
    BY <1>1, <1>2, IpsValues
<1>5. /\ primaryIp' \in [Machine -> Address \cup {"none", "gone"}] /\ primaryIp'[m0] = "gone"
      /\ \A m \in Machine : m # m0 => primaryIp'[m] = primaryIp[m]
    BY <1>1, <1>2
<1>6. Ips!TypeOK'
    BY <1>1, <1>3, <1>4, <1>5, IpsValues DEF Ips!TypeOK
<1>7. \A j \in Client \ {k} : \A l \in requests'[j].seen : KeptRow(l)
    BY <1>3, <1>4 DEF KeptRow, Ips!RequestState
<1>8. \A m \in Machine : \A ids : Calm(m, ids)
    BY <1>4, <1>5, IpsValues DEF Calm
<1>9. Housed(addresses', primaryIp')
    BY <1>4, <1>5, IpsValues DEF IpsInv, Housed
<1>10. IsFiniteSet(Used(addresses'))
    <2>1. Used(addresses') \subseteq Used(addresses)
        BY <1>4, IpsValues DEF Used
    <2> QED
        BY <2>1, FS_Subset DEF IpsInv
<1>11. /\ Good(addresses', primaryIp', m0)
       /\ \A m \in Machine : m # m0 /\ Good(addresses, primaryIp, m) =>
                                Good(addresses', primaryIp', m)
    BY <1>4, <1>5, IpsValues DEF Good, Flags
<1>12. \A m : ~Busy(requests[k], m)
    BY <1>1 DEF Busy
<1> QED
    BY <1>1, <1>2, <1>3, <1>6, <1>7, <1>8, <1>9, <1>10, <1>11, <1>12, IpsConclude

LEMMA IpsFlagIP ==
    ASSUME NEW k \in Client, NEW i \in Thing, Ips!TypeOK, IpsInv, Ips!FlagIP(k, i)
    PROVE  Ips!TypeOK' /\ IpsInv'
<1> DEFINE r  == requests[k]
           m0 == addresses[i].machine
           o(j) == requests[j].crossed \/ m0 \in requests[j].on
<1>1. /\ r.pc = "flag" /\ i \in r.id /\ addresses[i].there
      /\ addresses' = [addresses EXCEPT ![i] = [addresses[i] EXCEPT !.primary = TRUE,
                                                                    !.status = "ASSIGNED"]]
      /\ muddled' = IF Ips!Unsettled(k, i) THEN muddled \cup r.on \cup ({m0} \cap Machine)
                    ELSE muddled \ r.on
      /\ primaryIp' = primaryIp /\ bare' = bare /\ called' = called
    BY DEF Ips!FlagIP, Ips!At
<1>2. requests' = [j \in Client |-> IF j = k THEN Ips!Idle ELSE
                      [requests[j] EXCEPT !.seen = requests[j].seen \ {i}, !.crossed = o(j)]]
    BY DEF Ips!FlagIP
<1>3. /\ requests \in [Client -> Ips!RequestState] /\ addresses \in [Thing -> Ips!Row]
      /\ \A j \in Client : requests[j].on \subseteq Machine
    BY DEF Ips!TypeOK, Ips!RequestState
<1>4. Shape(r) /\ Half(r, addresses, primaryIp) /\ Housed(addresses, primaryIp)
    BY DEF IpsInv
<1>5. r.row.primary /\ r.on = {r.row.machine}
    BY <1>1, <1>4 DEF Shape
<1>6. \A j \in Client : /\ o(j) \in BOOLEAN
                        /\ requests[j].crossed => o(j)
                        /\ m0 \in requests[j].on => o(j)
    OBVIOUS
<1> HIDE DEF o
<1>7. \A j \in Client :
         [requests[j] EXCEPT !.seen = requests[j].seen \ {i}, !.crossed = o(j)] \in Ips!RequestState
    BY <1>3, <1>6 DEF Ips!RequestState
<1>8. requests' \in [Client -> Ips!RequestState] /\ requests'[k] = Ips!Idle
    BY <1>2, <1>7, IpsValues
<1>9. \A j \in Client \ {k} : /\ Follows(requests[j], requests'[j])
                              /\ requests'[j].seen \cap {i} = {}
                              /\ m0 \in requests[j].on => requests'[j].crossed
    <2> TAKE j \in Client \ {k}
    <2>1. requests'[j] = [requests[j] EXCEPT !.seen = requests[j].seen \ {i}, !.crossed = o(j)]
        BY <1>2
    <2> QED
        BY <1>3, <1>6, <2>1 DEF Follows, Ips!RequestState
<1>10. /\ addresses' \in [Thing -> Ips!Row]
       /\ addresses'[i].primary /\ addresses'[i].there = addresses[i].there
       /\ addresses'[i].machine = m0 /\ addresses'[i].address = addresses[i].address
       /\ \A l \in Thing : l # i => addresses'[l] = addresses[l]
    <2>1. [addresses[i] EXCEPT !.primary = TRUE, !.status = "ASSIGNED"] \in Ips!Row
        BY <1>3 DEF Ips!Row
    <2>2. /\ addresses'[i] = [addresses[i] EXCEPT !.primary = TRUE, !.status = "ASSIGNED"]
          /\ \A l \in Thing : l # i => addresses'[l] = addresses[l]
        BY <1>1, <1>3
    <2> QED
        BY <1>1, <1>3, <2>1, <2>2 DEF Ips!Row
<1>11. muddled' \subseteq Machine
    BY <1>1, <1>3 DEF Ips!TypeOK
<1>12. Ips!TypeOK'
    BY <1>1, <1>8, <1>10, <1>11 DEF Ips!TypeOK
<1>13. \A j \in Client \ {k} : \A l \in requests'[j].seen : KeptRow(l)
    BY <1>8, <1>9, <1>10 DEF KeptRow, Ips!RequestState
<1>14. \A m, ids : m # m0 => Calm(m, ids)
    BY <1>1, <1>10 DEF Calm
<1>15. \A j \in Client \ {k} :
          /\ \A m \in requests[j].on : requests'[j].crossed \/ Calm(m, requests[j].id)
          /\ requests'[j].on \cap requests'[k].on # {} =>
                requests'[j].crossed /\ requests'[k].crossed
    BY <1>8, <1>9, <1>14, IpsValues
<1>16. Housed(addresses', primaryIp')
    BY <1>1, <1>4, <1>10 DEF Housed
<1>17. Used(addresses') = Used(addresses)
    BY <1>10 DEF Used
<1>18. IsFiniteSet(Used(addresses'))
    BY <1>17 DEF IpsInv
<1>19. \A m \in Machine : m # m0 /\ Good(addresses, primaryIp, m) =>
                             Good(addresses', primaryIp', m)
    BY <1>1, <1>10 DEF Good, Flags
<1>20. \A m \in Machine \ muddled' :
          \/ Good(addresses', primaryIp', m)
          \/ /\ m \notin muddled /\ ~Busy(r, m)
             /\ Good(addresses, primaryIp, m) => Good(addresses', primaryIp', m)
    <2>1. CASE Ips!Unsettled(k, i)
        BY <1>1, <1>19, <2>1 DEF Busy
    <2>2. CASE ~Ips!Unsettled(k, i)
        <3>1. ~r.crossed /\ m0 = r.row.machine /\ addresses[i].address = r.row.address
            BY <1>5, <2>2 DEF Ips!Unsettled
        <3>2. muddled' = muddled \ {m0}
            BY <1>1, <1>5, <2>2, <3>1
        <3>3. Flags(addresses, m0) = {} /\ Named(r, primaryIp)
            BY <1>1, <1>4, <3>1 DEF Half
        <3>4. Flags(addresses', m0) \subseteq {i}
            BY <1>10, <3>3 DEF Flags
        <3>5. m0 \in Machine
            BY <1>3, <1>5, <3>1
        <3>6. primaryIp[m0] = addresses[i].address
            BY <1>4, <3>1, <3>3, <3>5, IpsValues DEF Named, Housed
        <3>7. Good(addresses', primaryIp', m0)
            BY <1>1, <1>10, <3>4, <3>6 DEF Good
        <3>8. \A m : m # m0 => ~Busy(r, m)
            BY <1>5, <3>1 DEF Busy
        <3> QED
            BY <1>19, <3>2, <3>7, <3>8
    <2> QED
        BY <2>1, <2>2
<1> QED
    BY <1>8, <1>9, <1>12, <1>13, <1>15, <1>16, <1>18, <1>20, IdleFine, IpsConclude
-----------------------------------------------------------------------------
\* An idle request writes a primary address: of what is known of the rows only
\* the name of machine m0 changes.
LEMMA IpsCreateMachine ==
    ASSUME NEW k \in Client, NEW m0 \in Machine, Ips!TypeOK, IpsInv, Ips!CreateMachine(k, m0)
    PROVE  Ips!TypeOK' /\ IpsInv'
<1>1. /\ requests[k].pc = "idle" /\ called' \in Nat /\ primaryIp[m0] = "gone"
      /\ \A j \in Client : m0 \notin requests[j].on
      /\ muddled' = muddled \ {m0} /\ addresses' = addresses /\ bare' = bare
    BY IpsValues DEF Ips!CreateMachine, Ips!Ask, Ips!There, Ips!TypeOK
<1>2. PICK a \in Address \cup {"none"} :
         /\ primaryIp' = [primaryIp EXCEPT ![m0] = a]
         /\ IF a = "none" THEN requests' = requests
            ELSE Ips!Begin(k, [Ips!Idle EXCEPT !.pc = "insert", !.row = Ips!PrimaryRow(m0, a),
                                               !.on = {m0}])
    BY IpsValues DEF Ips!CreateMachine
<1>3. /\ primaryIp \in [Machine -> Address \cup {"none", "gone"}]
      /\ requests \in [Client -> Ips!RequestState]
      /\ \A j \in Client : requests[j].on \subseteq Machine
    BY IpsValues DEF Ips!TypeOK, Ips!RequestState
<1>4. /\ primaryIp' \in [Machine -> Address \cup {"none", "gone"}]
      /\ primaryIp'[m0] = a /\ a # "gone"
      /\ \A m \in Machine : m # m0 => primaryIp'[m] = primaryIp[m]
    BY <1>2, <1>3, IpsValues
<1>5. Housed(addresses', primaryIp')
    BY <1>1, <1>4 DEF IpsInv, Housed
<1>6. IsFiniteSet(Used(addresses'))
    BY <1>1 DEF IpsInv
<1>7. \A m \in Machine : \A ids : m # m0 => Calm(m, ids)
    BY <1>1, <1>4 DEF Calm
<1>8. \A i : KeptRow(i)
    BY <1>1 DEF KeptRow
<1>9. Flags(addresses, m0) = {}
    BY <1>1, IpsValues DEF IpsInv, Housed, Flags
<1>10. /\ Good(addresses', primaryIp', m0)
       /\ \A m \in Machine : /\ ~Busy(requests[k], m)
                             /\ m # m0 /\ Good(addresses, primaryIp, m) =>
                                   Good(addresses', primaryIp', m)
    BY <1>1, <1>4, <1>9 DEF Good, Busy
<1>11. \A m \in Machine \ muddled' :
          \/ Good(addresses', primaryIp', m)
          \/ /\ m \notin muddled /\ ~Busy(requests[k], m)
             /\ Good(addresses, primaryIp, m) => Good(addresses', primaryIp', m)
    BY <1>1, <1>10
<1>12. CASE requests' = requests
    <2>1. /\ requests' \in [Client -> Ips!RequestState]
          /\ \A j \in Client \ {k} :
                /\ Follows(requests[j], requests'[j])
                /\ requests'[j].on \cap requests'[k].on # {} =>
                      requests'[j].crossed /\ requests'[k].crossed
        BY <1>3, <1>12 DEF Follows, IpsInv
    <2>2. Shape(requests'[k])
        BY <1>12 DEF IpsInv
    <2>3. Half(requests'[k], addresses', primaryIp') /\ Marked(requests'[k], addresses')
        BY <1>1, <1>12 DEF Half, Marked
    <2>4. Ips!TypeOK'
        BY <1>1, <1>4, <2>1, IpsValues DEF Ips!TypeOK
    <2>5. \A j \in Client \ {k} : \A m \in requests[j].on : Calm(m, requests[j].id)
        BY <1>1, <1>3, <1>7
    <2> QED
        BY <1>5, <1>6, <1>8, <1>11, <2>1, <2>2, <2>3, <2>4, <2>5, IpsConclude
<1>13. CASE Ips!Begin(k, [Ips!Idle EXCEPT !.pc = "insert", !.row = Ips!PrimaryRow(m0, a),
                                          !.on = {m0}])
    <2> DEFINE q == [Ips!Idle EXCEPT !.pc = "insert", !.row = Ips!PrimaryRow(m0, a), !.on = {m0}]
               r == Ips!PrimaryRow(m0, a)
    <2>1. r \in Ips!Row /\ r.there /\ r.primary /\ r.machine = m0 /\ r.address = a
        BY PrimaryRowType
    <2> HIDE DEF r
    <2>2. q \in Ips!RequestState
        BY <2>1, IpsValues DEF Ips!RequestState, r
    <2>3. q.pc = "insert" /\ q.row = r /\ q.on = {m0} /\ ~q.crossed
        BY IpsValues DEF Ips!Idle, r
    <2>4. Ips!Begin(k, q)
        BY <1>13
    <2> HIDE DEF q
    <2>5. /\ requests' \in [Client -> Ips!RequestState]
          /\ Follows(q, requests'[k])
          /\ \A j \in Client \ {k} :
                /\ Follows(requests[j], requests'[j])
                /\ requests'[j].on \cap requests'[k].on # {} =>
                      requests'[j].crossed /\ requests'[k].crossed
        BY <2>2, <2>3, <2>4, BeginStep
    <2>6. Shape(requests'[k]) /\ Marked(requests'[k], addresses')
        BY <2>1, <2>3, <2>5 DEF Shape, Marked, Follows
    <2>7. Half(requests'[k], addresses', primaryIp')
        BY <1>1, <1>4, <1>9, <2>1, <2>3, <2>5 DEF Half, Named, Follows
    <2>8. Ips!TypeOK'
        BY <1>1, <1>4, <2>5, IpsValues DEF Ips!TypeOK
    <2>9. \A j \in Client \ {k} : \A m \in requests[j].on : Calm(m, requests[j].id)
        BY <1>1, <1>3, <1>7
    <2> QED
        BY <1>5, <1>6, <1>8, <1>11, <2>5, <2>6, <2>7, <2>8, <2>9, IpsConclude
<1> QED
    BY <1>2, <1>12, <1>13

LEMMA IpsWriteElsewhere ==
    ASSUME NEW k \in Client, NEW m0 \in Machine, Ips!TypeOK, IpsInv, Ips!WriteElsewhere(k, m0)
    PROVE  Ips!TypeOK' /\ IpsInv'
<1> DEFINE o(j) == requests[j].crossed \/ m0 \in requests[j].on
<1>1. /\ requests[k].pc = "idle" /\ called' \in Nat
      /\ muddled' = muddled \cup {m0} /\ addresses' = addresses /\ bare' = bare
    BY DEF Ips!WriteElsewhere, Ips!Ask, Ips!TypeOK
<1>2. PICK a \in Address \cup {"none"} : primaryIp' = [primaryIp EXCEPT ![m0] = a]
    BY IpsValues DEF Ips!WriteElsewhere
<1>3. requests' = [j \in Client |-> [requests[j] EXCEPT !.crossed = o(j)]]
    BY DEF Ips!WriteElsewhere
<1>4. /\ primaryIp \in [Machine -> Address \cup {"none", "gone"}]
      /\ requests \in [Client -> Ips!RequestState]
      /\ \A j \in Client : requests[j].on \subseteq Machine
    BY IpsValues DEF Ips!TypeOK, Ips!RequestState
<1>5. \A j \in Client : /\ o(j) \in BOOLEAN
                        /\ requests[j].crossed => o(j)
                        /\ m0 \in requests[j].on => o(j)
    OBVIOUS
<1> HIDE DEF o
<1>6. \A j \in Client : [requests[j] EXCEPT !.crossed = o(j)] \in Ips!RequestState
    BY <1>4, <1>5 DEF Ips!RequestState
<1>7. requests' \in [Client -> Ips!RequestState]
    BY <1>3, <1>6
<1>8. \A j \in Client : /\ Follows(requests[j], requests'[j])
                        /\ m0 \in requests[j].on => requests'[j].crossed
    <2> TAKE j \in Client
    <2>1. requests'[j] = [requests[j] EXCEPT !.crossed = o(j)]
        BY <1>3
    <2> QED
        BY <1>4, <1>5, <2>1 DEF Follows, Ips!RequestState
<1>9. Shape(requests'[k])
    BY <1>8, ShapeFollows DEF IpsInv
<1>10. requests'[k].pc = "idle" /\ requests'[k].on = {}
    BY <1>1, <1>8, <1>9 DEF Follows, Shape
<1>11. Half(requests'[k], addresses', primaryIp') /\ Marked(requests'[k], addresses')
    BY <1>10 DEF Half, Marked
<1>12. /\ primaryIp' \in [Machine -> Address \cup {"none", "gone"}]
       /\ primaryIp'[m0] = a /\ a # "gone"
       /\ \A m \in Machine : m # m0 => primaryIp'[m] = primaryIp[m]
    BY <1>2, <1>4, IpsValues
<1>13. Housed(addresses', primaryIp')
    BY <1>1, <1>12 DEF IpsInv, Housed
<1>14. \A m \in Machine : \A ids : m # m0 => Calm(m, ids)
    BY <1>1, <1>12 DEF Calm
<1>15. \A i : KeptRow(i)
    BY <1>1 DEF KeptRow
<1>16. Ips!TypeOK'
    BY <1>1, <1>7, <1>12, IpsValues DEF Ips!TypeOK
<1>17. \A m \in Machine \ muddled' :
          /\ m \notin muddled /\ ~Busy(requests[k], m)
          /\ Good(addresses, primaryIp, m) => Good(addresses', primaryIp', m)
    BY <1>1, <1>12 DEF Good, Busy
<1>18. \A j \in Client \ {k} :
          \A m \in requests[j].on : requests'[j].crossed \/ Calm(m, requests[j].id)
    BY <1>4, <1>8, <1>14
<1>19. IsFiniteSet(Used(addresses'))
    BY <1>1 DEF IpsInv
<1> QED
    BY <1>7, <1>8, <1>9, <1>10, <1>11, <1>13, <1>15, <1>16, <1>17, <1>18, <1>19, IpsConclude

LEMMA IpsWriteMachine ==
    ASSUME NEW k \in Client, Ips!TypeOK, IpsInv, Ips!WriteMachine(k)
    PROVE  Ips!TypeOK' /\ IpsInv'
<1> DEFINE r  == requests[k]
           m0 == r.row.machine
           a  == r.row.address
<1>1. /\ r.pc = "machine" /\ m0 \in Machine /\ primaryIp[m0] # "gone"
      /\ primaryIp' = [primaryIp EXCEPT ![m0] = a]
      /\ addresses' = addresses /\ bare' = bare /\ called' = called
    BY IpsThere DEF Ips!WriteMachine, Ips!At
<1>2. IF r.makePrimary THEN Ips!Go(k, "clearAll", {}) /\ muddled' = muddled
      ELSE /\ Ips!Go(k, "idle", {})
           /\ muddled' = IF r.crossed \/ (a = "none" /\ Ips!Flagged(m0) # {})
                         THEN muddled \cup {m0} ELSE muddled
    BY IpsValues DEF Ips!WriteMachine
<1>3. /\ primaryIp \in [Machine -> Address \cup {"none", "gone"}]
      /\ r.row \in Ips!Row
      /\ \A j \in Client : requests[j].on \subseteq Machine
    BY IpsValues DEF Ips!TypeOK, Ips!RequestState
<1>4. a \in Address \cup {"none"}
    BY <1>3, IpsValues DEF Ips!Row
<1>5. Shape(r) /\ Half(r, addresses, primaryIp)
    BY DEF IpsInv
<1>6. r.on = {m0} /\ r.row.primary /\ r.row.there
    BY <1>1, <1>5 DEF Shape
<1>7. /\ primaryIp' \in [Machine -> Address \cup {"none", "gone"}]
      /\ primaryIp'[m0] = a /\ a # "gone"
      /\ \A m \in Machine : m # m0 => primaryIp'[m] = primaryIp[m]
    BY <1>1, <1>3, <1>4, IpsValues
<1>8. Housed(addresses', primaryIp')
    BY <1>1, <1>7 DEF IpsInv, Housed
<1>9. \A m \in Machine : \A ids : m # m0 => Calm(m, ids)
    BY <1>1, <1>7 DEF Calm
<1>10. \A i : KeptRow(i)
    BY <1>1 DEF KeptRow
<1>11. IsFiniteSet(Used(addresses'))
    BY <1>1 DEF IpsInv
<1>12. \A m \in Machine : /\ ~Busy(r, m)
                          /\ m # m0 /\ Good(addresses, primaryIp, m) =>
                                Good(addresses', primaryIp', m)
    BY <1>1, <1>7 DEF Good, Busy
<1>13. CASE r.makePrimary
    <2>1. Ips!Go(k, "clearAll", {}) /\ muddled' = muddled
        BY <1>2, <1>13
    <2>2. /\ requests' \in [Client -> Ips!RequestState] /\ Moved(r, requests'[k], "clearAll")
          /\ \A j \in Client \ {k} :
                /\ Follows(requests[j], requests'[j])
                /\ \A m \in requests[j].on \cap r.on : requests'[j].crossed
                /\ requests'[j].on \cap requests'[k].on # {} =>
                      requests'[j].crossed /\ requests'[k].crossed
        BY <2>1, GoStep DEF Awaits
    <2>3. \A j \in Client \ {k} :
             \A m \in requests[j].on : requests'[j].crossed \/ Calm(m, requests[j].id)
        BY <1>3, <1>6, <1>9, <2>2
    <2>4. Ips!TypeOK'
        BY <1>1, <1>7, <2>1, <2>2, IpsValues DEF Ips!TypeOK
    <2>5. Shape(requests'[k]) /\ Marked(requests'[k], addresses')
        BY <1>6, <2>2 DEF Shape, Moved, Marked
    <2>6. Half(requests'[k], addresses', primaryIp')
        BY <1>7, <2>2 DEF Half, Moved, Named
    <2>7. Busy(requests'[k], m0)
        BY <1>6, <2>2 DEF Busy, Moved
    <2> QED
        BY <1>8, <1>10, <1>11, <1>12, <2>1, <2>2, <2>3, <2>4, <2>5, <2>6, <2>7, IpsConclude
<1>14. CASE ~r.makePrimary
    <2>1. /\ Ips!Go(k, "idle", {})
          /\ muddled' = IF r.crossed \/ (a = "none" /\ Ips!Flagged(m0) # {})
                        THEN muddled \cup {m0} ELSE muddled
        BY <1>2, <1>14
    <2>2. /\ requests' \in [Client -> Ips!RequestState] /\ requests'[k] = Ips!Idle
          /\ \A j \in Client \ {k} :
                /\ Follows(requests[j], requests'[j])
                /\ \A m \in requests[j].on \cap r.on : requests'[j].crossed
                /\ requests'[j].on \cap requests'[k].on # {} =>
                      requests'[j].crossed /\ requests'[k].crossed
        BY <2>1, GoStep
    <2>3. \A j \in Client \ {k} :
             \A m \in requests[j].on : requests'[j].crossed \/ Calm(m, requests[j].id)
        BY <1>3, <1>6, <1>9, <2>2
    <2>4. muddled' \subseteq Machine /\ muddled \subseteq muddled'
        BY <1>1, <2>1 DEF Ips!TypeOK
    <2>5. Ips!TypeOK'
        BY <1>1, <1>7, <2>2, <2>4, IpsValues DEF Ips!TypeOK
    <2>6. ASSUME m0 \notin muddled', Good(addresses, primaryIp, m0)
          PROVE  Good(addresses', primaryIp', m0)
        <3>1. ~r.crossed /\ (a # "none" \/ Ips!Flagged(m0) = {})
            BY <2>1, <2>6
        <3>2. CASE a # "none"
            <4>1. primaryIp[m0] = a
                BY <1>1, <1>5, <1>14, <3>1, <3>2 DEF Half, Named
            <4> QED
                BY <1>1, <1>7, <2>6, <4>1 DEF Good
        <3>3. CASE Ips!Flagged(m0) = {}
            <4>1. Flags(addresses, m0) = {}
                BY <3>3 DEF Flags, Ips!Flagged
            <4> QED
                BY <1>1, <4>1 DEF Good
        <3> QED
            BY <3>1, <3>2, <3>3
    <2>7. \A m \in Machine \ muddled' :
             /\ m \notin muddled /\ ~Busy(r, m)
             /\ Good(addresses, primaryIp, m) => Good(addresses', primaryIp', m)
        BY <1>12, <2>4, <2>6
    <2> QED
        BY <1>8, <1>10, <1>11, <2>2, <2>3, <2>5, <2>7, IdleFine, IpsConclude
<1> QED
    BY <1>13, <1>14

LEMMA IpsMarkConflict ==
    ASSUME NEW k \in Client, NEW a \in Address, Ips!TypeOK, IpsInv, Ips!MarkConflict(k, a)
    PROVE  Ips!TypeOK' /\ IpsInv'
<1> DEFINE r == requests[k]
           s == requests'[k]
<1>1. /\ r.pc = "mark" /\ primaryIp' = primaryIp /\ muddled' = muddled /\ bare' = bare
      /\ called' = called
      /\ addresses' = [i \in Thing |-> IF addresses[i].there /\ addresses[i].address = a
                                       THEN [addresses[i] EXCEPT !.status = "CONFLICT"]
                                       ELSE addresses[i]]
      /\ requests' = [requests EXCEPT ![k].found = r.found \ {a}]
    BY DEF Ips!MarkConflict, Ips!At
<1>2. requests \in [Client -> Ips!RequestState] /\ addresses \in [Thing -> Ips!Row]
    BY DEF Ips!TypeOK
<1>3. [r EXCEPT !.found = r.found \ {a}] \in Ips!RequestState
    BY <1>2 DEF Ips!RequestState
<1>4. /\ requests' \in [Client -> Ips!RequestState]
      /\ s = [r EXCEPT !.found = r.found \ {a}]
      /\ \A j \in Client : j # k => requests'[j] = requests[j]
    BY <1>1, <1>2, <1>3
<1>5. /\ s.pc = "mark" /\ s.on = r.on /\ s.seen = r.seen /\ s.found = r.found \ {a}
      /\ r.seen \subseteq Thing
    BY <1>1, <1>2, <1>4 DEF Ips!RequestState
<1>6. \A i \in Thing : [addresses[i] EXCEPT !.status = "CONFLICT"] \in Ips!Row
    BY <1>2 DEF Ips!Row
<1>7. addresses' \in [Thing -> Ips!Row]
    BY <1>1, <1>2, <1>6
<1>8. \A i \in Thing :
         /\ addresses'[i].there = addresses[i].there
         /\ addresses'[i].address = addresses[i].address
         /\ addresses'[i].machine = addresses[i].machine
         /\ addresses'[i].primary <=> addresses[i].primary
         /\ addresses[i].there /\ addresses[i].address = a => addresses'[i].status = "CONFLICT"
         /\ addresses'[i].status \in {addresses[i].status, "CONFLICT"}
    BY <1>1, <1>2 DEF Ips!Row
<1>9. Ips!TypeOK'
    BY <1>1, <1>4, <1>7 DEF Ips!TypeOK
<1>10. \A m, ids : Calm(m, ids)
    BY <1>1, <1>8 DEF Calm
<1>11. \A i \in Thing : KeptRow(i)
    BY <1>8 DEF KeptRow
<1>12. \A j \in Client \ {k} : /\ Follows(requests[j], requests'[j])
                               /\ \A i \in requests'[j].seen : KeptRow(i)
    BY <1>2, <1>4, <1>11 DEF Follows, Ips!RequestState
<1>13. Shape(s) /\ Half(s, addresses', primaryIp')
    BY <1>1, <1>5 DEF Shape, Half, IpsInv
<1>14. s.on = {}
    BY <1>5, <1>13 DEF Shape
<1>15. Marked(s, addresses')
    <2>1. Marked(r, addresses)
        BY DEF IpsInv
    <2> HIDE DEF s
    <2> QED
        BY <1>1, <1>5, <1>8, <2>1 DEF Marked
<1>16. Housed(addresses', primaryIp')
    BY <1>1, <1>8 DEF IpsInv, Housed
<1>17. Used(addresses') = Used(addresses)
    BY <1>8 DEF Used
<1>18. IsFiniteSet(Used(addresses'))
    BY <1>17 DEF IpsInv
<1>19. \A m \in Machine : /\ ~Busy(r, m)
                          /\ Good(addresses, primaryIp, m) => Good(addresses', primaryIp', m)
    BY <1>1, <1>8 DEF Good, Flags, Busy
<1> QED
    BY <1>1, <1>4, <1>9, <1>10, <1>12, <1>13, <1>14, <1>15, <1>16, <1>18, <1>19, IpsConclude

LEMMA IpsStep ==
    ASSUME Ips!TypeOK, IpsInv, Ips!Next \/ UNCHANGED ipVars
    PROVE  Ips!TypeOK' /\ IpsInv'
<1>1. CASE UNCHANGED ipVars
    BY <1>1 DEF ipVars, Ips!TypeOK, IpsInv
<1>2. ASSUME NEW k \in Client,
             \/ Ips!CreateIP(k) \/ Ips!ClearFlags(k) \/ Ips!SetPrimary(k)
             \/ Ips!ClearOthers(k) \/ Ips!Fail(k) \/ Ips!ReadAddresses(k)
             \/ Ips!EndDetection(k) \/ Ips!WriteMachine(k) \/ Ips!ClearAll(k) \/ Ips!FindIP(k)
      PROVE  Ips!TypeOK' /\ IpsInv'
    BY <1>2, IpsCreateIP, IpsClearFlags, IpsSetPrimary, IpsFail, IpsReadAddresses,
       IpsEndDetection, IpsWriteMachine, IpsFindIP
<1>3. ASSUME NEW k \in Client, NEW i \in Thing,
             \/ Ips!InsertIP(k, i) \/ Ips!UpdateIP(k, i) \/ Ips!WriteIP(k, i)
             \/ Ips!DeleteIP(k, i) \/ Ips!FlagIP(k, i)
      PROVE  Ips!TypeOK' /\ IpsInv'
    BY <1>3, IpsInsertIP, IpsUpdateIP, IpsWriteIP, IpsDeleteIP, IpsFlagIP
<1>4. ASSUME NEW k \in Client, NEW a \in Address, Ips!MarkConflict(k, a)
      PROVE  Ips!TypeOK' /\ IpsInv'
    BY <1>4, IpsMarkConflict
<1>5. ASSUME NEW k \in Client, NEW m \in Machine,
             \/ Ips!CreateMachine(k, m) \/ Ips!UpdateMachine(k, m)
             \/ Ips!DeleteMachine(k, m) \/ Ips!WriteElsewhere(k, m)
      PROVE  Ips!TypeOK' /\ IpsInv'
    BY <1>5, IpsCreateMachine, IpsUpdateMachine, IpsDeleteMachine, IpsWriteElsewhere
<1> QED
    BY <1>1, <1>2, <1>3, <1>4, <1>5 DEF Ips!Next

LEMMA IpsAreHonest == Ips!TypeOK /\ IpsInv => Ips!AddressesHonest
<1> SUFFICES ASSUME Ips!TypeOK, IpsInv PROVE Ips!AddressesHonest
    OBVIOUS
<1>1. Ips!OnePrimary
    <2> SUFFICES ASSUME NEW m \in Machine \ muddled, Ips!Others(Ips!NoOne, m) = {}
                 PROVE  /\ Ips!Cardinality(Ips!Flagged(m)) <= 1
                        /\ \A i \in Ips!Flagged(m) : primaryIp[m] = addresses[i].address
        BY DEF Ips!OnePrimary
    <2>1. \A k \in Client : m \notin requests[k].on
        BY IpsValues DEF Ips!Others
    <2>2. Good(addresses, primaryIp, m)
        BY <2>1 DEF IpsInv, Busy
    <2>3. Ips!Flagged(m) = Flags(addresses, m)
        BY DEF Ips!Flagged, Flags
    <2>4. Flags(addresses, m) = {} \/ \E i : Flags(addresses, m) = {i}
        BY <2>2 DEF Good
    <2>5. Cardinality(Flags(addresses, m)) <= 1
        <3>1. CASE Flags(addresses, m) = {}
            BY <3>1, FS_EmptySet
        <3>2. ASSUME NEW i, Flags(addresses, m) = {i} PROVE Cardinality(Flags(addresses, m)) = 1
            BY <3>2, FS_Singleton
        <3> QED
            BY <2>4, <3>1, <3>2
    <2> QED
        BY <2>2, <2>3, <2>5, SameCount DEF Good
<1>2. Ips!ConflictsMarked
    BY DEF Ips!ConflictsMarked, Ips!At, IpsInv, Marked
<1> QED
    BY <1>1, <1>2 DEF Ips!AddressesHonest

-----------------------------------------------------------------------------
-----------------------------------------------------------------------------
(* The notifications: Notifier.  Most parts of the invariant are about the  *)
(* log of the decisions, l; Reached(o) is Passed, Recovery(l, i, j) is       *)
(* RecoveryBetween and Overtook(l, i) is Overtaken.                         *)

Reached(o) == o \in {"sending", "sent", "failed"}

Recovery(l, i, j) ==
    \E k \in i + 1 .. j - 1 : /\ l[k].event = "HOST_RECOVERED" /\ l[k].outcome # "filtered"
                              /\ i \in l[k].done

Overtook(l, i) ==
    \E k \in 1 .. i - 1 : Reached(l[k].outcome) /\ l[k].event = l[i].event /\ k \notin l[i].done

\* The decisions are in the order of their time, and each knows which calls
\* before it had ended.
Ordered(l, t) ==
    \A j \in DOMAIN l :
       /\ l[j].began <= t /\ l[j].at <= t
       /\ \A i \in l[j].done : i \in 1 .. j - 1 /\ l[i].outcome # "sending"
       /\ \A i \in 1 .. j - 1 : l[i].at <= l[j].at

\* The parts of the properties that are about decision j.
SpacedTo(l, j) ==
    \A i \in DOMAIN l :
       /\ i < j /\ l[i].event = "HOST_OFFLINE" /\ l[j].event = "HOST_OFFLINE"
       /\ l[i].outcome = "sent" /\ Reached(l[j].outcome) /\ i \in l[j].done
       /\ l[j].at - l[i].at < Cooldown
       => Recovery(l, i, j) \/ Overtook(l, i)

SuppressedTo(l, j) ==
    l[j].outcome = "suppressed" =>
       \E i \in l[j].done :
          /\ l[i].event = l[j].event /\ l[i].outcome = "sent"
          /\ l[j].at - l[i].at < Cooldown /\ ~Recovery(l, i, j)

HonouredTo(l, j) ==
    \A v \in DOMAIN updates : v > l[j].version => l[j].began < updates[v] + Ttl

Limited(l) ==
    \A S \in SUBSET {i \in DOMAIN l : Reached(l[i].outcome)} :
       (\A i, j \in S : i < j => i \in l[j].done /\ l[j].at - l[i].at < Window)
       => Cardinality(S) <= rateLimit

\* The cool-down is that of a send which ended and no recovery has followed; and
\* every send that ended has one, but for a recovery or an older send's end.
Cooling(l, t) ==
    t # -1 => \E i \in DOMAIN l : /\ l[i].event = "HOST_OFFLINE" /\ l[i].outcome = "sent"
                                  /\ l[i].at = t /\ ~Recovery(l, i, Len(l) + 1)
Cooled(l, t) ==
    \A i \in DOMAIN l : l[i].event = "HOST_OFFLINE" /\ l[i].outcome = "sent" =>
       \/ Recovery(l, i, Len(l) + 1) \/ Overtook(l, i)
       \/ t # -1 /\ l[i].at <= t

\* Every send of the last minute that ended is remembered.
Counted(l, t) ==
    \A i \in DOMAIN l : l[i].outcome \in {"sent", "failed"} /\ l[i].at > t - Window =>
       <<i, l[i].at>> \in recent

\* A call that sends is the one its entry of the log waits for.
Sends(l) ==
    /\ \A n \in Client : notices[n].pc = "send" =>
          /\ notices[n].id \in DOMAIN l /\ l[notices[n].id].outcome = "sending"
          /\ l[notices[n].id].event = notices[n].event
    /\ \A m, n \in Client : m # n /\ notices[m].pc = "send" /\ notices[n].pc = "send" =>
          notices[m].id # notices[n].id

\* A row that was read at some time misses no update that was older.
UpToDate(version, at) == \A v \in DOMAIN updates : v > version => at <= updates[v]

Versions ==
    /\ \A v \in DOMAIN updates : v <= row.version
    /\ cachedConfig.at <= clock
    /\ cachedConfig.at # -1 => UpToDate(cachedConfig.config.version, cachedConfig.at)
    /\ \A n \in Client : /\ notices[n].pc \in {"read", "fill"} => notices[n].began <= clock
                         /\ notices[n].pc = "fill" =>
                               UpToDate(notices[n].config.version, notices[n].began)

LogInv ==
    /\ Ordered(log, clock)
    /\ \A j \in DOMAIN log : SpacedTo(log, j) /\ SuppressedTo(log, j) /\ HonouredTo(log, j)
    /\ Limited(log)
    /\ Cooling(log, cooldownMap["HOST_OFFLINE"])
    /\ Cooled(log, cooldownMap["HOST_OFFLINE"])
    /\ Counted(log, clock)
    /\ IsFiniteSet(recent)

AlertsInv == LogInv /\ Sends(log) /\ Versions

LEMMA AlertsValues ==
    /\ Ttl \in Nat \ {0} /\ Cooldown \in Nat /\ Window \in Nat /\ rateLimit \in Nat
    /\ Alerts!Never = -1 /\ Alerts!Event = {"HOST_OFFLINE", "HOST_RECOVERED"}
    /\ Alerts!Uncached.config \in Alerts!Config /\ Alerts!Uncached.at = -1
    /\ Alerts!Uncached \in [config : Alerts!Config, at : Nat \cup {-1}]
BY PlatformAssumption DEF Alerts!Never, Alerts!Event, Alerts!Uncached, Alerts!Config

NoticeState == [pc : {"idle", "read", "fill", "send"}, id : Nat,
                event : Alerts!Event, began : Nat, config : Alerts!Config]

LEMMA IdleNotice == Alerts!Idle \in NoticeState /\ Alerts!Idle.pc = "idle"
BY AlertsValues DEF Alerts!Idle, NoticeState

LEMMA AlertsTypes ==
    Alerts!TypeOK <=>
       /\ clock \in Nat /\ row \in Alerts!Config
       /\ cachedConfig \in [config : Alerts!Config, at : Nat \cup {-1}]
       /\ updating \in BOOLEAN
       /\ cooldownMap \in [{"HOST_OFFLINE", "HOST_RECOVERED"} -> Nat \cup {-1}]
       /\ recent \subseteq (Nat \ {0}) \X Nat
       /\ notices \in [Client -> NoticeState]
       /\ log \in Seq(Alerts!Entry)
       /\ DOMAIN updates \subseteq Nat /\ updates \in [DOMAIN updates -> Nat]
BY AlertsValues DEF Alerts!TypeOK, NoticeState

LEMMA AlertsInit == Alerts!Init => Alerts!TypeOK /\ AlertsInv
<1> SUFFICES ASSUME Alerts!Init PROVE Alerts!TypeOK /\ AlertsInv
    OBVIOUS
<1>1. /\ clock = 0 /\ row = [version |-> 0, enabled |-> Alerts!Event]
      /\ cachedConfig = Alerts!Uncached /\ updating = FALSE
      /\ cooldownMap = [e \in Alerts!Event |-> -1] /\ recent = {}
      /\ notices = [n \in Client |-> Alerts!Idle] /\ log = <<>>
      /\ updates = [v \in {} |-> 0]
    BY AlertsValues DEF Alerts!Init
<1>2. /\ DOMAIN updates = {} /\ updates \in [DOMAIN updates -> Nat]
      /\ log \in Seq(Alerts!Entry) /\ DOMAIN log = {}
    BY <1>1
<1>3. row \in Alerts!Config
    BY <1>1 DEF Alerts!Config
<1>4. Alerts!TypeOK
    BY <1>1, <1>2, <1>3, AlertsValues, IdleNotice, AlertsTypes
<1>5. Limited(log)
    <2> SUFFICES ASSUME NEW S, S = {} PROVE Cardinality(S) <= rateLimit
        BY <1>2 DEF Limited
    <2> QED
        BY FS_EmptySet, AlertsValues
<1>6. cooldownMap["HOST_OFFLINE"] = -1
    BY <1>1, AlertsValues
<1>7. IsFiniteSet(recent)
    BY <1>1, FS_EmptySet
<1>8. LogInv
    BY <1>2, <1>5, <1>6, <1>7 DEF LogInv, Ordered, Cooling, Cooled, Counted
<1>9. Sends(log) /\ Versions
    BY <1>1, <1>2, AlertsValues, IdleNotice DEF Sends, Versions
<1> QED
    BY <1>4, <1>8, <1>9 DEF AlertsInv
-----------------------------------------------------------------------------
\* What a step leaves of the log: an entry that waits may get its outcome.
Keeps(l, m) ==
    \A i \in DOMAIN l :
       /\ i \in DOMAIN m
       /\ m[i].event = l[i].event /\ m[i].began = l[i].began /\ m[i].at = l[i].at
       /\ m[i].version = l[i].version /\ m[i].done = l[i].done
       /\ m[i].outcome = l[i].outcome \/ (l[i].outcome = "sending" /\ m[i].outcome \in {"sent", "failed"})

LEMMA EntryTypes ==
    ASSUME NEW l \in Seq(Alerts!Entry)
    PROVE  /\ Len(l) \in Nat /\ DOMAIN l = 1 .. Len(l)
           /\ \A i \in DOMAIN l : /\ l[i] \in Alerts!Entry /\ i \in Nat \ {0}
                                  /\ l[i].began \in Nat /\ l[i].at \in Nat /\ l[i].version \in Nat
                                  /\ l[i].event \in {"HOST_OFFLINE", "HOST_RECOVERED"}
<1>1. Len(l) \in Nat /\ DOMAIN l = 1 .. Len(l)
    BY LenProperties
<1>2. \A i \in DOMAIN l : l[i] \in Alerts!Entry
    BY <1>1, ElementOfSeq
<1> QED
    BY <1>1, <1>2, AlertsValues DEF Alerts!Entry

LEMMA RecoveryKept ==
    ASSUME NEW l \in Seq(Alerts!Entry), NEW m, Keeps(l, m),
           NEW i \in Nat, NEW j \in Nat, j <= Len(l) + 1
    PROVE  Recovery(l, i, j) <=> Recovery(m, i, j)
<1>1. Len(l) \in Nat /\ DOMAIN l = 1 .. Len(l)
    BY EntryTypes
<1>2. \A k \in i + 1 .. j - 1 : /\ k \in DOMAIN l
                                /\ m[k].event = l[k].event /\ m[k].done = l[k].done
                                /\ (m[k].outcome = "filtered") <=> (l[k].outcome = "filtered")
    BY <1>1 DEF Keeps
<1> QED
    BY <1>2 DEF Recovery

LEMMA OvertookKept ==
    ASSUME NEW l \in Seq(Alerts!Entry), NEW m, Keeps(l, m), NEW i \in DOMAIN l
    PROVE  Overtook(l, i) <=> Overtook(m, i)
<1>1. Len(l) \in Nat /\ DOMAIN l = 1 .. Len(l)
    BY EntryTypes
<1>2. \A k \in 1 .. i : /\ k \in DOMAIN l
                        /\ m[k].event = l[k].event /\ m[k].done = l[k].done
                        /\ Reached(m[k].outcome) <=> Reached(l[k].outcome)
    BY <1>1 DEF Keeps, Reached
<1>3. 1 .. i - 1 \subseteq 1 .. i /\ i \in 1 .. i
    BY <1>1
<1> QED
    BY <1>2, <1>3 DEF Overtook

\* What the log says of the decisions that are in it stands.
LEMMA LogKept ==
    ASSUME NEW l \in Seq(Alerts!Entry), NEW m \in Seq(Alerts!Entry), Keeps(l, m),
           NEW t, Ordered(l, t), NEW j \in DOMAIN l
    PROVE  /\ SpacedTo(l, j) => SpacedTo(m, j)
           /\ SuppressedTo(l, j) => SuppressedTo(m, j)
           /\ HonouredTo(l, j) => HonouredTo(m, j)
<1>1. Len(l) \in Nat /\ DOMAIN l = 1 .. Len(l) /\ j \in Nat /\ j <= Len(l) + 1
    BY EntryTypes
<1>2. \A i \in DOMAIN l : /\ i \in Nat
                          /\ Recovery(l, i, j) <=> Recovery(m, i, j)
                          /\ Overtook(l, i) <=> Overtook(m, i)
    BY <1>1, RecoveryKept, OvertookKept
<1>3. \A i \in l[j].done : i \in DOMAIN l /\ l[i].outcome # "sending" /\ m[i].outcome = l[i].outcome
    BY <1>1 DEF Ordered, Keeps
<1>4. /\ m[j].done = l[j].done /\ m[j].event = l[j].event /\ m[j].at = l[j].at
      /\ m[j].began = l[j].began /\ m[j].version = l[j].version
      /\ Reached(m[j].outcome) <=> Reached(l[j].outcome)
      /\ (m[j].outcome = "suppressed") <=> (l[j].outcome = "suppressed")
    BY DEF Keeps, Reached
<1>5. \A i \in DOMAIN l : m[i].event = l[i].event /\ m[i].at = l[i].at
    BY DEF Keeps
<1>6. SpacedTo(l, j) => SpacedTo(m, j)
    BY <1>2, <1>3, <1>4, <1>5 DEF SpacedTo
<1>7. SuppressedTo(l, j) => SuppressedTo(m, j)
    BY <1>2, <1>3, <1>4, <1>5 DEF SuppressedTo
<1>8. HonouredTo(l, j) => HonouredTo(m, j)
    BY <1>4 DEF HonouredTo
<1> QED
    BY <1>6, <1>7, <1>8

LEMMA SameTally == ASSUME NEW S PROVE Alerts!Cardinality(S) = Cardinality(S)
BY DEF Alerts!Cardinality, Cardinality

LEMMA OutcomeFacts ==
    ASSUME NEW e, NEW c
    PROVE  LET o == Alerts!Outcome(e, c)
           IN  /\ o \in {"filtered", "suppressed", "throttled", "sending"}
               /\ o = "suppressed" => Alerts!CoolingDown(e)
               /\ o = "sending" => ~Alerts!CoolingDown(e) /\ ~(Cardinality(Alerts!InWindow) >= rateLimit)
BY SameTally DEF Alerts!Outcome
LEMMA RecoveryLast ==
    ASSUME NEW l, NEW j \in Nat, NEW i \in Nat, i < j
    PROVE  Recovery(l, i, j + 1) <=> \/ Recovery(l, i, j)
                                     \/ /\ l[j].event = "HOST_RECOVERED"
                                        /\ l[j].outcome # "filtered" /\ i \in l[j].done
<1>1. i + 1 .. (j + 1) - 1 = (i + 1 .. j - 1) \cup {j}
    OBVIOUS
<1> QED
    BY <1>1 DEF Recovery

\* A decision that is taken with room in the minute keeps the sends limited.
LEMMA LimitedGrows ==
    ASSUME NEW l \in Seq(Alerts!Entry), NEW m \in Seq(Alerts!Entry), NEW w, IsFiniteSet(w),
           Keeps(l, m), Len(m) = Len(l) + 1, Ordered(l, clock), Limited(l),
           clock \in Nat, m[Len(m)].at = clock,
           \A i \in m[Len(m)].done : i \in DOMAIN l /\ l[i].outcome # "sending",
           \A i \in DOMAIN l : l[i].outcome \in {"sent", "failed"} /\ l[i].at > clock - Window =>
                                  <<i, l[i].at>> \in w,
           Reached(m[Len(m)].outcome) => ~(Cardinality(w) >= rateLimit)
    PROVE  Limited(m)
<1> DEFINE n == Len(m)
<1>1. /\ Len(l) \in Nat /\ n \in Nat /\ DOMAIN l = 1 .. Len(l) /\ DOMAIN m = DOMAIN l \cup {n}
      /\ n \notin DOMAIN l /\ \A i \in DOMAIN l : i < n
    BY EntryTypes
<1>2. \A i \in DOMAIN l : /\ m[i].at = l[i].at /\ m[i].done = l[i].done
                          /\ l[i].at \in Nat /\ i \in Nat
                          /\ Reached(m[i].outcome) <=> Reached(l[i].outcome)
    BY EntryTypes DEF Keeps, Reached
<1> HIDE DEF n
<1> SUFFICES ASSUME NEW S \in SUBSET {i \in DOMAIN m : Reached(m[i].outcome)},
                    \A i, j \in S : i < j => i \in m[j].done /\ m[j].at - m[i].at < Window
             PROVE  Cardinality(S) <= rateLimit
    BY DEF Limited
<1>3. CASE n \notin S
    <2>1. S \in SUBSET {i \in DOMAIN l : Reached(l[i].outcome)}
        BY <1>1, <1>2, <1>3
    <2>2. \A i, j \in S : i < j => i \in l[j].done /\ l[j].at - l[i].at < Window
        BY <1>2, <2>1
    <2> QED
        BY <2>1, <2>2 DEF Limited
<1>4. CASE n \in S
    <2> DEFINE R == S \ {n}
               T == {<<i, l[i].at>> : i \in R}
               f == [r \in T |-> r[1]]
    <2>1. \A i \in R : /\ i \in DOMAIN l /\ l[i].outcome \in {"sent", "failed"}
                       /\ l[i].at > clock - Window
        <3> TAKE i \in R
        <3>1. i \in DOMAIN l /\ i < n
            BY <1>1
        <3>2. i \in m[n].done /\ clock - l[i].at < Window
            BY <1>2, <1>4, <3>1 DEF n
        <3>3. l[i].outcome # "sending" /\ Reached(l[i].outcome)
            BY <1>2, <3>1, <3>2 DEF n
        <3> QED
            BY <1>2, <3>1, <3>2, <3>3, AlertsValues DEF Reached
    <2>2. T \subseteq w
        BY <2>1
    <2>3. f \in Surjection(T, R)
        <3>1. \A i \in R : <<i, l[i].at>> \in T /\ <<i, l[i].at>>[1] = i
            OBVIOUS
        <3>2. \A r \in T : r[1] \in R
            OBVIOUS
        <3> QED
            BY <3>1, <3>2 DEF Surjection
    <2>4. IsFiniteSet(T) /\ Cardinality(T) <= Cardinality(w)
        BY <2>2, FS_Subset
    <2> HIDE DEF f, T
    <2>5. IsFiniteSet(R) /\ Cardinality(R) <= Cardinality(T)
        BY <2>3, <2>4, FS_Surjection
    <2>6. n \notin R /\ S = R \cup {n}
        BY <1>4
    <2>7. Cardinality(S) = Cardinality(R) + 1
        BY <2>5, <2>6, FS_AddElement
    <2>8. Cardinality(R) \in Nat /\ Cardinality(T) \in Nat /\ Cardinality(w) \in Nat
        BY <2>4, <2>5, FS_CardinalityType
    <2>9. ~(Cardinality(w) >= rateLimit)
        BY <1>4 DEF n
    <2> HIDE DEF R
    <2> QED
        BY <2>4, <2>5, <2>7, <2>8, <2>9, AlertsValues
<1> QED
    BY <1>3, <1>4

\* A call decides: notify from the configuration on.
LEMMA DecideStep ==
    ASSUME NEW n \in Client, NEW e \in {"HOST_OFFLINE", "HOST_RECOVERED"},
           NEW began \in Nat, NEW c \in Alerts!Config,
           Alerts!TypeOK, LogInv, Sends(log), Alerts!Decide(n, e, began, c), began <= clock,
           \A v \in DOMAIN updates : v > c.version => began < updates[v] + Ttl,
           clock' = clock, updates' = updates
    PROVE  /\ log' \in Seq(Alerts!Entry) /\ notices' \in [Client -> NoticeState]
           /\ cooldownMap' \in [{"HOST_OFFLINE", "HOST_RECOVERED"} -> Nat \cup {-1}]
           /\ recent' \subseteq (Nat \ {0}) \X Nat
           /\ notices'[n].pc \in {"idle", "send"}
           /\ \A m \in Client : m # n => notices'[m] = notices[m]
           /\ LogInv' /\ Sends(log)'
<1> DEFINE o == Alerts!Outcome(e, c)
           x == [event |-> e, began |-> began, at |-> clock, version |-> c.version,
                 done |-> Alerts!Ended, outcome |-> o]
           t == cooldownMap["HOST_OFFLINE"]
           j == Len(log) + 1
<1>1. /\ clock \in Nat /\ log \in Seq(Alerts!Entry) /\ recent \subseteq (Nat \ {0}) \X Nat
      /\ cooldownMap \in [{"HOST_OFFLINE", "HOST_RECOVERED"} -> Nat \cup {-1}]
      /\ notices \in [Client -> NoticeState] /\ c.version \in Nat
    BY AlertsTypes DEF Alerts!Config
<1>2. /\ log' = Append(log, x)
      /\ notices' = [notices EXCEPT ![n] =
            IF o = "sending" THEN [Alerts!Idle EXCEPT !.pc = "send", !.id = Len(log) + 1, !.event = e]
            ELSE Alerts!Idle]
      /\ cooldownMap' = IF o = "filtered" THEN cooldownMap ELSE Alerts!Cleared(e)
      /\ recent' = IF o \in {"throttled", "sending"} THEN Alerts!InWindow ELSE recent
    BY DEF Alerts!Decide
<1>3. /\ o \in {"filtered", "suppressed", "throttled", "sending"}
      /\ o = "suppressed" => Alerts!CoolingDown(e)
      /\ o = "sending" => ~Alerts!CoolingDown(e) /\ ~(Cardinality(Alerts!InWindow) >= rateLimit)
    BY OutcomeFacts
<1>4. /\ Alerts!CoolingDown(e) => e = "HOST_OFFLINE" /\ t # -1 /\ clock - t < Cooldown
      /\ e = "HOST_OFFLINE" /\ ~Alerts!CoolingDown(e) => t = -1 \/ ~(clock - t < Cooldown)
    BY AlertsValues DEF Alerts!CoolingDown
<1>5. Alerts!Ended = {i \in DOMAIN log : log[i].outcome # "sending"}
    BY DEF Alerts!Ended
<1> HIDE DEF o
<1>6. Len(log) \in Nat /\ DOMAIN log = 1 .. Len(log) /\ j \in Nat
    BY <1>1, EntryTypes
<1>7. x \in Alerts!Entry
    <2>1. Alerts!Ended \subseteq Nat \ {0}
        BY <1>5, <1>6
    <2> QED
        BY <1>1, <1>3, <2>1, AlertsValues DEF Alerts!Entry
<1>8. /\ x.event = e /\ x.began = began /\ x.at = clock /\ x.version = c.version
      /\ x.done = Alerts!Ended /\ x.outcome = o
    OBVIOUS
<1> HIDE DEF x
<1>9. /\ log' \in Seq(Alerts!Entry) /\ Len(log') = j /\ log'[j] = x
      /\ \A i \in DOMAIN log : log'[i] = log[i]
      /\ DOMAIN log' = 1 .. j
    BY <1>1, <1>2, <1>6, <1>7, AppendProperties
<1>10. Keeps(log, log')
    BY <1>6, <1>9 DEF Keeps
<1> HIDE DEF j
<1>11. /\ DOMAIN log' = DOMAIN log \cup {j} /\ j \notin DOMAIN log
       /\ \A i \in DOMAIN log : i \in Nat /\ i < j
       /\ j = Len(log) + 1 /\ j \in Nat /\ Len(log') = j
    BY <1>6, <1>9 DEF j
<1>12. Ordered(log, clock)
    BY DEF LogInv
<1>13. Ordered(log', clock)
    <2>1. \A l \in DOMAIN log :
             /\ log'[l].began <= clock /\ log'[l].at <= clock
             /\ \A i \in log'[l].done : i \in 1 .. l - 1 /\ log'[i].outcome # "sending"
             /\ \A i \in 1 .. l - 1 : log'[i].at <= log'[l].at
        BY <1>6, <1>9, <1>12 DEF Ordered
    <2>2. \A i \in 1 .. j - 1 : i \in DOMAIN log
        BY <1>6, <1>11
    <2>3. \A i \in Alerts!Ended : i \in 1 .. j - 1 /\ log'[i].outcome # "sending"
        BY <1>5, <1>6, <1>9, <1>11
    <2>4. \A i \in 1 .. j - 1 : log'[i].at <= clock
        BY <1>9, <1>12, <2>2 DEF Ordered
    <2>5. clock <= clock
        BY <1>1
    <2> QED
        BY <1>8, <1>9, <1>11, <2>1, <2>3, <2>4, <2>5 DEF Ordered
<1>14. \A i \in DOMAIN log : Recovery(log, i, j) <=> Recovery(log', i, j)
    BY <1>1, <1>10, <1>11, RecoveryKept
<1>15. \A i \in DOMAIN log : Overtook(log, i) <=> Overtook(log', i)
    BY <1>1, <1>10, OvertookKept
<1>16. \A i \in DOMAIN log : log[i].at \in Nat
    BY <1>1, EntryTypes
<1>17. t \in Nat \cup {-1}
    BY <1>1
<1>18. SpacedTo(log', j)
    <2> SUFFICES ASSUME NEW i \in DOMAIN log, log[i].event = "HOST_OFFLINE", e = "HOST_OFFLINE",
                        log[i].outcome = "sent", o = "sending", clock - log[i].at < Cooldown
                 PROVE  Recovery(log', i, j) \/ Overtook(log', i)
        BY <1>3, <1>8, <1>9, <1>11 DEF SpacedTo, Reached
    <2>1. t = -1 \/ ~(clock - t < Cooldown)
        BY <1>3, <1>4
    <2>2. ~(t # -1 /\ log[i].at <= t)
        BY <1>1, <1>16, <1>17, <2>1, AlertsValues
    <2>3. Recovery(log, i, j) \/ Overtook(log, i)
        BY <1>11, <2>2 DEF LogInv, Cooled
    <2> QED
        BY <1>14, <1>15, <2>3
<1>19. SuppressedTo(log', j)
    <2> SUFFICES ASSUME o = "suppressed"
                 PROVE  \E i \in Alerts!Ended :
                           /\ log'[i].event = e /\ log'[i].outcome = "sent"
                           /\ clock - log'[i].at < Cooldown /\ ~Recovery(log', i, j)
        BY <1>8, <1>9 DEF SuppressedTo
    <2>1. e = "HOST_OFFLINE" /\ t # -1 /\ clock - t < Cooldown
        BY <1>3, <1>4
    <2>2. PICK i \in DOMAIN log : /\ log[i].event = "HOST_OFFLINE" /\ log[i].outcome = "sent"
                                  /\ log[i].at = t /\ ~Recovery(log, i, j)
        BY <1>11, <2>1 DEF LogInv, Cooling
    <2>3. i \in Alerts!Ended
        BY <1>5, <2>2
    <2> QED
        BY <1>9, <1>14, <2>1, <2>2, <2>3
<1>20. HonouredTo(log', j)
    BY <1>8, <1>9 DEF HonouredTo
<1>21. \A i \in DOMAIN log' : /\ SpacedTo(log', i) /\ SuppressedTo(log', i) /\ HonouredTo(log', i)
    <2>1. \A i \in DOMAIN log : SpacedTo(log', i) /\ SuppressedTo(log', i) /\ HonouredTo(log', i)
        BY <1>1, <1>9, <1>10, <1>12, LogKept DEF LogInv
    <2> QED
        BY <1>11, <1>18, <1>19, <1>20, <2>1
<1>22. /\ IsFiniteSet(Alerts!InWindow) /\ Alerts!InWindow \subseteq recent
       /\ IsFiniteSet(recent)
    BY FS_Subset DEF Alerts!InWindow, LogInv
<1>23. \A i \in DOMAIN log :
          log[i].outcome \in {"sent", "failed"} /\ log[i].at > clock - Window =>
             <<i, log[i].at>> \in recent /\ <<i, log[i].at>> \in Alerts!InWindow
    <2> TAKE i \in DOMAIN log
    <2> SUFFICES ASSUME log[i].outcome \in {"sent", "failed"}, log[i].at > clock - Window
                 PROVE  <<i, log[i].at>> \in recent /\ <<i, log[i].at>> \in Alerts!InWindow
        OBVIOUS
    <2>1. <<i, log[i].at>> \in recent /\ <<i, log[i].at>>[2] = log[i].at
        BY DEF LogInv, Counted
    <2> QED
        BY <2>1 DEF Alerts!InWindow
<1>24. Limited(log')
    <2>1. \A i \in log'[Len(log')].done : i \in DOMAIN log /\ log[i].outcome # "sending"
        BY <1>5, <1>8, <1>9, <1>11
    <2>2. Reached(log'[Len(log')].outcome) => ~(Cardinality(Alerts!InWindow) >= rateLimit)
        BY <1>3, <1>8, <1>9, <1>11 DEF Reached
    <2>3. log'[Len(log')].at = clock /\ Len(log') = Len(log) + 1
        BY <1>8, <1>9, <1>11
    <2>4. Limited(log)
        BY DEF LogInv
    <2> QED
        BY <1>1, <1>9, <1>10, <1>12, <1>22, <1>23, <2>1, <2>2, <2>3, <2>4, LimitedGrows
<1> DEFINE s == cooldownMap'["HOST_OFFLINE"]
<1>25. s = IF o # "filtered" /\ e = "HOST_RECOVERED" THEN -1 ELSE t
    BY <1>1, <1>2, AlertsValues DEF Alerts!Cleared
<1>26. cooldownMap' \in [{"HOST_OFFLINE", "HOST_RECOVERED"} -> Nat \cup {-1}]
    BY <1>1, <1>2, AlertsValues DEF Alerts!Cleared
<1> HIDE DEF s, t
<1>27. \A i \in DOMAIN log :
          Recovery(log', i, j + 1) <=>
             \/ Recovery(log, i, j)
             \/ e = "HOST_RECOVERED" /\ o # "filtered" /\ i \in Alerts!Ended
    <2> TAKE i \in DOMAIN log
    <2>1. i \in Nat /\ i < j /\ j \in Nat
        BY <1>11
    <2>2. Recovery(log', i, j + 1) <=>
             \/ Recovery(log', i, j)
             \/ /\ log'[j].event = "HOST_RECOVERED"
                /\ log'[j].outcome # "filtered" /\ i \in log'[j].done
        BY <2>1, RecoveryLast
    <2> QED
        BY <1>8, <1>9, <1>14, <2>2
<1>28. Cooling(log', s)
    <2> SUFFICES ASSUME s # -1
                 PROVE  \E i \in DOMAIN log' :
                           /\ log'[i].event = "HOST_OFFLINE" /\ log'[i].outcome = "sent"
                           /\ log'[i].at = s /\ ~Recovery(log', i, j + 1)
        BY <1>11 DEF Cooling
    <2>1. s = t /\ ~(o # "filtered" /\ e = "HOST_RECOVERED")
        BY <1>25
    <2>2. PICK i \in DOMAIN log : /\ log[i].event = "HOST_OFFLINE" /\ log[i].outcome = "sent"
                                  /\ log[i].at = t /\ ~Recovery(log, i, j)
        BY <1>11, <2>1 DEF LogInv, Cooling, t
    <2> QED
        BY <1>9, <1>11, <1>27, <2>1, <2>2
<1>29. Cooled(log', s)
    <2> SUFFICES ASSUME NEW i \in DOMAIN log', log'[i].event = "HOST_OFFLINE",
                        log'[i].outcome = "sent"
                 PROVE  \/ Recovery(log', i, j + 1) \/ Overtook(log', i)
                        \/ s # -1 /\ log'[i].at <= s
        BY <1>11 DEF Cooled
    <2>1. i \in DOMAIN log /\ log[i].event = "HOST_OFFLINE" /\ log[i].outcome = "sent"
        BY <1>3, <1>8, <1>9, <1>11
    <2>2. i \in Alerts!Ended
        BY <1>5, <2>1
    <2>3. \/ Recovery(log, i, j) \/ Overtook(log, i)
          \/ t # -1 /\ log[i].at <= t
        BY <1>11, <2>1 DEF LogInv, Cooled, t
    <2>4. Overtook(log, i) => Overtook(log', i)
        BY <1>15, <2>1
    <2>5. Recovery(log, i, j) => Recovery(log', i, j + 1)
        BY <1>27, <2>1
    <2>6. CASE o # "filtered" /\ e = "HOST_RECOVERED"
        BY <1>27, <2>1, <2>2, <2>6
    <2>7. CASE ~(o # "filtered" /\ e = "HOST_RECOVERED")
        BY <1>9, <1>25, <2>1, <2>3, <2>4, <2>5, <2>7
    <2> QED
        BY <2>6, <2>7
<1>30. Counted(log, clock)'
    <2> SUFFICES ASSUME NEW i \in DOMAIN log', log'[i].outcome \in {"sent", "failed"},
                        log'[i].at > clock - Window
                 PROVE  <<i, log'[i].at>> \in recent'
        BY DEF Counted
    <2>1. i \in DOMAIN log /\ log'[i] = log[i]
        BY <1>3, <1>8, <1>9, <1>11
    <2> QED
        BY <1>2, <1>23, <2>1
<1>31. IsFiniteSet(recent') /\ recent' \subseteq (Nat \ {0}) \X Nat
    BY <1>1, <1>2, <1>22
<1>32. LogInv'
    <2>1. \A i \in DOMAIN log' : HonouredTo(log, i)'
        BY <1>21 DEF HonouredTo
    <2> QED
        BY <1>13, <1>21, <1>24, <1>28, <1>29, <1>30, <1>31, <2>1
        DEF LogInv, s, Ordered, SpacedTo, SuppressedTo, Limited, Cooling, Cooled
<1> DEFINE w == [Alerts!Idle EXCEPT !.pc = "send", !.id = j, !.event = e]
<1>33. w \in NoticeState /\ w.pc = "send" /\ w.id = j /\ w.event = e
    BY <1>11, IdleNotice, AlertsValues DEF NoticeState
<1>34. /\ notices' \in [Client -> NoticeState]
       /\ notices'[n] = IF o = "sending" THEN w ELSE Alerts!Idle
       /\ \A m \in Client : m # n => notices'[m] = notices[m]
    BY <1>1, <1>2, <1>11, <1>33, IdleNotice
<1> HIDE DEF w
<1>35. /\ notices'[n].pc \in {"idle", "send"}
       /\ notices'[n].pc = "send" => o = "sending" /\ notices'[n].id = j /\ notices'[n].event = e
    BY <1>33, <1>34, IdleNotice
<1>36. Sends(log)'
    BY <1>8, <1>9, <1>11, <1>34, <1>35 DEF Sends
<1> QED
    BY <1>9, <1>26, <1>31, <1>32, <1>34, <1>35, <1>36
\* A send ends: its entry gets its outcome.
LEMMA SentStep ==
    ASSUME NEW n \in Client, Alerts!TypeOK, AlertsInv, Alerts!Sent(n)
    PROVE  Alerts!TypeOK' /\ AlertsInv'
<1> DEFINE i  == notices[n].id
           at == log[i].at
           ev == notices[n].event
           t  == cooldownMap["HOST_OFFLINE"]
           s  == cooldownMap'["HOST_OFFLINE"]
<1>1. /\ clock \in Nat /\ log \in Seq(Alerts!Entry) /\ recent \subseteq (Nat \ {0}) \X Nat
      /\ cooldownMap \in [{"HOST_OFFLINE", "HOST_RECOVERED"} -> Nat \cup {-1}]
      /\ notices \in [Client -> NoticeState]
    BY AlertsTypes
<1>2. /\ notices[n].pc = "send" /\ recent' = recent \cup {<<i, at>>}
      /\ notices' = [notices EXCEPT ![n] = Alerts!Idle]
      /\ clock' = clock /\ row' = row /\ cachedConfig' = cachedConfig /\ updating' = updating
      /\ updates' = updates
    BY DEF Alerts!Sent
<1>3. PICK o \in {"sent", "failed"} :
         /\ log' = [log EXCEPT ![i].outcome = o]
         /\ o = "sent" => cooldownMap' = [cooldownMap EXCEPT ![ev] = at]
         /\ o = "failed" => cooldownMap' = cooldownMap
    BY DEF Alerts!Sent
<1>4. LogInv /\ Sends(log) /\ Versions /\ Ordered(log, clock)
    BY DEF AlertsInv, LogInv
<1>5. i \in DOMAIN log /\ log[i].outcome = "sending" /\ log[i].event = ev
    BY <1>2, <1>4 DEF Sends
<1>6. /\ Len(log) \in Nat /\ DOMAIN log = 1 .. Len(log)
      /\ \A k \in DOMAIN log : log[k] \in Alerts!Entry /\ k \in Nat \ {0} /\ log[k].at \in Nat
    BY <1>1, EntryTypes
<1>7. ev \in {"HOST_OFFLINE", "HOST_RECOVERED"}
    BY <1>1, AlertsValues DEF NoticeState
<1> HIDE DEF i, at, ev, t, s
<1> DEFINE x == [log[i] EXCEPT !.outcome = o]
<1>8. /\ x \in Alerts!Entry /\ x.outcome = o /\ x.event = log[i].event /\ x.at = log[i].at
      /\ x.began = log[i].began /\ x.version = log[i].version /\ x.done = log[i].done
    BY <1>5, <1>6 DEF Alerts!Entry
<1>9. log' = [log EXCEPT ![i] = x]
    BY <1>3, <1>5, <1>6
<1> HIDE DEF x
<1>10. /\ log' \in Seq(Alerts!Entry) /\ Len(log') = Len(log) /\ log'[i] = x
       /\ \A k \in DOMAIN log : k # i => log'[k] = log[k]
    BY <1>1, <1>5, <1>6, <1>8, <1>9, ExceptSeq
<1>11. DOMAIN log' = DOMAIN log
    BY <1>6, <1>10, EntryTypes
<1>12. Keeps(log, log')
    BY <1>5, <1>8, <1>10, <1>11 DEF Keeps
<1>13. \A k \in DOMAIN log : /\ log'[k].event = log[k].event /\ log'[k].at = log[k].at
                             /\ log'[k].done = log[k].done /\ log'[k].began = log[k].began
                             /\ Reached(log'[k].outcome) <=> Reached(log[k].outcome)
                             /\ log[k].outcome # "sending" => log'[k].outcome # "sending"
    BY <1>5, <1>8, <1>10 DEF Reached
<1>14. Ordered(log', clock)
    <2>1. \A j \in DOMAIN log : \A k \in 1 .. j - 1 : k \in DOMAIN log
        BY <1>6
    <2> QED
        BY <1>4, <1>11, <1>13, <2>1 DEF Ordered
<1>15. \A j \in DOMAIN log' : SpacedTo(log', j) /\ SuppressedTo(log', j) /\ HonouredTo(log', j)
    BY <1>1, <1>4, <1>10, <1>11, <1>12, LogKept DEF LogInv
<1>16. Limited(log')
    <2>1. {k \in DOMAIN log' : Reached(log'[k].outcome)} = {k \in DOMAIN log : Reached(log[k].outcome)}
        BY <1>11, <1>13
    <2>2. Limited(log)
        BY <1>4 DEF LogInv
    <2> QED
        BY <1>13, <2>1, <2>2 DEF Limited
<1>17. /\ s = IF o = "sent" /\ ev = "HOST_OFFLINE" THEN at ELSE t
       /\ cooldownMap' \in [{"HOST_OFFLINE", "HOST_RECOVERED"} -> Nat \cup {-1}]
       /\ at \in Nat /\ at = log[i].at
    BY <1>1, <1>3, <1>5, <1>6, <1>7 DEF s, t, at
<1>18. \A k \in DOMAIN log : Recovery(log, k, Len(log) + 1) <=> Recovery(log', k, Len(log) + 1)
    BY <1>1, <1>6, <1>12, RecoveryKept
<1>19. \A k \in DOMAIN log : Overtook(log, k) <=> Overtook(log', k)
    BY <1>1, <1>12, OvertookKept
<1>20. \A k \in DOMAIN log : i \notin log[k].done
    BY <1>4, <1>5 DEF Ordered
<1>21. Cooling(log', s)
    <2> SUFFICES ASSUME s # -1
                 PROVE  \E k \in DOMAIN log :
                           /\ log'[k].event = "HOST_OFFLINE" /\ log'[k].outcome = "sent"
                           /\ log'[k].at = s /\ ~Recovery(log', k, Len(log) + 1)
        BY <1>10, <1>11 DEF Cooling
    <2>1. CASE o = "sent" /\ ev = "HOST_OFFLINE"
        <3>1. ~Recovery(log, i, Len(log) + 1)
            BY <1>5, <1>6, <1>20 DEF Recovery
        <3> QED
            BY <1>5, <1>8, <1>10, <1>17, <1>18, <2>1, <3>1
    <2>2. CASE ~(o = "sent" /\ ev = "HOST_OFFLINE")
        <3>1. PICK k \in DOMAIN log : /\ log[k].event = "HOST_OFFLINE" /\ log[k].outcome = "sent"
                                      /\ log[k].at = t /\ ~Recovery(log, k, Len(log) + 1)
            BY <1>4, <1>17, <2>2 DEF LogInv, Cooling, t
        <3> QED
            BY <1>5, <1>10, <1>17, <1>18, <2>2, <3>1
    <2> QED
        BY <2>1, <2>2
<1>22. Cooled(log', s)
    <2> SUFFICES ASSUME NEW k \in DOMAIN log, log'[k].event = "HOST_OFFLINE",
                        log'[k].outcome = "sent"
                 PROVE  \/ Recovery(log', k, Len(log) + 1) \/ Overtook(log', k)
                        \/ s # -1 /\ log'[k].at <= s
        BY <1>10, <1>11 DEF Cooled
    <2>1. CASE k = i
        BY <1>5, <1>8, <1>10, <1>17, <2>1
    <2>2. CASE k # i
        <3>1. log'[k] = log[k]
            BY <1>10, <2>2
        <3>2. \/ Recovery(log, k, Len(log) + 1) \/ Overtook(log, k)
              \/ t # -1 /\ log[k].at <= t
            BY <1>4, <3>1 DEF LogInv, Cooled, t
        <3>3. CASE ~(o = "sent" /\ ev = "HOST_OFFLINE")
            <4>1. s = t
                BY <1>17, <3>3
            <4> QED
                BY <1>18, <1>19, <3>1, <3>2, <4>1
        <3>4. CASE o = "sent" /\ ev = "HOST_OFFLINE"
            <4>1. i \in Nat /\ k \in Nat /\ (i < k \/ k < i)
                BY <1>5, <1>6, <2>2
            <4>2. CASE i < k
                <5>1. i \in 1 .. k - 1
                    BY <1>5, <1>6, <4>1, <4>2
                <5>2. Overtook(log, k)
                    BY <1>5, <1>20, <3>1, <3>4, <5>1 DEF Overtook, Reached
                <5> QED
                    BY <1>19, <5>2
            <4>3. CASE k < i
                <5>1. k \in 1 .. i - 1
                    BY <1>6, <4>1, <4>3
                <5>2. log[k].at <= log[i].at
                    BY <1>4, <1>5, <5>1 DEF Ordered
                <5> QED
                    BY <1>17, <3>1, <3>4, <5>2
            <4> QED
                BY <4>1, <4>2, <4>3
        <3> QED
            BY <3>3, <3>4
    <2> QED
        BY <2>1, <2>2
<1>23. Counted(log, clock)'
    <2> SUFFICES ASSUME NEW k \in DOMAIN log, log'[k].outcome \in {"sent", "failed"},
                        log'[k].at > clock - Window
                 PROVE  <<k, log'[k].at>> \in recent'
        BY <1>2, <1>11 DEF Counted
    <2>1. CASE k = i
        BY <1>2, <1>13, <1>17, <2>1
    <2>2. CASE k # i
        BY <1>2, <1>4, <1>10, <2>2 DEF LogInv, Counted
    <2> QED
        BY <2>1, <2>2
<1>24. IsFiniteSet(recent') /\ recent' \subseteq (Nat \ {0}) \X Nat
    <2>1. IsFiniteSet(recent)
        BY <1>4 DEF LogInv
    <2>2. IsFiniteSet(recent \cup {<<i, at>>})
        BY <2>1, FS_AddElement
    <2>3. i \in Nat \ {0} /\ at \in Nat
        BY <1>5, <1>6, <1>17
    <2> QED
        BY <1>1, <1>2, <2>2, <2>3
<1>25. LogInv'
    <2>1. \A j \in DOMAIN log' : HonouredTo(log, j)'
        BY <1>2, <1>15 DEF HonouredTo
    <2> QED
        BY <1>2, <1>14, <1>15, <1>16, <1>21, <1>22, <1>23, <1>24, <2>1
        DEF LogInv, s, Ordered, SpacedTo, SuppressedTo, Limited, Cooling, Cooled
<1>26. /\ notices' \in [Client -> NoticeState] /\ notices'[n].pc = "idle"
       /\ \A m \in Client : m # n => notices'[m] = notices[m]
    BY <1>1, <1>2, IdleNotice
<1>27. Sends(log)'
    <2>1. \A m \in Client : notices'[m].pc = "send" =>
             m # n /\ notices'[m] = notices[m] /\ notices[m].id # i
        BY <1>2, <1>4, <1>26 DEF Sends, i
    <2> QED
        BY <1>4, <1>10, <1>11, <2>1 DEF Sends
<1>28. Versions'
    BY <1>2, <1>4, <1>26 DEF Versions, UpToDate
<1>30. Alerts!TypeOK'
    <2>1. /\ row \in Alerts!Config /\ updating \in BOOLEAN
          /\ cachedConfig \in [config : Alerts!Config, at : Nat \cup {Alerts!Never}]
          /\ DOMAIN updates \subseteq Nat /\ updates \in [DOMAIN updates -> Nat]
        BY DEF Alerts!TypeOK
    <2> QED
        BY <1>1, <1>2, <1>10, <1>17, <1>24, <1>26, <2>1, AlertsValues DEF Alerts!TypeOK, NoticeState
<1> QED
    BY <1>25, <1>27, <1>28, <1>30 DEF AlertsInv
\* A step that writes nothing of the log, nor the time nor the updates.
LEMMA LogRests ==
    ASSUME LogInv, log' = log, clock' = clock, updates' = updates, recent' = recent,
           cooldownMap' = cooldownMap
    PROVE  LogInv'
BY DEF LogInv, Ordered, SpacedTo, SuppressedTo, HonouredTo, Limited, Cooling, Cooled, Counted

LEMMA AlertsNext ==
    ASSUME Alerts!TypeOK, AlertsInv, Alerts!Next
    PROVE  Alerts!TypeOK' /\ AlertsInv'
<1>t. /\ clock \in Nat /\ row \in Alerts!Config
      /\ cachedConfig \in [config : Alerts!Config, at : Nat \cup {-1}]
      /\ updating \in BOOLEAN
      /\ cooldownMap \in [{"HOST_OFFLINE", "HOST_RECOVERED"} -> Nat \cup {-1}]
      /\ recent \subseteq (Nat \ {0}) \X Nat
      /\ notices \in [Client -> NoticeState]
      /\ log \in Seq(Alerts!Entry)
      /\ DOMAIN updates \subseteq Nat /\ updates \in [DOMAIN updates -> Nat]
    BY AlertsTypes
<1>i. LogInv /\ Sends(log) /\ Versions
    BY DEF AlertsInv
<1>c. /\ row.version \in Nat /\ cachedConfig.config \in Alerts!Config
      /\ cachedConfig.config.version \in Nat /\ cachedConfig.at \in Nat \cup {-1}
      /\ \A v \in DOMAIN updates : v \in Nat /\ updates[v] \in Nat
      /\ \A n \in Client : /\ notices[n].began \in Nat /\ notices[n].config \in Alerts!Config
                           /\ notices[n].config.version \in Nat
                           /\ notices[n].event \in {"HOST_OFFLINE", "HOST_RECOVERED"}
    BY <1>t, AlertsValues DEF Alerts!Config, NoticeState
<1>1. ASSUME NEW n \in Client, NEW e \in {"HOST_OFFLINE", "HOST_RECOVERED"}, Alerts!Notify(n, e)
      PROVE  Alerts!TypeOK' /\ AlertsInv'
    <2>1. /\ clock' = clock /\ row' = row /\ cachedConfig' = cachedConfig
          /\ updating' = updating /\ updates' = updates /\ notices[n].pc = "idle"
        BY <1>1 DEF Alerts!Notify
    <2>2. CASE Alerts!Fresh
        <3>1. Alerts!Decide(n, e, clock, cachedConfig.config)
            BY <1>1, <2>2 DEF Alerts!Notify
        <3>2. cachedConfig.at # -1 /\ clock - cachedConfig.at < Ttl
            BY <2>2, AlertsValues DEF Alerts!Fresh
        <3>3. \A v \in DOMAIN updates : v > cachedConfig.config.version => clock < updates[v] + Ttl
            <4>1. \A v \in DOMAIN updates : v > cachedConfig.config.version => cachedConfig.at <= updates[v]
                BY <1>i, <3>2 DEF Versions, UpToDate
            <4> QED
                BY <1>t, <1>c, <3>2, <4>1, AlertsValues
        <3>4. clock \in Nat /\ clock <= clock /\ cachedConfig.config \in Alerts!Config
            BY <1>t, <1>c
        <3>5. /\ log' \in Seq(Alerts!Entry) /\ notices' \in [Client -> NoticeState]
              /\ cooldownMap' \in [{"HOST_OFFLINE", "HOST_RECOVERED"} -> Nat \cup {-1}]
              /\ recent' \subseteq (Nat \ {0}) \X Nat
              /\ notices'[n].pc \in {"idle", "send"}
              /\ \A m \in Client : m # n => notices'[m] = notices[m]
              /\ LogInv' /\ Sends(log)'
            BY <1>i, <2>1, <3>1, <3>3, <3>4, DecideStep
        <3>6. Versions'
            BY <1>i, <2>1, <3>5 DEF Versions, UpToDate
        <3>7. Alerts!TypeOK'
            BY <1>t, <2>1, <3>5, AlertsValues DEF Alerts!TypeOK, NoticeState
        <3> QED
            BY <3>5, <3>6, <3>7 DEF AlertsInv
    <2>3. CASE ~Alerts!Fresh
        <3> DEFINE w == [pc |-> "read", id |-> 0, event |-> e, began |-> clock,
                         config |-> Alerts!Uncached.config]
        <3>1. /\ notices' = [notices EXCEPT ![n] = w]
              /\ log' = log /\ cooldownMap' = cooldownMap /\ recent' = recent
            BY <1>1, <2>3 DEF Alerts!Notify
        <3>2. w \in NoticeState /\ w.pc = "read" /\ w.began = clock
            BY <1>t, AlertsValues DEF NoticeState
        <3> HIDE DEF w
        <3>3. /\ notices' \in [Client -> NoticeState] /\ notices'[n] = w
              /\ \A m \in Client : m # n => notices'[m] = notices[m]
            BY <1>t, <3>1, <3>2
        <3>4. LogInv'
            BY <1>i, <2>1, <3>1, LogRests
        <3>5. Sends(log)'
            BY <1>i, <3>1, <3>2, <3>3 DEF Sends
        <3>6. Versions'
            <4>1. clock <= clock
                BY <1>t
            <4> QED
                BY <1>i, <2>1, <3>2, <3>3, <4>1 DEF Versions, UpToDate
        <3>7. Alerts!TypeOK'
            BY <1>t, <2>1, <3>1, <3>3, AlertsValues DEF Alerts!TypeOK, NoticeState
        <3> QED
            BY <3>4, <3>5, <3>6, <3>7 DEF AlertsInv
    <2> QED
        BY <2>2, <2>3
<1>2. ASSUME NEW n \in Client, Alerts!ReadConfig(n)
      PROVE  Alerts!TypeOK' /\ AlertsInv'
    <2> DEFINE w == [notices[n] EXCEPT !.config = row, !.pc = "fill"]
    <2>1. /\ clock' = clock /\ row' = row /\ cachedConfig' = cachedConfig
          /\ updating' = updating /\ updates' = updates /\ notices[n].pc = "read"
          /\ log' = log /\ cooldownMap' = cooldownMap /\ recent' = recent
          /\ notices' = [notices EXCEPT ![n] = w]
        BY <1>2 DEF Alerts!ReadConfig
    <2>2. w \in NoticeState /\ w.pc = "fill" /\ w.config = row /\ w.began = notices[n].began
        BY <1>t DEF NoticeState
    <2> HIDE DEF w
    <2>3. /\ notices' \in [Client -> NoticeState] /\ notices'[n] = w
          /\ \A m \in Client : m # n => notices'[m] = notices[m]
        BY <1>t, <2>1, <2>2
    <2>4. LogInv'
        BY <1>i, <2>1, LogRests
    <2>5. Sends(log)'
        BY <1>i, <2>1, <2>2, <2>3 DEF Sends
    <2>6. Versions'
        <3>1. \A v \in DOMAIN updates : ~(v > row.version)
            BY <1>c, <1>i DEF Versions
        <3>2. notices[n].began <= clock
            BY <1>i, <2>1 DEF Versions
        <3> QED
            BY <1>i, <2>1, <2>2, <2>3, <3>1, <3>2 DEF Versions, UpToDate
    <2>7. Alerts!TypeOK'
        BY <1>t, <2>1, <2>3, AlertsValues DEF Alerts!TypeOK, NoticeState
    <2> QED
        BY <2>4, <2>5, <2>6, <2>7 DEF AlertsInv
<1>3. ASSUME NEW n \in Client, Alerts!Fill(n)
      PROVE  Alerts!TypeOK' /\ AlertsInv'
    <2> DEFINE c == notices[n].config
               began == notices[n].began
    <2>1. /\ clock' = clock /\ row' = row /\ updating' = updating /\ updates' = updates
          /\ notices[n].pc = "fill" /\ cachedConfig' = [config |-> c, at |-> began]
          /\ Alerts!Decide(n, notices[n].event, began, c)
        BY <1>3 DEF Alerts!Fill
    <2>2. began <= clock /\ UpToDate(c.version, began) /\ began \in Nat /\ c \in Alerts!Config
        BY <1>c, <1>i, <2>1 DEF Versions
    <2>3. \A v \in DOMAIN updates : v > c.version => began < updates[v] + Ttl
        <3>1. \A v \in DOMAIN updates : v > c.version => began <= updates[v]
            BY <2>2 DEF UpToDate
        <3> QED
            BY <1>c, <2>2, <3>1, AlertsValues
    <2>4. notices[n].event \in {"HOST_OFFLINE", "HOST_RECOVERED"}
        BY <1>c
    <2> HIDE DEF c, began
    <2>5. /\ log' \in Seq(Alerts!Entry) /\ notices' \in [Client -> NoticeState]
          /\ cooldownMap' \in [{"HOST_OFFLINE", "HOST_RECOVERED"} -> Nat \cup {-1}]
          /\ recent' \subseteq (Nat \ {0}) \X Nat
          /\ notices'[n].pc \in {"idle", "send"}
          /\ \A m \in Client : m # n => notices'[m] = notices[m]
          /\ LogInv' /\ Sends(log)'
        BY <1>i, <2>1, <2>2, <2>3, <2>4, DecideStep
    <2>6. Versions'
        BY <1>i, <2>1, <2>2, <2>5 DEF Versions, UpToDate
    <2>7. cachedConfig' \in [config : Alerts!Config, at : Nat \cup {-1}]
        BY <2>1, <2>2
    <2>8. Alerts!TypeOK'
        BY <1>t, <2>1, <2>5, <2>7, AlertsValues DEF Alerts!TypeOK, NoticeState
    <2> QED
        BY <2>5, <2>6, <2>8 DEF AlertsInv
<1>4. CASE Alerts!UpdateConfig
    <2> DEFINE u == row.version + 1
    <2>1. /\ clock' = clock /\ cachedConfig' = cachedConfig /\ cooldownMap' = cooldownMap
          /\ recent' = recent /\ notices' = notices /\ log' = log /\ updating' = TRUE
          /\ updates' = Alerts!With(updates, u, clock)
        BY <1>4 DEF Alerts!UpdateConfig
    <2>2. PICK f \in {Alerts!Event, Alerts!Event \ {"HOST_RECOVERED"}} :
             row' = [version |-> u, enabled |-> f]
        BY <1>4 DEF Alerts!UpdateConfig
    <2>3. row' \in Alerts!Config /\ row'.version = u /\ u \in Nat
        BY <1>c, <2>2 DEF Alerts!Config
    <2>4. /\ DOMAIN updates' = DOMAIN updates \cup {u}
          /\ \A v \in DOMAIN updates : v # u => updates'[v] = updates[v]
          /\ updates'[u] = clock
          /\ updates' \in [DOMAIN updates' -> Nat]
        BY <1>t, <2>1 DEF Alerts!With
    <2>5. \A v \in DOMAIN updates : v # u /\ v <= u
        BY <1>c, <1>i DEF Versions
    <2>6. \A version, at : at <= clock /\ UpToDate(version, at) => UpToDate(version, at)'
        BY <2>4, <2>5 DEF UpToDate
    <2>7. Versions'
        <3>1. u <= u
            BY <2>3
        <3> QED
            BY <1>i, <2>1, <2>3, <2>4, <2>5, <2>6, <3>1 DEF Versions
    <2>8. LogInv'
        <3>1. \A j \in DOMAIN log : HonouredTo(log, j)'
            <4> TAKE j \in DOMAIN log
            <4>1. HonouredTo(log, j) /\ log[j].began <= clock /\ log[j].began \in Nat
                BY <1>i, <1>t, EntryTypes DEF LogInv, Ordered
            <4>2. log[j].began < clock + Ttl
                BY <1>t, <4>1, AlertsValues
            <4> QED
                BY <2>1, <2>4, <2>5, <4>1, <4>2 DEF HonouredTo
        <3> QED
            BY <1>i, <2>1, <3>1
            DEF LogInv, Ordered, SpacedTo, SuppressedTo, Limited, Cooling, Cooled, Counted
    <2>9. Sends(log)'
        BY <1>i, <2>1 DEF Sends
    <2>10. DOMAIN updates' \subseteq Nat
        BY <1>t, <2>3, <2>4
    <2>11. Alerts!TypeOK'
        BY <1>t, <2>1, <2>3, <2>4, <2>10, AlertsValues DEF Alerts!TypeOK, NoticeState
    <2> QED
        BY <2>7, <2>8, <2>9, <2>11 DEF AlertsInv
<1>5. CASE Alerts!Invalidate
    <2>1. /\ clock' = clock /\ row' = row /\ cooldownMap' = cooldownMap /\ recent' = recent
          /\ notices' = notices /\ log' = log /\ updating' = FALSE /\ updates' = updates
          /\ cachedConfig' = Alerts!Uncached
        BY <1>5 DEF Alerts!Invalidate
    <2>2. LogInv'
        BY <1>i, <2>1, LogRests
    <2>3. Sends(log)'
        BY <1>i, <2>1 DEF Sends
    <2>4. cachedConfig'.at = -1 /\ -1 <= clock
        BY <1>t, <2>1, AlertsValues
    <2>5. Versions'
        BY <1>i, <2>1, <2>4 DEF Versions, UpToDate
    <2>6. Alerts!TypeOK'
        BY <1>t, <2>1, AlertsValues DEF Alerts!TypeOK, NoticeState
    <2> QED
        BY <2>2, <2>3, <2>5, <2>6 DEF AlertsInv
<1>6. CASE Alerts!Tick
    <2>1. /\ clock' = clock + 1 /\ row' = row /\ cooldownMap' = cooldownMap /\ recent' = recent
          /\ notices' = notices /\ log' = log /\ updating' = updating /\ updates' = updates
          /\ cachedConfig' = cachedConfig
        BY <1>6 DEF Alerts!Tick
    <2>2. \A j \in DOMAIN log : log[j].began \in Nat /\ log[j].at \in Nat
        BY <1>t, EntryTypes
    <2>3. Ordered(log, clock + 1)
        <3>1. \A j \in DOMAIN log : log[j].began <= clock /\ log[j].at <= clock
            BY <1>i DEF LogInv, Ordered
        <3>2. \A j \in DOMAIN log : log[j].began <= clock + 1 /\ log[j].at <= clock + 1
            BY <1>t, <2>2, <3>1
        <3> QED
            BY <1>i, <3>2 DEF LogInv, Ordered
    <2>4. Counted(log, clock + 1)
        <3>1. \A j \in DOMAIN log : log[j].at > (clock + 1) - Window => log[j].at > clock - Window
            BY <1>t, <2>2, AlertsValues
        <3> QED
            BY <1>i, <3>1 DEF LogInv, Counted
    <2>5. LogInv'
        BY <1>i, <2>1, <2>3, <2>4
        DEF LogInv, Ordered, SpacedTo, SuppressedTo, HonouredTo, Limited, Cooling, Cooled, Counted
    <2>6. Sends(log)'
        BY <1>i, <2>1 DEF Sends
    <2>7. Versions'
        BY <1>c, <1>i, <1>t, <2>1 DEF Versions, UpToDate
    <2>8. Alerts!TypeOK'
        BY <1>t, <2>1, AlertsValues DEF Alerts!TypeOK, NoticeState
    <2> QED
        BY <2>5, <2>6, <2>7, <2>8 DEF AlertsInv
<1> QED
    BY <1>1, <1>2, <1>3, <1>4, <1>5, <1>6, SentStep, AlertsValues DEF Alerts!Next

LEMMA AlertsStep ==
    ASSUME Alerts!TypeOK, AlertsInv, Alerts!Next \/ UNCHANGED alertVars
    PROVE  Alerts!TypeOK' /\ AlertsInv'
<1>1. CASE UNCHANGED alertVars
    <2>1. LogInv' /\ Sends(log)' /\ Versions'
        BY <1>1, LogRests DEF AlertsInv, alertVars, Sends, Versions, UpToDate
    <2> QED
        BY <1>1, <2>1 DEF alertVars, Alerts!TypeOK, AlertsInv
<1> QED
    BY <1>1, AlertsNext
LEMMA AlertsAreHonest ==
    Alerts!TypeOK /\ AlertsInv =>
        /\ Alerts!AlertsSpaced /\ Alerts!SuppressedForAReason
        /\ Alerts!RateLimited /\ Alerts!UpdateHonoured
<1> SUFFICES ASSUME Alerts!TypeOK, AlertsInv
             PROVE  /\ Alerts!AlertsSpaced /\ Alerts!SuppressedForAReason
                    /\ Alerts!RateLimited /\ Alerts!UpdateHonoured
    OBVIOUS
<1>1. /\ \A j \in DOMAIN log : SpacedTo(log, j) /\ SuppressedTo(log, j) /\ HonouredTo(log, j)
      /\ Limited(log) /\ log \in Seq(Alerts!Entry) /\ Ordered(log, clock)
    BY AlertsTypes DEF AlertsInv, LogInv
<1>2. /\ DOMAIN log = 1 .. Len(log) /\ Len(log) \in Nat
      /\ \A i \in DOMAIN log : log[i].event \in {"HOST_OFFLINE", "HOST_RECOVERED"} /\ i \in Nat
    BY <1>1, EntryTypes
<1>3. \A i \in DOMAIN log : /\ Alerts!Problem(i) <=> log[i].event = "HOST_OFFLINE"
                            /\ ~Alerts!Problem(i) <=> log[i].event = "HOST_RECOVERED"
                            /\ Alerts!Passed(i) <=> Reached(log[i].outcome)
    BY <1>2 DEF Alerts!Problem, Alerts!Passed, Reached
<1>4. \A i, j \in DOMAIN log : Recovery(log, i, j) <=> Alerts!RecoveryBetween(i, j)
    <2> TAKE i, j \in DOMAIN log
    <2>1. \A k \in i + 1 .. j - 1 : k \in DOMAIN log
        BY <1>2
    <2> QED
        BY <1>3, <2>1 DEF Recovery, Alerts!RecoveryBetween
<1>5. \A i \in DOMAIN log : Overtook(log, i) <=> Alerts!Overtaken(i)
    <2> TAKE i \in DOMAIN log
    <2>1. \A k \in 1 .. i - 1 : k \in DOMAIN log
        BY <1>2
    <2> QED
        BY <1>3, <2>1 DEF Overtook, Alerts!Overtaken
<1>6. Alerts!AlertsSpaced
    BY <1>1, <1>3, <1>4, <1>5 DEF SpacedTo, Alerts!AlertsSpaced
<1>7. Alerts!SuppressedForAReason
    <2> SUFFICES ASSUME NEW j \in DOMAIN log, log[j].outcome = "suppressed"
                 PROVE  \E i \in log[j].done :
                           /\ log[i].event = log[j].event /\ log[i].outcome = "sent"
                           /\ log[j].at - log[i].at < Cooldown
                           /\ ~Alerts!RecoveryBetween(i, j)
        BY DEF Alerts!SuppressedForAReason
    <2>1. PICK i \in log[j].done :
             /\ log[i].event = log[j].event /\ log[i].outcome = "sent"
             /\ log[j].at - log[i].at < Cooldown /\ ~Recovery(log, i, j)
        BY <1>1 DEF SuppressedTo
    <2>2. i \in DOMAIN log
        BY <1>1, <1>2 DEF Ordered
    <2> QED
        BY <1>4, <2>1, <2>2
<1>8. Alerts!RateLimited
    <2>1. {i \in DOMAIN log : Alerts!Passed(i)} = {i \in DOMAIN log : Reached(log[i].outcome)}
        BY <1>3
    <2> QED
        BY <1>1, <2>1, SameTally DEF Limited, Alerts!RateLimited
<1>9. Alerts!UpdateHonoured
    BY <1>1 DEF HonouredTo, Alerts!UpdateHonoured
<1> QED
    BY <1>6, <1>7, <1>8, <1>9
-----------------------------------------------------------------------------
(* The whole platform.  Only the active service moves, by a step of its own; *)
(* so each keeps its invariant, and the properties follow from them.         *)

PlatformInv ==
    /\ active = "alerts" => Alerts!TypeOK /\ AlertsInv
    /\ active = "hosts" => Hosts!TypeOK /\ HostsInv
    /\ active = "files" => Files!TypeOK /\ FilesInv
    /\ active = "seats" => Seats!TypeOK /\ SeatsInv
    /\ active = "planning" => Planning!TypeOK /\ PlanningInv
    /\ active = "ips" => Ips!TypeOK /\ IpsInv
    /\ active = "sites" => Sites!TypeOK /\ SitesInv
    /\ active = "registry" => RegistryTypeOK
    /\ active = "desk" => DeskTypeOK /\ WantInv
    /\ active \in Services

LEMMA PlatformInit == Init => PlatformInv
BY AlertsInit, HostsInit, FilesInit, SeatsInit, PlanningInit, IpsInit, SitesInit,
   RegistryTypeInit, DeskTypeInit DEF Init, PlatformInv

\* What a step of the platform is to its services.
LEMMA OneMoves ==
    ASSUME [Next]_allVars
    PROVE  /\ active' = active
           /\ active = "alerts" => Alerts!Next \/ UNCHANGED alertVars
           /\ active = "hosts" => Hosts!Next \/ UNCHANGED hostVars
           /\ active = "files" => Files!Next \/ UNCHANGED fileVars
           /\ active = "seats" => Seats!Next \/ UNCHANGED seatVars
           /\ active = "planning" => Planning!Next \/ UNCHANGED planningVars
           /\ active = "ips" => Ips!Next \/ UNCHANGED ipVars
           /\ active = "sites" => Sites!Next \/ UNCHANGED placeVars
           /\ active = "people" => [AccountsNext]_accVars
           /\ active = "registry" => [RegistryNext]_regVars
           /\ active = "desk" => [DeskNext]_deskVars
BY DEF Next, OthersRest, allVars

LEMMA PlatformNext == PlatformInv /\ [Next]_allVars => PlatformInv'
<1> SUFFICES ASSUME PlatformInv, [Next]_allVars PROVE PlatformInv'
    OBVIOUS
<1>1. active = "alerts" => Alerts!TypeOK' /\ AlertsInv'
    BY OneMoves, AlertsStep DEF PlatformInv
<1>2. active = "hosts" => Hosts!TypeOK' /\ HostsInv'
    BY OneMoves, HostsStep DEF PlatformInv
<1>3. active = "files" => Files!TypeOK' /\ FilesInv'
    BY OneMoves, FilesStep DEF PlatformInv
<1>4. active = "seats" => Seats!TypeOK' /\ SeatsInv'
    BY OneMoves, SeatsStep DEF PlatformInv
<1>5. active = "planning" => Planning!TypeOK' /\ PlanningInv'
    BY OneMoves, PlanningStep DEF PlatformInv
<1>6. active = "ips" => Ips!TypeOK' /\ IpsInv'
    BY OneMoves, IpsStep DEF PlatformInv
<1>7. active = "sites" => Sites!TypeOK' /\ SitesInv'
    BY OneMoves, SitesStep DEF PlatformInv
<1>8. active = "registry" => RegistryTypeOK'
    BY OneMoves, RegistryTypeNext DEF PlatformInv
<1>9. active = "desk" => DeskTypeOK' /\ WantInv'
    BY OneMoves, DeskTypeNext DEF PlatformInv
<1>10. active' = active /\ active \in Services
    BY OneMoves DEF PlatformInv
<1> QED
    BY <1>1, <1>2, <1>3, <1>4, <1>5, <1>6, <1>7, <1>8, <1>9, <1>10 DEF PlatformInv

LEMMA PlatformKept == Spec => []PlatformInv
BY PlatformInit, PlatformNext, PTL DEF Spec

\* In every state the variables of the active service have their types: none of
\* the ten leaves, whatever its requests cross, the states its rows can have.
THEOREM PlatformTypeCorrect ==
    ASSUME User # {}
    PROVE  Spec => []TypeOK
<1> DEFINE Inv == active = "people" => AccountsTypeOK /\ CarryInv
<1>1. Init => Inv
    BY AccountsTypeInit DEF Init
<1>2. Inv /\ [Next]_allVars => Inv'
    BY OneMoves, AccountsTypeNext, CarryNext
<1>3. PlatformInv /\ Inv => TypeOK
    BY DEF PlatformInv, TypeOK
<1> QED
    BY <1>1, <1>2, <1>3, PlatformKept, PTL DEF Spec

\* Cool-down, recovery, rate limit and a changed configuration hold between the
\* awaits of notify, whatever notifications and updates cross (notify:288).
THEOREM AlertsHonestAlways == Spec => []AlertsHonest
<1>1. PlatformInv => AlertsHonest
    BY AlertsAreHonest DEF PlatformInv, AlertsHonest
<1> QED
    BY <1>1, PlatformKept, PTL

\* An outage that was raised is not over without a recovery unless it is excused,
\* and an anomaly is recorded once (ingestSamples:95, recordAnomaly:268).
THEOREM HostsHonestAlways == Spec => []HostsHonest
<1>1. PlatformInv => HostsHonest
    BY DEF PlatformInv, HostsInv, HostsHonest, Hosts!RecoveryAnnounced
<1> QED
    BY <1>1, PlatformKept, PTL

\* The log of an import counts every row of the file once, and an import whose
\* only errors are those of single rows has written what it says (executeImport:330).
THEOREM ImportHonestAlways == Spec => []ImportHonest
<1>1. PlatformInv => ImportHonest
    BY DEF PlatformInv, FilesInv, ImportHonest
<1> QED
    BY <1>1, PlatformKept, PTL

\* Seats, maintenances, addresses and locations that collide are noticed, unless
\* requests crossed or the request asked for what nobody checks (assignLicense:226,
\* createMaintenance:55, updateIP:493, detectConflicts:564, update:160).
THEOREM CollisionsNoticedAlways == Spec => []CollisionsNoticed
<1>1. PlatformInv => CollisionsNoticed
    BY SeatsAreNoticed, IpsAreHonest, SitesShown
       DEF PlatformInv, PlanningInv, CollisionsNoticed
<1> QED
    BY <1>1, PlatformKept, PTL
=============================================================================
