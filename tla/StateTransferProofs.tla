------------------------ MODULE StateTransferProofs ------------------------
(***************************************************************************)
(* What the transfer loses, for any number of commands, tables, writes and *)
(* runs and for both databases: a rollback nothing that was not in its     *)
(* digest's state or came late; with the gateway stopped, an import or a   *)
(* rollback nothing at all.                                                *)
(***************************************************************************)
EXTENDS StateTransfer, FiniteSetTheorems, WellFoundedInduction, TLAPS

(* Sets of numbers: the greatest *)

\* A finite set of numbers has a greatest member: the one with the fewest above it.
LEMMA GreatestNumber ==
    ASSUME NEW T, IsFiniteSet(T), T # {}
    PROVE  T \subseteq Nat => \E m \in T : \A k \in T : k <= m
<1>0. SUFFICES ASSUME T \subseteq Nat PROVE \E m \in T : \A k \in T : k <= m
    OBVIOUS
<1> DEFINE R == StrictSubsetOrdering(T)
           Above == [k \in T |-> {x \in T : k <= x}]
           F == {Above[k] : k \in T}
<1>1. IsWellFoundedOn(R, SUBSET T)
    BY FS_StrictSubsetOrderingWellFounded, FS_FiniteSubsetsOfFinite, Zenon
<1>2. F \subseteq SUBSET T /\ F # {}
    OBVIOUS
<1>3. \E A \in F : \A B \in F : ~ (<<B, A>> \in R)
    <2> HIDE DEF R, F
    <2> QED
        BY <1>1, <1>2, WFMin, Zenon
<1>4. PICK m \in T : \A k \in T : <<Above[k], Above[m]>> \notin R
    <2> HIDE DEF R, Above
    <2> QED
        BY <1>3
<1>5. ASSUME NEW k \in T, ~ (k <= m) PROVE FALSE
    <2>1. k \in Nat /\ m \in Nat
        BY <1>0
    <2>2. ASSUME NEW x \in Above[k] PROVE x \in Above[m]
        BY <1>0, <1>5, <2>1
    <2>3. m \in Above[m] /\ m \notin Above[k]
        BY <1>5, <2>1
    <2>4. Above[k] \in SUBSET T /\ Above[m] \in SUBSET T
        OBVIOUS
    <2>5. <<Above[k], Above[m]>> \in R
        <3> HIDE DEF Above
        <3> QED
            BY <2>2, <2>3, <2>4 DEF StrictSubsetOrdering
    <2> QED
        BY <1>4, <2>5
<1> QED
    BY <1>5

(* Lists of tables, and sets of rows                                       *)

Keys == {keys \in SUBSET Nat : IsFiniteSet(keys)}

LEMMA BundlesAre == Bundles = [Names -> Keys]
BY DEF Bundles, Keys

\* Both orders of the tables have every table once.
LEMMA TableLists ==
    /\ Len(Tables) \in Nat /\ Len(FileOrder) = Len(Tables)
    /\ DOMAIN Tables = 1 .. Len(Tables) /\ DOMAIN FileOrder = 1 .. Len(Tables)
    /\ Names = {Tables[i] : i \in 1 .. Len(Tables)}
    /\ Names = {FileOrder[i] : i \in 1 .. Len(Tables)}
    /\ \A i, j \in 1 .. Len(Tables) : Tables[i] = Tables[j] => i = j
    /\ Names = Range(Keyed) \cup {"audit_log"}
<1>1. /\ Keyed \in Seq(STRING) /\ \A i \in DOMAIN Keyed : Keyed[i] # "audit_log"
      /\ \A i, j \in DOMAIN Keyed : Keyed[i] = Keyed[j] => i = j
    BY TablesAssumption DEF Range
<1>2. PICK n \in Nat : n = Len(Keyed) /\ DOMAIN Keyed = 1 .. n
    BY <1>1
<1>3. /\ Len(Tables) = n + 1 /\ DOMAIN Tables = 1 .. n + 1
      /\ \A i \in 1 .. n : Tables[i] = Keyed[i]
      /\ Tables[n + 1] = "audit_log"
    BY <1>1, <1>2 DEF Tables
<1>4. /\ Len(FileOrder) = n + 1 /\ DOMAIN FileOrder = 1 .. n + 1
      /\ FileOrder[1] = "audit_log"
      /\ \A i \in 2 .. n + 1 : FileOrder[i] = Keyed[i - 1]
    BY <1>1, <1>2 DEF FileOrder
<1>5. Names = {Tables[i] : i \in 1 .. n + 1} /\ Range(Keyed) = {Keyed[i] : i \in 1 .. n}
    BY <1>2, <1>3 DEF Names, Range
<1>6. \A i, j \in 1 .. n + 1 : Tables[i] = Tables[j] => i = j
    <2>1. \A i \in 1 .. n + 1 : i \in 1 .. n \/ i = n + 1
        OBVIOUS
    <2> QED
        BY <1>1, <1>2, <1>3, <2>1
<1>7. Names = Range(Keyed) \cup {"audit_log"}
    <2>1. \A i \in 1 .. n + 1 : i \in 1 .. n \/ i = n + 1
        OBVIOUS
    <2>2. 1 .. n \subseteq 1 .. n + 1 /\ n + 1 \in 1 .. n + 1
        OBVIOUS
    <2> QED
        BY <1>3, <1>5, <2>1, <2>2
<1>8. {FileOrder[i] : i \in 1 .. n + 1} = Range(Keyed) \cup {"audit_log"}
    <2>1. \A i \in 1 .. n + 1 : i = 1 \/ (i \in 2 .. n + 1 /\ i - 1 \in 1 .. n)
        OBVIOUS
    <2>2. 1 \in 1 .. n + 1 /\ \A i \in 1 .. n : i + 1 \in 2 .. n + 1 /\ (i + 1) - 1 = i
        OBVIOUS
    <2>3. 2 .. n + 1 \subseteq 1 .. n + 1
        OBVIOUS
    <2>4. ASSUME NEW i \in 1 .. n + 1 PROVE FileOrder[i] \in Range(Keyed) \cup {"audit_log"}
        BY <1>4, <1>5, <2>1
    <2>5. ASSUME NEW i \in 1 .. n PROVE Keyed[i] \in {FileOrder[k] : k \in 1 .. n + 1}
        BY <1>4, <2>2, <2>3
    <2>6. "audit_log" \in {FileOrder[k] : k \in 1 .. n + 1}
        BY <1>4, <2>2
    <2> QED
        BY <1>5, <2>4, <2>5, <2>6
<1>9. PICK k \in Nat : k = n + 1
    OBVIOUS
<1>10. Len(Tables) = k
    BY <1>3, <1>9
<1>11. /\ Len(FileOrder) = k /\ DOMAIN Tables = 1 .. k /\ DOMAIN FileOrder = 1 .. k
       /\ Names = {Tables[i] : i \in 1 .. k}
       /\ Names = {FileOrder[i] : i \in 1 .. k}
       /\ \A i, j \in 1 .. k : Tables[i] = Tables[j] => i = j
    <2>1. {FileOrder[i] : i \in 1 .. n + 1} = Names
        BY <1>7, <1>8
    <2> QED
        BY <1>3, <1>4, <1>5, <1>6, <1>9, <2>1
<1> QED
    BY <1>7, <1>10, <1>11

\* Finite sets of keys under the operators the model uses.
LEMMA KeySets ==
    /\ {} \in Keys
    /\ \A n \in Nat : {n} \in Keys
    /\ \A S, T \in Keys : S \cup T \in Keys /\ S \ T \in Keys
<1>1. IsFiniteSet({}) /\ \A n \in Nat : IsFiniteSet({n})
    BY FS_EmptySet, FS_Singleton
<1>2. ASSUME NEW S \in Keys, NEW T \in Keys PROVE S \cup T \in Keys /\ S \ T \in Keys
    <2>1. S \subseteq Nat /\ T \subseteq Nat /\ IsFiniteSet(S) /\ IsFiniteSet(T)
        BY DEF Keys
    <2>2. IsFiniteSet(S \cup T) /\ IsFiniteSet(S \ T)
        BY <2>1, FS_Union, FS_Difference
    <2> QED
        BY <2>1, <2>2 DEF Keys
<1> QED
    BY <1>1, <1>2 DEF Keys

LEMMA NoRowsAre == NoRows \in Bundles /\ \A t \in Names : NoRows[t] = {}
BY KeySets, BundlesAre DEF NoRows

\* Max of a set of ids and one number is the greatest of them.
LEMMA GreatestId ==
    ASSUME NEW S \in Keys, NEW n \in Nat
    PROVE  /\ Max({n} \cup S) \in Nat
           /\ Max({n} \cup S) >= n
           /\ \A x \in S : Max({n} \cup S) >= x
<1> DEFINE T == {n} \cup S
<1>1. T \in Keys /\ T # {}
    BY KeySets
<1>2. IsFiniteSet(T) /\ T \subseteq Nat
    BY <1>1 DEF Keys
<1> HIDE DEF T
<1>3. PICK m \in T : \A k \in T : k <= m
    BY <1>1, <1>2, GreatestNumber
<1>4. Max(T) = CHOOSE x \in T : \A y \in T : x >= y
    BY DEF Max
<1>5. Max(T) \in T /\ \A y \in T : Max(T) >= y
    BY <1>2, <1>3, <1>4
<1> QED
    BY <1>2, <1>5 DEF T

----------------------------------------------------------------------------
(* The steps of a command, those that abort it in one: they do as Crash    *)

Begins(o) == (\E s \in Stores : BeginExport(o, s)) \/ BeginImport(o) \/ BeginRollback(o)

Reads(o) == Snapshot(o) /\ UNCHANGED rows /\ Plain

Opens(o) ==
    /\ Ready(o, "snapshot") /\ ~ More(o) /\ tool[o].op = "export"
    /\ file = None /\ file' = Torn /\ Goto(o, "write")
    /\ UNCHANGED <<rows, lastId, reported, gatewayVars, runs>>

Counts(o) ==
    /\ Ready(o, "count") /\ More(o) /\ Sees(o, Table(o)) = {}
    /\ Step(o, tool[o]) /\ UNCHANGED rows /\ Plain

Counted(o) == Ready(o, "count") /\ ~ More(o) /\ Goto(o, "insert") /\ UNCHANGED rows /\ Plain

Inserts(o) ==
    /\ Ready(o, "insert") /\ More(o)
    /\ LET t == FileOrder[tool[o].i]
           new == tool[o].bundle[t]
       IN  /\ new \cap Pending(o, t) = {} /\ new \cap Sees(o, t) = {}
           /\ Step(o, [tool[o] EXCEPT !.added[t] = new])
    /\ UNCHANGED rows /\ Plain

Imports(o) ==
    /\ Ready(o, "snapshot") /\ ~ More(o) /\ tool[o].op = "import" /\ SameDigest(o)
    /\ Commit(o) /\ authority' \in {authority, "target"}
    /\ UNCHANGED <<lastId, file, reported, gateway, fresh, accepted, runs>>

Compares(o) ==
    /\ Ready(o, "snapshot") /\ ~ More(o) /\ tool[o].op = "rollback" /\ SameDigest(o)
    /\ Goto(o, "delete") /\ UNCHANGED rows /\ Plain

Deletes(o) == DeleteTable(o) /\ UNCHANGED rows /\ Plain

Empties(o) == FinishRollback(o) /\ Plain

LEMMA Cases ==
    ASSUME NEW o \in Tools, Command(o)
    PROVE  \/ Begins(o) \/ Reads(o) \/ Opens(o) \/ WriteBundle(o) \/ Counts(o) \/ Counted(o)
           \/ Inserts(o) \/ AfterInsert(o) \/ Imports(o) \/ Compares(o) \/ Deletes(o)
           \/ Empties(o) \/ Crash(o)
<1>1. ASSUME Ready(o, "snapshot") \/ Ready(o, "count") \/ Ready(o, "insert"), Abort(o), Plain PROVE Crash(o)
    BY <1>1 DEF Ready, Crash
<1>2. ASSUME OpenBundle(o) PROVE Opens(o) \/ Crash(o)
    BY <1>1, <1>2 DEF OpenBundle, Opens, Plain, Abort, gatewayVars
<1>3. ASSUME CountTable(o), Plain PROVE Counts(o) \/ Counted(o) \/ Crash(o)
    BY <1>1, <1>3 DEF CountTable, Counts, Counted
<1>4. ASSUME InsertTable(o), Plain PROVE Inserts(o) \/ Crash(o)
    BY <1>1, <1>4 DEF InsertTable, Inserts
<1>5. ASSUME FinishImport(o) PROVE Imports(o) \/ Crash(o)
    BY <1>1, <1>5 DEF FinishImport, Imports, Plain, Abort, gatewayVars
<1>6. ASSUME CompareRollback(o), Plain PROVE Compares(o) \/ Crash(o)
    BY <1>1, <1>6 DEF CompareRollback, Compares
<1> QED
    BY <1>2, <1>3, <1>4, <1>5, <1>6 DEF Command, Begins, Reads, Deletes, Empties

----------------------------------------------------------------------------
(* Types, and where a command stands                                       *)

Exporting(c) ==
    c.op = "export" => c.at \in {"snapshot", "write"} /\ c.added = NoRows /\ c.deleted = NoRows

\* An import has inserted what it has come to of its file, and deletes nothing.
Importing(c) ==
    c.op = "import" =>
        /\ c.store = "target" /\ c.at \in {"count", "insert", "snapshot"}
        /\ c.bundle \in Bundles /\ c.deleted = NoRows
        /\ \A t \in Names : c.added[t] \subseteq c.bundle[t]
        /\ c.at = "count" => c.added = NoRows
        /\ c.at = "insert" =>
               \A j \in 1 .. c.i - 1 : c.added[FileOrder[j]] = c.bundle[FileOrder[j]]
        /\ c.at = "snapshot" => c.added = c.bundle

\* A rollback deletes only from the digest's state, and inserts nothing.
RollingBack(c) ==
    c.op = "rollback" =>
        /\ c.store = "target" /\ c.at \in {"snapshot", "delete"}
        /\ c.bundle \in Bundles /\ c.added = NoRows
        /\ c.at = "snapshot" => c.deleted = NoRows

Stands(c) == c \in Commands /\ Exporting(c) /\ Importing(c) /\ RollingBack(c)

Shaped ==
    /\ rows \in [Stores -> Bundles] /\ lastId \in [Stores -> Nat]
    /\ tool \in [Tools -> Commands \cup {None}]
    /\ \A o \in Tools : tool[o] # None => Stands(tool[o])
    /\ reported \subseteq Bundles
    /\ gateway \in Stores \cup {None} /\ authority \in Stores \cup {None}
    /\ accepted \in Keys

LEMMA Turn ==
    ASSUME Shaped, NEW o \in Tools, NEW d, tool' = [tool EXCEPT ![o] = d]
    PROVE  tool'[o] = d /\ (\A p \in Tools \ {o} : tool'[p] = tool[p])
BY DEF Shaped

LEMMA Gone ==
    ASSUME Shaped, NEW o \in Tools, NEW at, Goto(o, at)
    PROVE  tool' = [tool EXCEPT ![o] = [tool[o] EXCEPT !.at = at, !.i = 1]]
BY DEF Shaped, Goto

\* A step in one command's record keeps the shape of all.
LEMMA TurnKeeps ==
    ASSUME Shaped, NEW o \in Tools, NEW d, Stands(d), tool' = [tool EXCEPT ![o] = d]
    PROVE  /\ tool' \in [Tools -> Commands \cup {None}]
           /\ \A p \in Tools : tool'[p] # None => Stands(tool'[p])
<1>1. d \in Commands
    BY DEF Stands
<1>2. tool' \in [Tools -> Commands \cup {None}]
    BY <1>1 DEF Shaped
<1>3. tool'[o] = d /\ (\A p \in Tools \ {o} : tool'[p] = tool[p])
    BY Turn
<1>4. \A p \in Tools : tool[p] # None => Stands(tool[p])
    BY DEF Shaped
<1> QED
    BY <1>2, <1>3, <1>4

\* A rollback that takes note changes nothing else of itself.
LEMMA NotedIs ==
    ASSUME Shaped, NEW p \in Tools, NEW s, NEW new \in Bundles, tool[p] # None
    PROVE  LET c == tool[p]
               d == Noted(p, s, new)
           IN  /\ Stands(d) /\ d # None
               /\ d.op = c.op /\ d.store = c.store /\ d.at = c.at /\ d.i = c.i /\ d.bundle = c.bundle
               /\ d.snap = c.snap /\ d.added = c.added /\ d.deleted = c.deleted
               /\ \A t \in Names : c.late[t] \subseteq d.late[t]
               /\ c.op = "rollback" /\ c.store = s => \A t \in Names : new[t] \subseteq d.late[t]
<1>1. PICK c : c = tool[p]
    OBVIOUS
<1>2. Stands(c)
    BY <1>1 DEF Shaped
<1>3. PICK d : d = Noted(p, s, new)
    OBVIOUS
<1>4. CASE c.op = "rollback" /\ c.store = s
    <2>1. PICK later : later = [t \in Names |-> c.late[t] \cup new[t]]
        OBVIOUS
    <2>2. later \in Bundles
        BY <1>2, <2>1, KeySets, BundlesAre DEF Stands, Commands
    <2>3. d = [c EXCEPT !.late = later]
        BY <1>1, <1>3, <1>4, <2>1 DEF Noted
    <2>4. /\ d \in Commands
          /\ d.op = c.op /\ d.store = c.store /\ d.at = c.at /\ d.i = c.i /\ d.bundle = c.bundle
          /\ d.snap = c.snap /\ d.added = c.added /\ d.deleted = c.deleted /\ d.late = later
        BY <1>2, <2>2, <2>3 DEF Stands, Commands
    <2>5. Stands(d)
        BY <1>2, <1>4, <2>4 DEF Stands, Exporting, Importing, RollingBack
    <2>6. d # None
        BY <2>4, NoneAssumption
    <2> QED
        BY <1>1, <1>3, <2>1, <2>4, <2>5, <2>6
<1>5. CASE ~ (c.op = "rollback" /\ c.store = s)
    <2>1. d = c
        BY <1>1, <1>3, <1>5 DEF Noted
    <2> QED
        BY <1>1, <1>2, <1>3, <1>5, <2>1
<1> QED
    BY <1>4, <1>5

LEMMA SeesRows ==
    ASSUME Shaped, NEW o \in Tools, tool[o] # None, NEW t \in Names
    PROVE  Sees(o, t) \in Keys
<1>1. tool[o] \in Commands
    BY DEF Shaped, Stands
<1>2. rows[tool[o].store][t] \in Keys /\ tool[o].deleted[t] \in Keys /\ tool[o].added[t] \in Keys
    BY <1>1, BundlesAre DEF Shaped, Commands
<1> QED
    BY <1>2, KeySets DEF Sees

----------------------------------------------------------------------------
(* What each step makes of its command's record                            *)


LEMMA Reading ==
    ASSUME Shaped, NEW o \in Tools, Reads(o)
    PROVE  \E d : LET c == tool[o]
                  IN  /\ tool' = [tool EXCEPT ![o] = d] /\ Stands(d) /\ d # None
                      /\ d.op = c.op /\ d.store = c.store /\ d.at = c.at /\ d.bundle = c.bundle
                      /\ d.added = c.added /\ d.deleted = c.deleted /\ d.late = c.late
                      /\ \A j \in 1 .. d.i - 1 :
                             \/ d.snap[Tables[j]] = Sees(o, Tables[j])
                             \/ j \in 1 .. c.i - 1 /\ d.snap[Tables[j]] = c.snap[Tables[j]]
<1>1. PICK c : c = tool[o]
    OBVIOUS
<1>2. c # None /\ c.at = "snapshot" /\ Stands(c) /\ c.i <= Len(Tables)
    BY <1>1 DEF Reads, Snapshot, Ready, More, Shaped
<1>3. c \in Commands /\ c.i \in Nat /\ c.i >= 1 /\ c.i + 1 \in 1 .. Len(Tables) + 1 /\ c.i \in 1 .. Len(Tables)
    BY <1>2, TableLists DEF Stands, Commands
<1>4. \A t \in Names : Sees(o, t) \in Keys
    BY <1>1, <1>2, SeesRows
<1>5. CASE Backend[c.store] = "sqlite"
    <2>1. PICK all : all = [t \in Names |-> Sees(o, t)]
        OBVIOUS
    <2>2. all \in Bundles
        BY <1>4, <2>1, BundlesAre
    <2>3. PICK k : k = Len(Tables) + 1
        OBVIOUS
    <2>4. PICK d : d = [c EXCEPT !.snap = all, !.i = k]
        OBVIOUS
    <2>5. tool' = [tool EXCEPT ![o] = d]
        BY <1>1, <1>5, <2>1, <2>3, <2>4 DEF Reads, Snapshot, Shaped
    <2>6. k \in 1 .. Len(Tables) + 1
        BY <2>3, TableLists
    <2>7. /\ d \in Commands
          /\ d.op = c.op /\ d.store = c.store /\ d.at = c.at /\ d.bundle = c.bundle
          /\ d.added = c.added /\ d.deleted = c.deleted /\ d.late = c.late
          /\ d.snap = all /\ d.i = k
        BY <1>3, <2>2, <2>4, <2>6 DEF Commands
    <2>8. Stands(d)
        BY <1>2, <2>7 DEF Stands, Exporting, Importing, RollingBack
    <2>9. \A j \in 1 .. d.i - 1 : d.snap[Tables[j]] = Sees(o, Tables[j])
        BY <2>1, <2>3, <2>7, TableLists
    <2>10. d # None
        BY <2>7, NoneAssumption
    <2> QED
        BY <1>1, <2>5, <2>7, <2>8, <2>9, <2>10
<1>6. CASE Backend[c.store] # "sqlite"
    <2>1. PICK t : t = Tables[c.i]
        OBVIOUS
    <2>2. t \in Names /\ t = Table(o)
        BY <1>1, <1>3, <2>1, TableLists DEF Table
    <2>3. PICK seen : seen = Sees(o, t)
        OBVIOUS
    <2>4. PICK read : read = [c.snap EXCEPT ![t] = seen]
        OBVIOUS
    <2>5. PICK d : d = [c EXCEPT !.snap = read, !.i = c.i + 1]
        OBVIOUS
    <2>6. c.snap \in Bundles
        BY <1>3 DEF Commands
    <2>7. read \in Bundles /\ read[t] = seen /\ \A u \in Names : u # t => read[u] = c.snap[u]
        BY <1>4, <2>2, <2>3, <2>4, <2>6, BundlesAre
    <2>8. Step(o, [tool[o] EXCEPT !.snap[Table(o)] = Sees(o, Table(o))])
        BY <1>1, <1>6 DEF Reads, Snapshot
    <2>9. [tool[o] EXCEPT !.snap[Table(o)] = Sees(o, Table(o))] = [c EXCEPT !.snap = read]
        BY <1>1, <1>3, <2>2, <2>3, <2>4 DEF Commands
    <2>10. Step(o, [c EXCEPT !.snap = read])
        BY <2>8, <2>9
    <2>11. tool' = [tool EXCEPT ![o] = d]
        BY <1>3, <2>5, <2>10 DEF Step, Commands
    <2>12. /\ d \in Commands
           /\ d.op = c.op /\ d.store = c.store /\ d.at = c.at /\ d.bundle = c.bundle
           /\ d.added = c.added /\ d.deleted = c.deleted /\ d.late = c.late
           /\ d.snap = read /\ d.i = c.i + 1
        BY <1>3, <2>5, <2>7 DEF Commands
    <2>13. Stands(d)
        BY <1>2, <2>12 DEF Stands, Exporting, Importing, RollingBack
    <2>14. ASSUME NEW j \in 1 .. d.i - 1
           PROVE  \/ d.snap[Tables[j]] = Sees(o, Tables[j])
                  \/ j \in 1 .. c.i - 1 /\ d.snap[Tables[j]] = c.snap[Tables[j]]
        <3>1. j = c.i \/ (j \in 1 .. c.i - 1 /\ j # c.i /\ j \in 1 .. Len(Tables))
            BY <1>3, <2>12, TableLists
        <3>2. j # c.i /\ j \in 1 .. Len(Tables) => Tables[j] # t /\ Tables[j] \in Names
            BY <1>3, <2>1, TableLists
        <3> QED
            BY <2>1, <2>3, <2>7, <2>12, <3>1, <3>2
    <2>15. d # None
        BY <2>12, NoneAssumption
    <2> QED
        BY <1>1, <2>11, <2>12, <2>13, <2>14, <2>15
<1> QED
    BY <1>5, <1>6

\* What `Goto' makes of a record, and one more table of a list.
LEMMA Gone1 ==
    ASSUME NEW c \in Commands, NEW at \in {"write", "insert", "snapshot", "delete"}
    PROVE  LET d == [c EXCEPT !.at = at, !.i = 1]
           IN  /\ d \in Commands /\ d # None /\ d.at = at /\ d.i = 1
               /\ d.op = c.op /\ d.store = c.store /\ d.bundle = c.bundle /\ d.snap = c.snap
               /\ d.added = c.added /\ d.deleted = c.deleted /\ d.late = c.late
<1>1. 1 \in 1 .. Len(Tables) + 1
    BY TableLists
<1> QED
    BY <1>1, NoneAssumption DEF Commands

LEMMA Opening ==
    ASSUME Shaped, NEW o \in Tools, Opens(o)
    PROVE  \E d : LET c == tool[o]
                  IN  /\ tool' = [tool EXCEPT ![o] = d] /\ Stands(d) /\ d # None
                      /\ d.op = "export" /\ d.at = "write"
                      /\ d.store = c.store /\ d.snap = c.snap
<1>1. PICK c : c = tool[o]
    OBVIOUS
<1>2. c # None /\ c.op = "export" /\ Stands(c)
    BY <1>1 DEF Opens, Ready, Shaped
<1>3. PICK d : d = [c EXCEPT !.at = "write", !.i = 1]
    OBVIOUS
<1>4. tool' = [tool EXCEPT ![o] = d]
    BY <1>1, <1>3, Gone DEF Opens
<1>5. /\ d \in Commands /\ d # None /\ d.at = "write"
      /\ d.op = c.op /\ d.store = c.store /\ d.snap = c.snap
      /\ d.added = c.added /\ d.deleted = c.deleted
    BY <1>2, <1>3, Gone1 DEF Stands
<1>6. Stands(d)
    BY <1>2, <1>5 DEF Stands, Exporting, Importing, RollingBack
<1> QED
    BY <1>1, <1>2, <1>4, <1>5, <1>6

LEMMA Comparing ==
    ASSUME Shaped, NEW o \in Tools, Compares(o)
    PROVE  \E d : LET c == tool[o]
                  IN  /\ tool' = [tool EXCEPT ![o] = d] /\ Stands(d) /\ d # None
                      /\ c.op = "rollback" /\ c.at = "snapshot" /\ c.i = Len(Tables) + 1
                      /\ c.snap = c.bundle
                      /\ d.op = "rollback" /\ d.at = "delete" /\ d.i = 1
                      /\ d.store = c.store /\ d.snap = c.snap /\ d.bundle = c.bundle
                      /\ d.deleted = NoRows /\ d.late = c.late
<1>1. PICK c : c = tool[o]
    OBVIOUS
<1>2. c # None /\ c.op = "rollback" /\ c.at = "snapshot" /\ Stands(c) /\ ~ c.i <= Len(Tables)
    BY <1>1 DEF Compares, Ready, More, Shaped
<1>3. c.snap = c.bundle
    BY <1>1 DEF Compares, SameDigest
<1>4. PICK d : d = [c EXCEPT !.at = "delete", !.i = 1]
    OBVIOUS
<1>5. tool' = [tool EXCEPT ![o] = d]
    BY <1>1, <1>4, Gone DEF Compares
<1>6. /\ d \in Commands /\ d # None /\ d.at = "delete" /\ d.i = 1
      /\ d.op = c.op /\ d.store = c.store /\ d.snap = c.snap /\ d.bundle = c.bundle
      /\ d.added = c.added /\ d.deleted = c.deleted /\ d.late = c.late
    BY <1>2, <1>4, Gone1 DEF Stands
<1>7. Stands(d)
    BY <1>2, <1>6 DEF Stands, Exporting, Importing, RollingBack
<1>8. c.deleted = NoRows
    BY <1>2 DEF Stands, RollingBack
<1>9. c.i = Len(Tables) + 1
    BY <1>2, TableLists DEF Stands, Commands
<1> QED
    BY <1>1, <1>2, <1>3, <1>5, <1>6, <1>7, <1>8, <1>9

LEMMA Counting ==
    ASSUME Shaped, NEW o \in Tools, Counts(o)
    PROVE  \E d : LET c == tool[o]
                  IN  /\ tool' = [tool EXCEPT ![o] = d] /\ Stands(d) /\ d # None
                      /\ c.op = "import" /\ c.at = "count" /\ c.i \in 1 .. Len(Tables)
                      /\ Sees(o, Tables[c.i]) = {}
                      /\ d.op = "import" /\ d.at = "count" /\ d.i = c.i + 1
                      /\ d.bundle = c.bundle /\ d.added = c.added
<1>1. PICK c : c = tool[o]
    OBVIOUS
<1>2. c # None /\ c.at = "count" /\ Stands(c) /\ c.i <= Len(Tables) /\ Sees(o, Tables[c.i]) = {}
    BY <1>1 DEF Counts, Ready, More, Table, Shaped
<1>3. c.op = "import"
    BY <1>2 DEF Stands, Commands, Exporting, RollingBack
<1>4. c.i \in 1 .. Len(Tables) /\ c.i + 1 \in 1 .. Len(Tables) + 1
    BY <1>2, TableLists DEF Stands, Commands
<1>5. PICK d : d = [c EXCEPT !.i = c.i + 1]
    OBVIOUS
<1>6. tool' = [tool EXCEPT ![o] = d]
    BY <1>1, <1>5 DEF Counts, Step
<1>7. /\ d \in Commands /\ d # None /\ d.at = c.at /\ d.i = c.i + 1
      /\ d.op = c.op /\ d.store = c.store /\ d.bundle = c.bundle
      /\ d.added = c.added /\ d.deleted = c.deleted
    BY <1>2, <1>4, <1>5, NoneAssumption DEF Stands, Commands
<1>8. Stands(d)
    BY <1>2, <1>3, <1>7 DEF Stands, Exporting, Importing, RollingBack
<1> QED
    BY <1>1, <1>2, <1>3, <1>4, <1>6, <1>7, <1>8

LEMMA CountedAll ==
    ASSUME Shaped, NEW o \in Tools, Counted(o)
    PROVE  \E d : LET c == tool[o]
                  IN  /\ tool' = [tool EXCEPT ![o] = d] /\ Stands(d) /\ d # None
                      /\ c.op = "import" /\ c.at = "count" /\ c.i = Len(Tables) + 1
                      /\ d.op = "import" /\ d.at = "insert" /\ d.i = 1
                      /\ d.bundle = c.bundle /\ d.added = NoRows
<1>1. PICK c : c = tool[o]
    OBVIOUS
<1>2. c # None /\ c.at = "count" /\ Stands(c) /\ ~ c.i <= Len(Tables)
    BY <1>1 DEF Counted, Ready, More, Shaped
<1>3. c.op = "import" /\ c.i = Len(Tables) + 1
    BY <1>2, TableLists DEF Stands, Commands, Exporting, RollingBack
<1>4. PICK d : d = [c EXCEPT !.at = "insert", !.i = 1]
    OBVIOUS
<1>5. tool' = [tool EXCEPT ![o] = d]
    BY <1>1, <1>4, Gone DEF Counted
<1>6. /\ d \in Commands /\ d # None /\ d.at = "insert" /\ d.i = 1
      /\ d.op = c.op /\ d.store = c.store /\ d.snap = c.snap /\ d.bundle = c.bundle
      /\ d.added = c.added /\ d.deleted = c.deleted /\ d.late = c.late
    BY <1>2, <1>4, Gone1 DEF Stands
<1>7. Stands(d)
    BY <1>2, <1>3, <1>6 DEF Stands, Exporting, Importing, RollingBack
<1>8. c.added = NoRows
    BY <1>2, <1>3 DEF Stands, Importing
<1> QED
    BY <1>1, <1>2, <1>3, <1>5, <1>6, <1>7, <1>8

LEMMA Inserting ==
    ASSUME Shaped, NEW o \in Tools, Inserts(o)
    PROVE  \E d : LET c == tool[o]
                      t == FileOrder[c.i]
                  IN  /\ tool' = [tool EXCEPT ![o] = d] /\ Stands(d) /\ d # None
                      /\ c.op = "import" /\ c.at = "insert" /\ c.i \in 1 .. Len(Tables)
                      /\ t \in Names
                      /\ c.bundle[t] \cap Pending(o, t) = {} /\ c.bundle[t] \cap Sees(o, t) = {}
                      /\ d.op = "import" /\ d.at = "insert" /\ d.bundle = c.bundle
                      /\ d.added[t] = c.bundle[t]
                      /\ \A u \in Names : u # t => d.added[u] = c.added[u]
<1>1. PICK c : c = tool[o]
    OBVIOUS
<1>2. c # None /\ c.at = "insert" /\ Stands(c) /\ c.i <= Len(Tables)
    BY <1>1 DEF Inserts, Ready, More, Shaped
<1>3. c.op = "import"
    BY <1>2 DEF Stands, Commands, Exporting, RollingBack
<1>4. c.i \in 1 .. Len(Tables) /\ c.i + 1 \in 1 .. Len(Tables) + 1
    BY <1>2, TableLists DEF Stands, Commands
<1>5. PICK t : t = FileOrder[c.i]
    OBVIOUS
<1>6. t \in Names
    BY <1>4, <1>5, TableLists
<1>7. PICK new : new = c.bundle[t]
    OBVIOUS
<1>8. new \in Keys
    BY <1>2, <1>3, <1>6, <1>7, BundlesAre DEF Stands, Importing
<1>9. PICK added : added = [c.added EXCEPT ![t] = new]
    OBVIOUS
<1>10. c.added \in Bundles
    BY <1>2 DEF Stands, Commands
<1>11. added \in Bundles /\ added[t] = new /\ \A u \in Names : u # t => added[u] = c.added[u]
    BY <1>6, <1>8, <1>9, <1>10, BundlesAre
<1>12. PICK d : d = [c EXCEPT !.added = added, !.i = c.i + 1]
    OBVIOUS
<1>13. Step(o, [c EXCEPT !.added[t] = new]) /\ new \cap Pending(o, t) = {} /\ new \cap Sees(o, t) = {}
    BY <1>1, <1>5, <1>7 DEF Inserts
<1>14. [c EXCEPT !.added[t] = new] = [c EXCEPT !.added = added]
    BY <1>2, <1>9 DEF Stands, Commands
<1>15. Step(o, [c EXCEPT !.added = added])
    BY <1>13, <1>14
<1>16. tool' = [tool EXCEPT ![o] = d]
    BY <1>2, <1>12, <1>15 DEF Step, Stands, Commands
<1>17. /\ d \in Commands /\ d # None /\ d.at = c.at /\ d.i = c.i + 1
       /\ d.op = c.op /\ d.store = c.store /\ d.bundle = c.bundle
       /\ d.added = added /\ d.deleted = c.deleted
    BY <1>2, <1>4, <1>11, <1>12, NoneAssumption DEF Stands, Commands
<1>18. \A u \in Names : d.added[u] \subseteq d.bundle[u]
    BY <1>2, <1>3, <1>7, <1>11, <1>17 DEF Stands, Importing
<1>19. ASSUME NEW j \in 1 .. d.i - 1 PROVE d.added[FileOrder[j]] = d.bundle[FileOrder[j]]
    <2>1. j = c.i \/ (j \in 1 .. c.i - 1 /\ j \in 1 .. Len(Tables))
        BY <1>4, <1>17, TableLists
    <2>2. j \in 1 .. Len(Tables) => FileOrder[j] \in Names
        BY TableLists
    <2>3. j \in 1 .. c.i - 1 => c.added[FileOrder[j]] = c.bundle[FileOrder[j]]
        BY <1>2, <1>3 DEF Stands, Importing
    <2> QED
        BY <1>5, <1>7, <1>11, <1>17, <2>1, <2>2, <2>3
<1>20. Stands(d)
    BY <1>2, <1>3, <1>17, <1>18, <1>19 DEF Stands, Exporting, Importing, RollingBack
<1>21. /\ d.added[FileOrder[c.i]] = c.bundle[FileOrder[c.i]]
       /\ \A u \in Names : u # FileOrder[c.i] => d.added[u] = c.added[u]
       /\ c.bundle[FileOrder[c.i]] \cap Pending(o, FileOrder[c.i]) = {}
       /\ c.bundle[FileOrder[c.i]] \cap Sees(o, FileOrder[c.i]) = {}
       /\ FileOrder[c.i] \in Names
    BY <1>5, <1>6, <1>7, <1>11, <1>13, <1>17
<1>22. /\ tool[o].op = "import" /\ tool[o].at = "insert" /\ tool[o].i \in 1 .. Len(Tables)
       /\ FileOrder[tool[o].i] \in Names
       /\ tool[o].bundle[FileOrder[tool[o].i]] \cap Pending(o, FileOrder[tool[o].i]) = {}
       /\ tool[o].bundle[FileOrder[tool[o].i]] \cap Sees(o, FileOrder[tool[o].i]) = {}
    BY <1>1, <1>2, <1>3, <1>4, <1>21
<1>23. /\ d.op = "import" /\ d.at = "insert" /\ d.bundle = tool[o].bundle
       /\ d.added[FileOrder[tool[o].i]] = tool[o].bundle[FileOrder[tool[o].i]]
       /\ \A u \in Names : u # FileOrder[tool[o].i] => d.added[u] = tool[o].added[u]
    BY <1>1, <1>2, <1>3, <1>17, <1>21
<1> QED
    BY <1>16, <1>17, <1>20, <1>22, <1>23, Zenon

LEMMA Inserted ==
    ASSUME Shaped, NEW o \in Tools, AfterInsert(o)
    PROVE  \E d : LET c == tool[o]
                  IN  /\ tool' = [tool EXCEPT ![o] = d] /\ Stands(d) /\ d # None
                      /\ c.op = "import" /\ c.at = "insert"
                      /\ d.op = "import" /\ d.at = "snapshot" /\ d.bundle = c.bundle
                      /\ d.added = c.added /\ d.added = d.bundle
                      /\ lastId' \in [Stores -> Nat]
                      /\ \A s \in Stores \ {"target"} : lastId'[s] = lastId[s]
                      /\ \A id \in d.bundle["audit_log"] : lastId'["target"] >= id
                      /\ Backend["target"] # "postgres" => lastId'["target"] >= lastId["target"]
<1>1. PICK c : c = tool[o]
    OBVIOUS
<1>2. c # None /\ c.at = "insert" /\ Stands(c) /\ ~ c.i <= Len(Tables)
    BY <1>1 DEF AfterInsert, Ready, More, Shaped
<1>3. c.op = "import" /\ c.i = Len(Tables) + 1
    BY <1>2, TableLists DEF Stands, Commands, Exporting, RollingBack
<1>4. PICK d : d = [c EXCEPT !.at = "snapshot", !.i = 1]
    OBVIOUS
<1>5. tool' = [tool EXCEPT ![o] = d]
    BY <1>1, <1>4, Gone DEF AfterInsert
<1>6. /\ d \in Commands /\ d # None /\ d.at = "snapshot" /\ d.i = 1
      /\ d.op = c.op /\ d.store = c.store /\ d.snap = c.snap /\ d.bundle = c.bundle
      /\ d.added = c.added /\ d.deleted = c.deleted /\ d.late = c.late
    BY <1>2, <1>4, Gone1 DEF Stands
<1>7. c.added = c.bundle
    <2>1. ASSUME NEW t \in Names PROVE c.added[t] = c.bundle[t]
        <3>1. PICK j \in 1 .. Len(Tables) : t = FileOrder[j]
            BY TableLists
        <3>2. j \in 1 .. c.i - 1
            BY <1>3, TableLists
        <3> QED
            BY <1>2, <1>3, <3>1, <3>2 DEF Stands, Importing
    <2>2. c.added \in [Names -> Keys] /\ c.bundle \in [Names -> Keys]
        BY <1>2, <1>3, BundlesAre DEF Stands, Importing, Commands
    <2> QED
        BY <2>1, <2>2
<1>8. Stands(d)
    BY <1>2, <1>3, <1>6, <1>7 DEF Stands, Exporting, Importing, RollingBack
<1>9. PICK ids : ids = c.bundle["audit_log"]
    OBVIOUS
<1>10. ids \in Keys /\ c.store = "target"
    BY <1>2, <1>3, <1>9, TableLists, BundlesAre DEF Stands, Importing
<1>11. PICK least : least = IF Backend["target"] = "postgres" THEN 0 ELSE lastId["target"]
    OBVIOUS
<1>12. "target" \in Stores /\ least \in Nat
    BY <1>11 DEF Shaped, Stores
<1>13. PICK n : n = Max({least} \cup ids)
    OBVIOUS
<1>14. n \in Nat /\ n >= least /\ \A id \in ids : n >= id
    BY <1>10, <1>12, <1>13, GreatestId
<1>15. lastId' = [lastId EXCEPT !["target"] = n]
    BY <1>1, <1>9, <1>10, <1>11, <1>13 DEF AfterInsert, Setval
<1>16. /\ lastId' \in [Stores -> Nat] /\ lastId'["target"] = n
       /\ \A s \in Stores \ {"target"} : lastId'[s] = lastId[s]
    BY <1>12, <1>14, <1>15 DEF Shaped
<1> QED
    BY <1>1, <1>2, <1>3, <1>5, <1>6, <1>7, <1>8, <1>9, <1>11, <1>14, <1>16

LEMMA Deleting ==
    ASSUME Shaped, NEW o \in Tools, Deletes(o)
    PROVE  \E d : LET c == tool[o]
                      t == Tables[c.i]
                  IN  /\ tool' = [tool EXCEPT ![o] = d] /\ Stands(d) /\ d # None
                      /\ c.op = "rollback" /\ c.at = "delete" /\ c.i \in 1 .. Len(Tables)
                      /\ t \in Names
                      /\ d.op = "rollback" /\ d.at = "delete" /\ d.i = c.i + 1
                      /\ d.bundle = c.bundle /\ d.late = c.late
                      /\ d.deleted[t] = rows["target"][t] \ c.deleted[t]
                      /\ \A u \in Names : u # t => d.deleted[u] = c.deleted[u]
<1>1. PICK c : c = tool[o]
    OBVIOUS
<1>2. c # None /\ c.at = "delete" /\ Stands(c) /\ c.i <= Len(Tables)
    BY <1>1 DEF Deletes, DeleteTable, Ready, More, Shaped
<1>3. c.op = "rollback"
    BY <1>2 DEF Stands, Commands, Exporting, Importing
<1>4. c.i \in 1 .. Len(Tables) /\ c.i + 1 \in 1 .. Len(Tables) + 1
    BY <1>2, TableLists DEF Stands, Commands
<1>5. PICK t : t = Tables[c.i]
    OBVIOUS
<1>6. t \in Names /\ t = Table(o)
    BY <1>1, <1>4, <1>5, TableLists DEF Table
<1>7. PICK seen : seen = Sees(o, t)
    OBVIOUS
<1>8. seen \in Keys
    BY <1>1, <1>2, <1>6, <1>7, SeesRows
<1>9. PICK deleted : deleted = [c.deleted EXCEPT ![t] = seen]
    OBVIOUS
<1>10. c.deleted \in Bundles
    BY <1>2 DEF Stands, Commands
<1>11. deleted \in Bundles /\ deleted[t] = seen /\ \A u \in Names : u # t => deleted[u] = c.deleted[u]
    BY <1>6, <1>8, <1>9, <1>10, BundlesAre
<1>12. PICK d : d = [c EXCEPT !.deleted = deleted, !.i = c.i + 1]
    OBVIOUS
<1>13. Step(o, [c EXCEPT !.deleted[t] = seen])
    BY <1>1, <1>6, <1>7 DEF Deletes, DeleteTable
<1>14. [c EXCEPT !.deleted[t] = seen] = [c EXCEPT !.deleted = deleted]
    BY <1>2, <1>9 DEF Stands, Commands
<1>15. Step(o, [c EXCEPT !.deleted = deleted])
    BY <1>13, <1>14
<1>16. tool' = [tool EXCEPT ![o] = d]
    BY <1>2, <1>12, <1>15 DEF Step, Stands, Commands
<1>17. /\ d \in Commands /\ d # None /\ d.at = c.at /\ d.i = c.i + 1
       /\ d.op = c.op /\ d.store = c.store /\ d.bundle = c.bundle
       /\ d.added = c.added /\ d.deleted = deleted /\ d.late = c.late
    BY <1>2, <1>4, <1>11, <1>12, NoneAssumption DEF Stands, Commands
<1>18. Stands(d)
    BY <1>2, <1>3, <1>17 DEF Stands, Exporting, Importing, RollingBack
<1>19. seen = rows["target"][t] \ c.deleted[t]
    <2>1. c.store = "target" /\ c.added = NoRows
        BY <1>2, <1>3 DEF Stands, RollingBack
    <2>2. NoRows[t] = {}
        BY <1>6, NoRowsAre
    <2>3. seen = (rows[c.store][t] \ c.deleted[t]) \cup c.added[t]
        BY <1>1, <1>7 DEF Sees
    <2> QED
        BY <2>1, <2>2, <2>3
<1>20. /\ Tables[c.i] \in Names
       /\ d.deleted[Tables[c.i]] = rows["target"][Tables[c.i]] \ c.deleted[Tables[c.i]]
       /\ \A u \in Names : u # Tables[c.i] => d.deleted[u] = c.deleted[u]
    BY <1>5, <1>6, <1>11, <1>17, <1>19
<1>21. /\ tool[o].op = "rollback" /\ tool[o].at = "delete" /\ tool[o].i \in 1 .. Len(Tables)
       /\ Tables[tool[o].i] \in Names
    BY <1>1, <1>2, <1>3, <1>4, <1>20
<1>22. /\ d.op = "rollback" /\ d.at = "delete" /\ d.i = tool[o].i + 1
       /\ d.bundle = tool[o].bundle /\ d.late = tool[o].late
       /\ d.deleted[Tables[tool[o].i]] = rows["target"][Tables[tool[o].i]] \ tool[o].deleted[Tables[tool[o].i]]
       /\ \A u \in Names : u # Tables[tool[o].i] => d.deleted[u] = tool[o].deleted[u]
    BY <1>1, <1>2, <1>3, <1>17, <1>20
<1> QED
    BY <1>16, <1>17, <1>18, <1>21, <1>22, Zenon

\* A commit of an import or a rollback: the others go on, rollbacks take note.
LEMMA Committing ==
    ASSUME Shaped, NEW o \in Tools, tool[o] # None, tool[o].op \in {"import", "rollback"}, Commit(o)
    PROVE  LET c == tool[o]
           IN  /\ c.added \in Bundles /\ c.deleted \in Bundles /\ c.store = "target"
               /\ tool' \in [Tools -> Commands \cup {None}]
               /\ tool'[o] = None
               /\ \A p \in Tools \ {o} :
                      tool'[p] = IF tool[p] = None THEN None ELSE Noted(p, "target", c.added)
               /\ \A p \in Tools : tool'[p] # None => Stands(tool'[p])
               /\ rows' \in [Stores -> Bundles]
               /\ \A s \in Stores \ {"target"} : rows'[s] = rows[s]
               /\ \A t \in Names :
                      rows'["target"][t] = (rows["target"][t] \ c.deleted[t]) \cup c.added[t]
<1>1. PICK c : c = tool[o]
    OBVIOUS
<1>2. Stands(c) /\ c.store = "target" /\ c.added \in Bundles /\ c.deleted \in Bundles
    BY <1>1 DEF Shaped, Stands, Commands, Importing, RollingBack
<1>3. tool' = [p \in Tools |-> IF p = o THEN None ELSE Noted(p, "target", c.added)]
    BY <1>1, <1>2 DEF Commit
<1>4. tool'[o] = None
    BY <1>3
<1>5. ASSUME NEW p \in Tools \ {o} PROVE tool'[p] = IF tool[p] = None THEN None ELSE Noted(p, "target", c.added)
    BY <1>3 DEF Noted
<1>6. ASSUME NEW p \in Tools, tool'[p] # None PROVE Stands(tool'[p])
    <2>1. p \in Tools \ {o} /\ tool[p] # None /\ tool'[p] = Noted(p, "target", c.added)
        BY <1>4, <1>5, <1>6
    <2> QED
        BY <1>2, <2>1, NotedIs
<1>7. tool' \in [Tools -> Commands \cup {None}]
    BY <1>3, <1>6 DEF Stands
<1>8. PICK new : new = [t \in Names |-> Sees(o, t)]
    OBVIOUS
<1>9. new \in Bundles
    BY <1>8, SeesRows, BundlesAre
<1>10. rows' = [rows EXCEPT !["target"] = new] /\ "target" \in Stores
    BY <1>1, <1>2, <1>8 DEF Commit, Stores
<1>11. /\ rows' \in [Stores -> Bundles] /\ rows'["target"] = new
       /\ \A s \in Stores \ {"target"} : rows'[s] = rows[s]
    BY <1>9, <1>10 DEF Shaped
<1>12. \A t \in Names : new[t] = (rows["target"][t] \ c.deleted[t]) \cup c.added[t]
    BY <1>1, <1>2, <1>8 DEF Sees
<1> QED
    BY <1>1, <1>2, <1>4, <1>5, <1>6, <1>7, <1>11, <1>12

LEMMA ImportsCommit ==
    ASSUME Shaped, NEW o \in Tools, Imports(o)
    PROVE  /\ tool[o] # None /\ tool[o].op = "import" /\ tool[o].at = "snapshot" /\ Commit(o)
           /\ \A t \in Names : rows'["target"][t] = rows["target"][t] \cup tool[o].bundle[t]
<1>1. tool[o] # None /\ tool[o].op = "import" /\ tool[o].at = "snapshot" /\ Commit(o)
    BY DEF Imports, Ready
<1>2. /\ tool[o].added = tool[o].bundle /\ tool[o].deleted = NoRows
    BY <1>1 DEF Shaped, Stands, Importing
<1>3. \A t \in Names :
          rows'["target"][t] = (rows["target"][t] \ tool[o].deleted[t]) \cup tool[o].added[t]
    BY <1>1, Committing
<1> QED
    BY <1>1, <1>2, <1>3, NoRowsAre

LEMMA EmptiesCommit ==
    ASSUME Shaped, NEW o \in Tools, Empties(o)
    PROVE  /\ tool[o] # None /\ tool[o].op = "rollback" /\ tool[o].at = "delete" /\ Commit(o)
           /\ tool[o].i = Len(Tables) + 1
           /\ \A t \in Names : rows'["target"][t] = rows["target"][t] \ tool[o].deleted[t]
<1>1. tool[o] # None /\ tool[o].at = "delete" /\ Commit(o) /\ Stands(tool[o]) /\ ~ tool[o].i <= Len(Tables)
    BY DEF Empties, FinishRollback, Ready, More, Shaped
<1>2. tool[o].op = "rollback" /\ tool[o].i = Len(Tables) + 1
    BY <1>1, TableLists DEF Stands, Commands, Exporting, Importing
<1>3. tool[o].added = NoRows
    BY <1>1, <1>2 DEF Stands, RollingBack
<1>4. \A t \in Names :
          rows'["target"][t] = (rows["target"][t] \ tool[o].deleted[t]) \cup tool[o].added[t]
    BY <1>1, <1>2, Committing
<1> QED
    BY <1>1, <1>2, <1>3, <1>4, NoRowsAre

LEMMA Beginning ==
    ASSUME Shaped, NEW o \in Tools, Begins(o)
    PROVE  \E d : /\ tool' = [tool EXCEPT ![o] = d] /\ Stands(d) /\ d # None
                  /\ tool[o] = None /\ (careful => gateway = None)
                  /\ d.i = 1 /\ d.late = NoRows
                  /\ d.op # "import" => d.at = "snapshot"
                  /\ d.op = "import" =>
                         /\ d.at = "count" /\ file \in reported /\ d.bundle = file
                         /\ careful => fresh /\ \A p \in Tools : tool[p] # None => tool[p].op # "rollback"
                  /\ d.op = "rollback" =>
                         d.bundle \in reported /\ (careful => \A p \in Tools : tool[p] = None)
                  /\ authority' = IF d.op = "rollback" THEN None ELSE authority
                  /\ UNCHANGED <<rows, lastId, file, reported, gateway, fresh, accepted>>
<1> DEFINE Blank(op, s, at, bundle) ==
        [op |-> op, store |-> s, at |-> at, i |-> 1, bundle |-> bundle, snap |-> NoRows,
         added |-> NoRows, deleted |-> NoRows, late |-> NoRows]
<1>1. /\ 1 \in 1 .. Len(Tables) + 1 /\ NoRows \in Bundles
      /\ \A t \in Names : NoRows[t] = {}
      /\ \A j \in 1 .. 1 - 1 : FALSE
    BY TableLists, NoRowsAre
<1>2. ASSUME NEW op \in {"export", "import", "rollback"}, NEW s \in Stores,
             NEW at \in {"snapshot", "count"}, NEW bundle \in Bundles \cup {None}
      PROVE  /\ Blank(op, s, at, bundle) \in Commands /\ Blank(op, s, at, bundle) # None
             /\ op = "export" /\ at = "snapshot" => Stands(Blank(op, s, at, bundle))
             /\ op = "import" /\ s = "target" /\ at = "count" /\ bundle \in Bundles
                    => Stands(Blank(op, s, at, bundle))
             /\ op = "rollback" /\ s = "target" /\ at = "snapshot" /\ bundle \in Bundles
                    => Stands(Blank(op, s, at, bundle))
    <2>1. PICK d : d = Blank(op, s, at, bundle)
        OBVIOUS
    <2>2. d \in Commands
        BY <1>1, <2>1 DEF Commands
    <2>3. /\ d.op = op /\ d.store = s /\ d.at = at /\ d.i = 1 /\ d.bundle = bundle
          /\ d.added = NoRows /\ d.deleted = NoRows
        BY <2>1
    <2> HIDE DEF Blank
    <2>4. op = "export" /\ at = "snapshot" => Stands(d)
        BY <2>2, <2>3 DEF Stands, Exporting, Importing, RollingBack
    <2>5. op = "import" /\ s = "target" /\ at = "count" /\ bundle \in Bundles => Stands(d)
        BY <1>1, <2>2, <2>3 DEF Stands, Exporting, Importing, RollingBack
    <2>6. op = "rollback" /\ s = "target" /\ at = "snapshot" /\ bundle \in Bundles => Stands(d)
        BY <2>2, <2>3 DEF Stands, Exporting, Importing, RollingBack
    <2> QED
        BY <2>1, <2>2, <2>4, <2>5, <2>6, NoneAssumption
<1>3. ASSUME NEW s \in Stores, BeginExport(o, s)
      PROVE  \E d : /\ d = Blank("export", s, "snapshot", None)
                    /\ tool' = [tool EXCEPT ![o] = d] /\ Stands(d) /\ d # None
    BY <1>2, <1>3 DEF BeginExport, Begin
<1>4. ASSUME BeginImport(o)
      PROVE  \E d : /\ d = Blank("import", "target", "count", file) /\ file \in reported
                    /\ tool' = [tool EXCEPT ![o] = d] /\ Stands(d) /\ d # None
    <2>1. file \in Bundles /\ "target" \in Stores
        BY <1>4 DEF BeginImport, Shaped, Stores
    <2> QED
        BY <1>2, <1>4, <2>1 DEF BeginImport, Begin
<1>5. ASSUME BeginRollback(o)
      PROVE  \E bundle \in reported : \E d :
                 /\ d = Blank("rollback", "target", "snapshot", bundle)
                 /\ Begin(o, "rollback", "target", "snapshot", bundle)
                 /\ tool' = [tool EXCEPT ![o] = d] /\ Stands(d) /\ d # None
    <2>1. "target" \in Stores
        BY DEF Stores
    <2>2. PICK bundle \in reported : Begin(o, "rollback", "target", "snapshot", bundle)
        BY <1>5 DEF BeginRollback
    <2>3. bundle \in Bundles
        BY DEF Shaped
    <2> QED
        BY <1>2, <2>1, <2>2, <2>3 DEF Begin
<1>6. ASSUME NEW s \in Stores, BeginExport(o, s) PROVE Begin(o, "export", s, "snapshot", None)
    BY <1>6 DEF BeginExport
<1>7. ASSUME BeginImport(o)
      PROVE  /\ Begin(o, "import", "target", "count", file)
             /\ careful => fresh /\ \A p \in Tools : tool[p] # None => tool[p].op # "rollback"
    BY <1>7 DEF BeginImport
<1>8. ASSUME BeginRollback(o) PROVE careful => \A p \in Tools : tool[p] = None
    BY <1>8 DEF BeginRollback
<1>9. ASSUME NEW op, NEW s, NEW at, NEW bundle, NEW d, d = Blank(op, s, at, bundle), Begin(o, op, s, at, bundle)
      PROVE  /\ tool[o] = None /\ (careful => gateway = None)
             /\ d.op = op /\ d.at = at /\ d.bundle = bundle /\ d.i = 1 /\ d.late = NoRows
             /\ authority' = IF d.op = "rollback" THEN None ELSE authority
             /\ UNCHANGED <<rows, lastId, file, reported, gateway, fresh, accepted>>
    BY <1>9 DEF Begin
<1> HIDE DEF Blank
<1>10. CASE \E s \in Stores : BeginExport(o, s)
    <2>1. PICK s \in Stores : BeginExport(o, s)
        BY <1>10
    <2>2. PICK d : /\ d = Blank("export", s, "snapshot", None)
                   /\ tool' = [tool EXCEPT ![o] = d] /\ Stands(d) /\ d # None
        BY <1>3, <2>1
    <2>3. Begin(o, "export", s, "snapshot", None)
        BY <1>6, <2>1
    <2>4. /\ tool[o] = None /\ (careful => gateway = None)
          /\ d.op = "export" /\ d.at = "snapshot" /\ d.i = 1 /\ d.late = NoRows
          /\ authority' = IF d.op = "rollback" THEN None ELSE authority
          /\ UNCHANGED <<rows, lastId, file, reported, gateway, fresh, accepted>>
        BY <1>9, <2>2, <2>3
    <2> QED
        BY <2>2, <2>4
<1>11. CASE BeginImport(o)
    <2>1. PICK d : /\ d = Blank("import", "target", "count", file) /\ file \in reported
                   /\ tool' = [tool EXCEPT ![o] = d] /\ Stands(d) /\ d # None
        BY <1>4, <1>11
    <2>2. /\ tool[o] = None /\ (careful => gateway = None)
          /\ d.op = "import" /\ d.at = "count" /\ d.bundle = file /\ d.i = 1 /\ d.late = NoRows
          /\ authority' = IF d.op = "rollback" THEN None ELSE authority
          /\ UNCHANGED <<rows, lastId, file, reported, gateway, fresh, accepted>>
        BY <1>7, <1>9, <1>11, <2>1
    <2> QED
        BY <1>7, <1>11, <2>1, <2>2
<1>12. CASE BeginRollback(o)
    <2>0. PICK bundle \in reported : \E d :
              /\ d = Blank("rollback", "target", "snapshot", bundle)
              /\ Begin(o, "rollback", "target", "snapshot", bundle)
              /\ tool' = [tool EXCEPT ![o] = d] /\ Stands(d) /\ d # None
        BY <1>5, <1>12
    <2>1. PICK d :
              /\ d = Blank("rollback", "target", "snapshot", bundle)
              /\ Begin(o, "rollback", "target", "snapshot", bundle)
              /\ tool' = [tool EXCEPT ![o] = d] /\ Stands(d) /\ d # None
        BY <2>0
    <2>2. /\ tool[o] = None /\ (careful => gateway = None)
          /\ d.op = "rollback" /\ d.at = "snapshot" /\ d.bundle = bundle /\ d.i = 1 /\ d.late = NoRows
          /\ authority' = IF d.op = "rollback" THEN None ELSE authority
          /\ UNCHANGED <<rows, lastId, file, reported, gateway, fresh, accepted>>
        BY <1>9, <2>1
    <2> QED
        BY <1>8, <1>12, <2>1, <2>2
<1> QED
    BY <1>10, <1>11, <1>12 DEF Begins

\* A write of the gateway: every table of its store has one row more, or none.
Writes(w, id, new) ==
    /\ gateway \in Stores /\ w \in Nat /\ new \in Bundles /\ id \in Nat
    /\ \A t \in Names : new[t] = IF t = "audit_log" THEN {id} ELSE {w}
    /\ id = lastId[gateway] + 1 /\ lastId' = [lastId EXCEPT ![gateway] = id]
    /\ UNCHANGED <<file, reported, gateway, authority, fresh, runs>>
    /\ \/ UNCHANGED <<rows, accepted, tool>>
       \/ /\ rows' \in [Stores -> Bundles]
          /\ \A s \in Stores \ {gateway} : rows'[s] = rows[s]
          /\ \A t \in Names : rows'[gateway][t] = rows[gateway][t] \cup new[t]
          /\ accepted' = accepted \cup {w}
          /\ tool' \in [Tools -> Commands \cup {None}]
          /\ \A p \in Tools :
                 tool'[p] = IF tool[p] = None THEN None ELSE Noted(p, gateway, new)
          /\ \A p \in Tools : tool'[p] # None => Stands(tool'[p])

LEMMA Writing == ASSUME Shaped, Write PROVE \E w, id, new : Writes(w, id, new)
<1>1. PICK w : w = Cardinality(accepted) + 1
    OBVIOUS
<1>2. PICK id : id = lastId[gateway] + 1
    OBVIOUS
<1>3. PICK new : new = [t \in Names |-> {IF t = "audit_log" THEN id ELSE w}]
    OBVIOUS
<1>4. gateway \in Stores
    BY DEF Write, Shaped
<1>5. w \in Nat /\ id \in Nat
    <2>1. Cardinality(accepted) \in Nat
        BY FS_CardinalityType DEF Shaped, Keys
    <2> QED
        BY <1>1, <1>2, <1>4, <2>1 DEF Shaped
<1>6. \A t \in Names : new[t] = IF t = "audit_log" THEN {id} ELSE {w}
    BY <1>3
<1>7. new \in Bundles
    BY <1>3, <1>5, KeySets, BundlesAre
<1>8. /\ lastId' = [lastId EXCEPT ![gateway] = id]
      /\ UNCHANGED <<file, reported, gateway, authority, fresh, runs>>
    BY <1>2 DEF Write
<1>9. \/ UNCHANGED <<rows, accepted, tool>>
      \/ /\ rows' = [rows EXCEPT ![gateway] = [t \in Names |-> @[t] \cup new[t]]]
         /\ accepted' = accepted \cup {w}
         /\ tool' = [p \in Tools |-> Noted(p, gateway, new)]
    BY <1>1, <1>2, <1>3 DEF Write
<1>10. ASSUME rows' = [rows EXCEPT ![gateway] = [t \in Names |-> @[t] \cup new[t]]]
       PROVE  /\ rows' \in [Stores -> Bundles]
              /\ \A s \in Stores \ {gateway} : rows'[s] = rows[s]
              /\ \A t \in Names : rows'[gateway][t] = rows[gateway][t] \cup new[t]
    <2>1. PICK more : more = [t \in Names |-> rows[gateway][t] \cup new[t]]
        OBVIOUS
    <2>2. rows[gateway] \in [Names -> Keys] /\ new \in [Names -> Keys]
        BY <1>4, <1>7, BundlesAre DEF Shaped
    <2>3. more \in Bundles
        BY <2>1, <2>2, KeySets, BundlesAre
    <2>4. rows' = [rows EXCEPT ![gateway] = more]
        BY <1>10, <2>1
    <2> QED
        BY <1>4, <2>1, <2>3, <2>4 DEF Shaped
<1>11. ASSUME tool' = [p \in Tools |-> Noted(p, gateway, new)]
       PROVE  /\ tool' \in [Tools -> Commands \cup {None}]
              /\ \A p \in Tools :
                     tool'[p] = IF tool[p] = None THEN None ELSE Noted(p, gateway, new)
              /\ \A p \in Tools : tool'[p] # None => Stands(tool'[p])
    <2>1. \A p \in Tools : tool'[p] = IF tool[p] = None THEN None ELSE Noted(p, gateway, new)
        BY <1>11 DEF Noted
    <2>2. ASSUME NEW p \in Tools, tool'[p] # None PROVE Stands(tool'[p])
        BY <1>7, <2>1, <2>2, NotedIs
    <2> QED
        BY <1>11, <2>1, <2>2 DEF Stands
<1>12. \/ UNCHANGED <<rows, accepted, tool>>
       \/ /\ rows' \in [Stores -> Bundles]
          /\ \A s \in Stores \ {gateway} : rows'[s] = rows[s]
          /\ \A t \in Names : rows'[gateway][t] = rows[gateway][t] \cup new[t]
          /\ accepted' = accepted \cup {w}
          /\ tool' \in [Tools -> Commands \cup {None}]
          /\ \A p \in Tools :
                 tool'[p] = IF tool[p] = None THEN None ELSE Noted(p, gateway, new)
          /\ \A p \in Tools : tool'[p] # None => Stands(tool'[p])
    BY <1>9, <1>10, <1>11, Zenon
<1>13. Writes(w, id, new)
    BY <1>2, <1>4, <1>5, <1>6, <1>7, <1>8, <1>12 DEF Writes
<1> QED
    BY <1>13

----------------------------------------------------------------------------
(* The shape is kept                                                       *)

LEMMA ShapedKept == ASSUME Shaped, [Next]_vars PROVE Shaped'
<1>1. ASSUME NEW o \in Tools, NEW d, tool' = [tool EXCEPT ![o] = d], Stands(d),
             rows' \in [Stores -> Bundles], lastId' \in [Stores -> Nat], reported' \subseteq Bundles,
             gateway' \in Stores \cup {None}, authority' \in Stores \cup {None}, accepted' \in Keys
      PROVE  Shaped'
    BY <1>1, TurnKeeps DEF Shaped
<1>2. ASSUME NEW o \in Tools, NEW d, tool' = [tool EXCEPT ![o] = d], Stands(d), UNCHANGED rows, Plain
      PROVE  Shaped'
    BY <1>1, <1>2 DEF Shaped, Plain, gatewayVars
<1>3. ASSUME NEW o \in Tools, Begins(o) PROVE Shaped'
    <2>1. PICK d : /\ tool' = [tool EXCEPT ![o] = d] /\ Stands(d)
                   /\ authority' = IF d.op = "rollback" THEN None ELSE authority
                   /\ UNCHANGED <<rows, lastId, file, reported, gateway, fresh, accepted>>
        BY <1>3, Beginning
    <2> QED
        BY <1>1, <2>1 DEF Shaped
<1>4. ASSUME NEW o \in Tools, Opens(o) PROVE Shaped'
    <2>1. PICK d : tool' = [tool EXCEPT ![o] = d] /\ Stands(d)
        BY <1>4, Opening
    <2> QED
        BY <1>1, <1>4, <2>1 DEF Shaped, Opens, gatewayVars
<1>5. ASSUME NEW o \in Tools, Reads(o) \/ Counts(o) \/ Counted(o) \/ Inserts(o) \/ Compares(o) \/ Deletes(o)
      PROVE  Shaped'
    <2>1. UNCHANGED rows /\ Plain
        BY <1>5 DEF Reads, Counts, Counted, Inserts, Compares, Deletes
    <2>2. PICK d : tool' = [tool EXCEPT ![o] = d] /\ Stands(d)
        BY <1>5, Reading, Counting, CountedAll, Inserting, Comparing, Deleting
    <2> QED
        BY <1>2, <2>1, <2>2
<1>6. ASSUME NEW o \in Tools, AfterInsert(o) PROVE Shaped'
    <2>1. PICK d : tool' = [tool EXCEPT ![o] = d] /\ Stands(d) /\ lastId' \in [Stores -> Nat]
        BY <1>6, Inserted
    <2> QED
        BY <1>1, <1>6, <2>1 DEF Shaped, AfterInsert, gatewayVars
<1>7. ASSUME NEW o \in Tools, Abort(o),
             lastId' = lastId, reported' \subseteq Bundles, UNCHANGED <<gateway, authority, accepted>>
      PROVE  Shaped'
    BY <1>7 DEF Shaped, Abort
<1>8. ASSUME NEW o \in Tools, WriteBundle(o) PROVE Shaped'
    <2>1. tool[o].snap \in Bundles
        BY <1>8 DEF WriteBundle, Ready, Shaped, Commands
    <2> QED
        BY <1>7, <1>8, <2>1 DEF WriteBundle, Shaped
<1>9. ASSUME NEW o \in Tools, Crash(o) PROVE Shaped'
    BY <1>7, <1>9 DEF Crash, Plain, gatewayVars, Shaped
<1>10. ASSUME NEW o \in Tools, Imports(o) PROVE Shaped'
    <2>1. "target" \in Stores
        BY DEF Stores
    <2> QED
        BY <1>10, <2>1, ImportsCommit, Committing DEF Shaped, Imports
<1>11. ASSUME NEW o \in Tools, Empties(o) PROVE Shaped'
    BY <1>11, EmptiesCommit, Committing DEF Shaped, Empties, Plain, gatewayVars
<1>12. ASSUME Write PROVE Shaped'
    <2>1. PICK w, id, new : Writes(w, id, new)
        BY <1>12, Writing
    <2>2. accepted \cup {w} \in Keys
        BY <2>1, KeySets DEF Shaped, Writes
    <2> QED
        BY <2>1, <2>2 DEF Shaped, Writes
<1>13. ASSUME Stop \/ Start \/ Decide \/ MoveFile PROVE Shaped'
    BY <1>13 DEF Shaped, Stop, Start, Decide, MoveFile, gatewayVars
<1>14. ASSUME UNCHANGED vars PROVE Shaped'
    BY <1>14 DEF Shaped, vars
<1> QED
    BY <1>3, <1>4, <1>5, <1>6, <1>8, <1>9, <1>10, <1>11, <1>12, <1>13, <1>14, Cases DEF Next

----------------------------------------------------------------------------
(* A rollback deletes what it compared, and what came late                 *)

\* What the target has beyond the rows that were read, came since.
Notes(c, target) ==
    c.op = "rollback" =>
        /\ c.at = "snapshot" =>
               \A j \in 1 .. c.i - 1 : target[Tables[j]] \subseteq c.snap[Tables[j]] \cup c.late[Tables[j]]
        /\ c.at = "delete" =>
               \A t \in Names : target[t] \cup c.deleted[t] \subseteq c.bundle[t] \cup c.late[t]

LateNoted == \A o \in Tools : tool[o] # None => Notes(tool[o], rows["target"])

LEMMA NotesTurn ==
    ASSUME Shaped, LateNoted, NEW o \in Tools, NEW d, tool' = [tool EXCEPT ![o] = d],
           Notes(d, rows["target"]), UNCHANGED rows
    PROVE  LateNoted'
BY Turn DEF LateNoted

\* What is committed beside a rollback is noted.
LEMMA NotesGrow ==
    ASSUME Shaped, LateNoted, NEW p \in Tools, NEW new \in Bundles, tool[p] # None,
           tool'[p] = Noted(p, "target", new),
           \A t \in Names : rows'["target"][t] \subseteq rows["target"][t] \cup new[t]
    PROVE  Notes(tool'[p], rows'["target"])
<1>1. PICK c, d : c = tool[p] /\ d = tool'[p]
    OBVIOUS
<1>2. Stands(c) /\ Notes(c, rows["target"])
    BY <1>1 DEF Shaped, LateNoted
<1>3. /\ d.op = c.op /\ d.at = c.at /\ d.i = c.i /\ d.bundle = c.bundle
      /\ d.snap = c.snap /\ d.deleted = c.deleted
      /\ \A t \in Names : c.late[t] \subseteq d.late[t]
      /\ c.op = "rollback" /\ c.store = "target" => \A t \in Names : new[t] \subseteq d.late[t]
    BY <1>1, NotedIs
<1>4. SUFFICES ASSUME c.op = "rollback" PROVE Notes(d, rows'["target"])
    BY <1>1, <1>3 DEF Notes
<1>5. c.store = "target" /\ c.i <= Len(Tables) + 1 /\ c.i \in Nat
    BY <1>2, <1>4, TableLists DEF Stands, RollingBack, Commands
<1>6. ASSUME c.at = "snapshot", NEW j \in 1 .. c.i - 1
      PROVE  rows'["target"][Tables[j]] \subseteq d.snap[Tables[j]] \cup d.late[Tables[j]]
    <2>1. Tables[j] \in Names
        BY <1>5, TableLists
    <2>2. rows["target"][Tables[j]] \subseteq c.snap[Tables[j]] \cup c.late[Tables[j]]
        BY <1>2, <1>4, <1>6 DEF Notes
    <2> QED
        BY <1>3, <1>4, <1>5, <2>1, <2>2
<1>7. ASSUME c.at = "delete", NEW t \in Names
      PROVE  rows'["target"][t] \cup d.deleted[t] \subseteq d.bundle[t] \cup d.late[t]
    <2>1. rows["target"][t] \cup c.deleted[t] \subseteq c.bundle[t] \cup c.late[t]
        BY <1>2, <1>4, <1>7 DEF Notes
    <2> QED
        BY <1>3, <1>4, <1>5, <2>1
<1> QED
    BY <1>3, <1>4, <1>6, <1>7 DEF Notes

LEMMA LateKept == ASSUME Shaped, LateNoted, [Next]_vars PROVE LateNoted'
<1>1. ASSUME NEW o \in Tools, Begins(o) PROVE LateNoted'
    <2>1. PICK d : /\ tool' = [tool EXCEPT ![o] = d] /\ d.i = 1 /\ UNCHANGED rows
                   /\ d.op # "import" => d.at = "snapshot"
        BY <1>1, Beginning
    <2>2. Notes(d, rows["target"])
        BY <2>1 DEF Notes
    <2> QED
        BY <2>1, <2>2, NotesTurn
<1>2. ASSUME NEW o \in Tools, Reads(o) PROVE LateNoted'
    <2>1. PICK c : c = tool[o] /\ c # None /\ Stands(c) /\ Notes(c, rows["target"]) /\ c.at = "snapshot"
        BY <1>2 DEF Reads, Snapshot, Ready, Shaped, LateNoted
    <2>2. PICK d : /\ tool' = [tool EXCEPT ![o] = d] /\ Stands(d)
                   /\ d.op = c.op /\ d.at = c.at /\ d.late = c.late
                   /\ \A j \in 1 .. d.i - 1 :
                          \/ d.snap[Tables[j]] = Sees(o, Tables[j])
                          \/ j \in 1 .. c.i - 1 /\ d.snap[Tables[j]] = c.snap[Tables[j]]
        BY <1>2, <2>1, Reading
    <2>3. ASSUME c.op = "rollback", NEW j \in 1 .. d.i - 1
          PROVE  rows["target"][Tables[j]] \subseteq d.snap[Tables[j]] \cup d.late[Tables[j]]
        <3>1. c.added = NoRows /\ c.deleted = NoRows /\ c.store = "target"
            BY <2>1, <2>3 DEF Stands, RollingBack
        <3>2. j \in 1 .. Len(Tables)
            BY <2>2, TableLists DEF Stands, Commands
        <3>3. Tables[j] \in Names
            BY <3>2, TableLists
        <3>4. Sees(o, Tables[j]) = rows["target"][Tables[j]]
            BY <2>1, <3>1, <3>3, NoRowsAre DEF Sees
        <3> QED
            BY <2>1, <2>2, <2>3, <3>4 DEF Notes
    <2>4. Notes(d, rows["target"])
        BY <2>1, <2>2, <2>3 DEF Notes
    <2> QED
        BY <1>2, <2>2, <2>4, NotesTurn DEF Reads
<1>3. ASSUME NEW o \in Tools, Opens(o) \/ Counts(o) \/ Counted(o) \/ Inserts(o) \/ AfterInsert(o)
      PROVE  LateNoted'
    <2>1. PICK d : tool' = [tool EXCEPT ![o] = d] /\ d.op # "rollback"
        BY <1>3, Opening, Counting, CountedAll, Inserting, Inserted
    <2>2. Notes(d, rows["target"])
        BY <2>1 DEF Notes
    <2> QED
        BY <1>3, <2>1, <2>2, NotesTurn DEF Opens, Counts, Counted, Inserts, AfterInsert
<1>4. ASSUME NEW o \in Tools, Compares(o) PROVE LateNoted'
    <2>1. PICK c : c = tool[o] /\ c # None /\ Stands(c) /\ Notes(c, rows["target"])
        BY <1>4 DEF Compares, Ready, Shaped, LateNoted
    <2>2. PICK d : /\ tool' = [tool EXCEPT ![o] = d] /\ Stands(d)
                   /\ c.op = "rollback" /\ c.at = "snapshot" /\ c.i = Len(Tables) + 1
                   /\ c.snap = c.bundle
                   /\ d.op = "rollback" /\ d.at = "delete" /\ d.bundle = c.bundle
                   /\ d.deleted = NoRows /\ d.late = c.late
        BY <1>4, <2>1, Comparing
    <2>3. ASSUME NEW t \in Names
          PROVE  rows["target"][t] \cup d.deleted[t] \subseteq d.bundle[t] \cup d.late[t]
        <3>1. PICK j \in 1 .. Len(Tables) : t = Tables[j]
            BY TableLists
        <3>2. j \in 1 .. c.i - 1
            BY <2>2, TableLists
        <3>3. rows["target"][t] \subseteq c.snap[t] \cup c.late[t]
            BY <2>1, <2>2, <3>1, <3>2 DEF Notes
        <3> QED
            BY <2>2, <3>3, NoRowsAre
    <2>4. Notes(d, rows["target"])
        BY <2>2, <2>3 DEF Notes
    <2> QED
        BY <1>4, <2>2, <2>4, NotesTurn DEF Compares
<1>5. ASSUME NEW o \in Tools, Deletes(o) PROVE LateNoted'
    <2>1. PICK c : c = tool[o] /\ c # None /\ Stands(c) /\ Notes(c, rows["target"])
        BY <1>5 DEF Deletes, DeleteTable, Ready, Shaped, LateNoted
    <2> DEFINE t == Tables[c.i]
    <2>2. PICK d : /\ tool' = [tool EXCEPT ![o] = d]
                   /\ c.op = "rollback" /\ c.at = "delete" /\ d.op = "rollback" /\ d.at = "delete"
                   /\ d.bundle = c.bundle /\ d.late = c.late
                   /\ d.deleted[t] = rows["target"][t] \ c.deleted[t]
                   /\ \A u \in Names : u # t => d.deleted[u] = c.deleted[u]
        BY <1>5, <2>1, Deleting
    <2> HIDE DEF t
    <2>3. ASSUME NEW u \in Names
          PROVE  rows["target"][u] \cup d.deleted[u] \subseteq d.bundle[u] \cup d.late[u]
        <3>1. rows["target"][u] \cup c.deleted[u] \subseteq c.bundle[u] \cup c.late[u]
            BY <2>1, <2>2 DEF Notes
        <3> QED
            BY <2>2, <3>1
    <2>4. Notes(d, rows["target"])
        BY <2>2, <2>3 DEF Notes
    <2> QED
        BY <1>5, <2>2, <2>4, NotesTurn DEF Deletes
<1>6. ASSUME NEW o \in Tools, Abort(o) PROVE LateNoted'
    BY <1>6 DEF LateNoted, Abort, Shaped
<1>7. ASSUME NEW o \in Tools, tool[o] # None, tool[o].op \in {"import", "rollback"}, Commit(o)
      PROVE  LateNoted'
    <2>1. PICK c : c = tool[o]
        OBVIOUS
    <2>2. /\ c.added \in Bundles /\ tool'[o] = None
          /\ \A p \in Tools \ {o} :
                 tool'[p] = IF tool[p] = None THEN None ELSE Noted(p, "target", c.added)
          /\ \A t \in Names :
                 rows'["target"][t] = (rows["target"][t] \ c.deleted[t]) \cup c.added[t]
        BY <1>7, <2>1, Committing
    <2>3. \A t \in Names : rows'["target"][t] \subseteq rows["target"][t] \cup c.added[t]
        BY <2>2
    <2>4. ASSUME NEW p \in Tools, tool'[p] # None PROVE Notes(tool'[p], rows'["target"])
        <3>1. tool[p] # None /\ tool'[p] = Noted(p, "target", c.added)
            BY <2>2, <2>4
        <3> QED
            BY <2>2, <2>3, <3>1, NotesGrow
    <2> QED
        BY <2>4 DEF LateNoted
<1>8. ASSUME Write PROVE LateNoted'
    <2>1. PICK w, id, new : Writes(w, id, new)
        BY <1>8, Writing
    <2>2. CASE UNCHANGED <<rows, accepted, tool>>
        BY <2>2 DEF LateNoted
    <2>3. CASE ~ UNCHANGED <<rows, accepted, tool>>
        <3>1. /\ \A s \in Stores \ {gateway} : rows'[s] = rows[s]
              /\ \A t \in Names : rows'[gateway][t] = rows[gateway][t] \cup new[t]
              /\ \A p \in Tools :
                     tool'[p] = IF tool[p] = None THEN None ELSE Noted(p, gateway, new)
              /\ new \in Bundles
            BY <2>1, <2>3 DEF Writes
        <3>2. CASE gateway = "target"
            <4>1. \A t \in Names : rows'["target"][t] \subseteq rows["target"][t] \cup new[t]
                BY <3>1, <3>2
            <4>2. ASSUME NEW p \in Tools, tool'[p] # None PROVE Notes(tool'[p], rows'["target"])
                <5>1. tool[p] # None /\ tool'[p] = Noted(p, "target", new)
                    BY <3>1, <3>2, <4>2
                <5> QED
                    BY <3>1, <4>1, <5>1, NotesGrow
            <4> QED
                BY <4>2 DEF LateNoted
        <3>3. CASE gateway # "target"
            <4>1. rows'["target"] = rows["target"]
                BY <3>1, <3>3 DEF Stores
            <4>2. ASSUME NEW p \in Tools, tool'[p] # None PROVE Notes(tool'[p], rows'["target"])
                <5>1. tool[p] # None /\ tool'[p] = Noted(p, gateway, new) /\ Stands(tool[p])
                    BY <3>1, <4>2 DEF Shaped
                <5>2. tool[p].op = "rollback" => tool[p].store # gateway
                    BY <3>3, <5>1 DEF Stands, RollingBack
                <5>3. tool[p].op = "rollback" => tool'[p] = tool[p]
                    BY <5>1, <5>2 DEF Noted
                <5>4. tool'[p].op = tool[p].op
                    BY <3>1, <5>1, NotedIs
                <5> QED
                    BY <4>1, <5>1, <5>3, <5>4 DEF LateNoted, Notes
            <4> QED
                BY <4>2 DEF LateNoted
        <3> QED
            BY <3>2, <3>3
    <2> QED
        BY <2>2, <2>3
<1>9. ASSUME UNCHANGED <<rows, tool>> PROVE LateNoted'
    BY <1>9 DEF LateNoted
<1>10. ASSUME NEW o \in Tools, WriteBundle(o) \/ Crash(o) PROVE LateNoted'
    BY <1>6, <1>10 DEF WriteBundle, Crash
<1>11. ASSUME NEW o \in Tools, Imports(o) \/ Empties(o) PROVE LateNoted'
    BY <1>7, <1>11, ImportsCommit, EmptiesCommit
<1>12. ASSUME Stop \/ Start \/ Decide \/ MoveFile PROVE LateNoted'
    BY <1>9, <1>12 DEF Stop, Start, Decide, MoveFile
<1> QED
    BY <1>1, <1>2, <1>3, <1>4, <1>5, <1>8, <1>9, <1>10, <1>11, <1>12, Cases DEF Next, vars

LEMMA ShapedHolds == Spec => []Shaped
<1>1. Init => Shaped
    <2>1. NoRows \in Bundles /\ {} \in Keys /\ "source" \in Stores
        BY NoRowsAre, KeySets DEF Stores
    <2> QED
        BY <2>1 DEF Init, Shaped
<1> QED
    BY <1>1, ShapedKept, PTL DEF Spec

LEMMA LateHolds == Spec => []LateNoted
<1>1. Init => LateNoted
    BY DEF Init, LateNoted
<1> QED
    BY <1>1, ShapedHolds, LateKept, PTL DEF Spec

\* What a step of a command makes of the committed rows.
LEMMA RowsChange ==
    ASSUME Shaped, [Next]_vars, rows' # rows
    PROVE  Write \/ \E o \in Tools : Imports(o) \/ Empties(o)
<1>1. ASSUME NEW o \in Tools, Command(o) PROVE Imports(o) \/ Empties(o)
    <2>1. ASSUME Begins(o) PROVE rows' = rows
        BY <2>1, Beginning
    <2> QED
        BY <1>1, <2>1, Cases
        DEF Reads, Opens, WriteBundle, Abort, Counts, Counted, Inserts, AfterInsert, Compares,
            Deletes, Crash
<1>2. (\E o \in Tools : Command(o)) \/ Write
    BY DEF Next, vars, Stop, Start, Decide, MoveFile
<1> QED
    BY <1>1, <1>2

LEMMA RollbackStep ==
    ASSUME Shaped, LateNoted, [Next]_vars,
           NEW o \in Tools, Ready(o, "delete"), rows' # rows, tool'[o] = None, NEW t \in Names
    PROVE  rows["target"][t] \ rows'["target"][t] \subseteq tool[o].bundle[t] \cup tool[o].late[t]
<1>1. tool[o] # None /\ tool[o].at = "delete" /\ Stands(tool[o]) /\ Notes(tool[o], rows["target"])
    BY DEF Ready, Shaped, LateNoted
<1>2. tool[o].op = "rollback"
    BY <1>1 DEF Stands, Commands, Exporting, Importing
<1>3. tool[o].deleted[t] \subseteq tool[o].bundle[t] \cup tool[o].late[t]
    BY <1>1, <1>2 DEF Notes
<1>4. ASSUME Empties(o) PROVE rows["target"][t] \ rows'["target"][t] \subseteq tool[o].deleted[t]
    <2>1. rows'["target"][t] = rows["target"][t] \ tool[o].deleted[t]
        BY <1>4, EmptiesCommit
    <2> QED
        BY <2>1
<1>5. ASSUME NEW p \in Tools, Empties(p), p # o PROVE FALSE
    <2>1. /\ tool'[o] = Noted(o, "target", tool[p].added) /\ tool[p].added \in Bundles
        BY <1>1, <1>5, EmptiesCommit, Committing
    <2> QED
        BY <1>1, <2>1, NotedIs
<1>6. ASSUME NEW p \in Tools, Imports(p) PROVE rows["target"][t] \subseteq rows'["target"][t]
    BY <1>6, ImportsCommit
<1>7. ASSUME Write PROVE rows["target"][t] \subseteq rows'["target"][t]
    <2>1. PICK w, id, new : Writes(w, id, new)
        BY <1>7, Writing
    <2> QED
        BY <2>1 DEF Writes, Stores
<1> QED
    BY <1>3, <1>4, <1>5, <1>6, <1>7, RowsChange

\* Whoever writes, imports and rolls back meanwhile: what a rollback deletes was
\* in the state of its digest, or was committed after it began.
THEOREM RollbackLosesOnlyLateHolds == Spec => RollbackLosesOnlyLate
<1>1. ASSUME Shaped, LateNoted, [Next]_vars
      PROVE  [\A o \in Tools : (Ready(o, "delete") /\ rows' # rows /\ tool'[o] = None) =>
                 \A t \in Names : rows["target"][t] \ rows'["target"][t] \subseteq
                     tool[o].bundle[t] \cup tool[o].late[t]]_vars
    BY <1>1, RollbackStep
<1> QED
    BY <1>1, ShapedHolds, LateHolds, PTL DEF Spec, RollbackLosesOnlyLate

----------------------------------------------------------------------------
(* The file                                                                *)

\* Imports at the same time import the file, a whole bundle; one export at most
\* writes it.
FileHeld ==
    /\ \A o \in Tools : tool[o] # None =>
           /\ tool[o].op = "import" => file \in reported /\ tool[o].bundle = file
           /\ tool[o].op = "rollback" => tool[o].bundle \in reported
           /\ tool[o].at = "write" => file = Torn
    /\ \A o, p \in Tools :
           (tool[o] # None /\ tool[p] # None /\ tool[o].at = "write" /\ tool[p].at = "write") => o = p

LEMMA NoBundle == Torn \notin Bundles /\ None \notin Bundles /\ Torn # None
<1>1. "audit_log" \in Names
    BY TableLists
<1>2. DOMAIN Torn = {}
    BY DEF Torn
<1>3. ASSUME Torn \in Bundles PROVE FALSE
    <2>1. DOMAIN Torn = Names
        BY <1>3 DEF Bundles
    <2> QED
        BY <1>1, <1>2, <2>1
<1> QED
    BY <1>3, NoneAssumption

\* What goes on in p goes on with the same bundle, and begins no writing.
GoesOn(p) ==
    tool'[p] # None =>
        /\ tool[p] # None /\ tool'[p].op = tool[p].op /\ tool'[p].bundle = tool[p].bundle
        /\ tool'[p].at = "write" => tool[p].at = "write"

LEMMA GoingOn ==
    ASSUME Shaped, [Next]_vars
    PROVE  \/ \E o \in Tools : Begins(o) \/ Opens(o) \/ WriteBundle(o)
           \/ MoveFile
           \/ UNCHANGED <<file, reported>> /\ \A p \in Tools : GoesOn(p)
<1>1. ASSUME NEW o \in Tools, NEW c, NEW d, c = tool[o], c # None, tool' = [tool EXCEPT ![o] = d],
             d.op = c.op, d.bundle = c.bundle, d.at # "write"
      PROVE  \A p \in Tools : GoesOn(p)
    BY <1>1, Turn DEF GoesOn
<1>2. ASSUME NEW o \in Tools, Reads(o) PROVE \A p \in Tools : GoesOn(p)
    <2>1. tool[o] # None /\ tool[o].at = "snapshot"
        BY <1>2 DEF Reads, Snapshot, Ready
    <2>2. PICK d : /\ tool' = [tool EXCEPT ![o] = d]
                   /\ d.op = tool[o].op /\ d.at = tool[o].at /\ d.bundle = tool[o].bundle
        BY <1>2, Reading
    <2> QED
        BY <1>1, <2>1, <2>2
<1>3. ASSUME NEW o \in Tools, Counts(o) \/ Counted(o) \/ AfterInsert(o) PROVE \A p \in Tools : GoesOn(p)
    <2>1. tool[o] # None
        BY <1>3 DEF Counts, Counted, AfterInsert, Ready
    <2>2. PICK d : /\ tool' = [tool EXCEPT ![o] = d]
                   /\ d.op = tool[o].op /\ d.at # "write" /\ d.bundle = tool[o].bundle
        BY <1>3, Counting, CountedAll, Inserted
    <2> QED
        BY <1>1, <2>1, <2>2
<1>4. ASSUME NEW o \in Tools, Inserts(o) \/ Compares(o) \/ Deletes(o) PROVE \A p \in Tools : GoesOn(p)
    <2>1. tool[o] # None
        BY <1>4 DEF Inserts, Compares, Deletes, DeleteTable, Ready
    <2>2. PICK d : /\ tool' = [tool EXCEPT ![o] = d]
                   /\ d.op = tool[o].op /\ d.at # "write" /\ d.bundle = tool[o].bundle
        BY <1>4, Inserting, Comparing, Deleting
    <2> QED
        BY <1>1, <2>1, <2>2
<1>5. ASSUME NEW o \in Tools, Imports(o) \/ Empties(o) PROVE \A p \in Tools : GoesOn(p)
    <2>1. tool[o] # None /\ tool[o].op \in {"import", "rollback"} /\ Commit(o)
        BY <1>5, ImportsCommit, EmptiesCommit
    <2>2. /\ tool[o].added \in Bundles /\ tool'[o] = None
          /\ \A p \in Tools \ {o} :
                 tool'[p] = IF tool[p] = None THEN None ELSE Noted(p, "target", tool[o].added)
        BY <2>1, Committing
    <2> QED
        BY <2>2, NotedIs DEF GoesOn
<1>6. ASSUME Write PROVE \A p \in Tools : GoesOn(p)
    <2>1. PICK w, id, new : Writes(w, id, new)
        BY <1>6, Writing
    <2>2. CASE UNCHANGED <<rows, accepted, tool>>
        BY <2>2 DEF GoesOn
    <2>3. CASE ~ UNCHANGED <<rows, accepted, tool>>
        <3>1. /\ new \in Bundles
              /\ \A p \in Tools : tool'[p] = IF tool[p] = None THEN None ELSE Noted(p, gateway, new)
            BY <2>1, <2>3 DEF Writes
        <3> QED
            BY <3>1, NotedIs DEF GoesOn
    <2> QED
        BY <2>2, <2>3
<1>7. ASSUME NEW o \in Tools, Crash(o) PROVE \A p \in Tools : GoesOn(p)
    BY <1>7 DEF Crash, Abort, Shaped, GoesOn
<1>8. ASSUME UNCHANGED tool PROVE \A p \in Tools : GoesOn(p)
    BY <1>8 DEF GoesOn
<1>9. ASSUME NEW o \in Tools, Reads(o) \/ Counts(o) \/ Counted(o) \/ Inserts(o) \/ AfterInsert(o)
             \/ Imports(o) \/ Compares(o) \/ Deletes(o) \/ Empties(o) \/ Crash(o)
      PROVE  UNCHANGED <<file, reported>>
    BY <1>9
    DEF Reads, Counts, Counted, Inserts, AfterInsert, Imports, Compares, Deletes, Empties, Crash, Plain
<1>10. ASSUME Write \/ Stop \/ Start \/ Decide \/ UNCHANGED vars PROVE UNCHANGED <<file, reported>>
    BY <1>10 DEF Write, Stop, Start, Decide, vars
<1>11. ASSUME Stop \/ Start \/ Decide \/ UNCHANGED vars PROVE UNCHANGED tool
    BY <1>11 DEF Stop, Start, Decide, vars
<1>12. ASSUME NEW o \in Tools, Command(o)
       PROVE  \/ Begins(o) \/ Opens(o) \/ WriteBundle(o)
              \/ UNCHANGED <<file, reported>> /\ \A p \in Tools : GoesOn(p)
    <2>1. \/ Begins(o) \/ Opens(o) \/ WriteBundle(o)
          \/ \/ Reads(o) \/ Counts(o) \/ Counted(o) \/ Inserts(o) \/ AfterInsert(o)
             \/ Imports(o) \/ Compares(o) \/ Deletes(o) \/ Empties(o) \/ Crash(o)
        BY <1>12, Cases
    <2> QED
        BY <1>2, <1>3, <1>4, <1>5, <1>7, <1>9, <2>1
<1>13. \/ \E o \in Tools : Command(o)
       \/ Write \/ Stop \/ Start \/ Decide \/ MoveFile \/ UNCHANGED vars
    BY DEF Next
<1> QED
    BY <1>6, <1>8, <1>10, <1>11, <1>12, <1>13

LEMMA FileKept == ASSUME Shaped, FileHeld, [Next]_vars PROVE FileHeld'
<1>1. None \notin reported /\ Torn \notin reported /\ Torn # None
    BY NoBundle DEF Shaped
<1>2. ASSUME NEW o \in Tools, Begins(o) PROVE FileHeld'
    <2>1. PICK d : /\ tool' = [tool EXCEPT ![o] = d] /\ UNCHANGED <<file, reported>>
                   /\ d.op # "import" => d.at = "snapshot"
                   /\ d.op = "import" => d.at = "count" /\ file \in reported /\ d.bundle = file
                   /\ d.op = "rollback" => d.bundle \in reported
        BY <1>2, Beginning
    <2>2. d.at # "write"
        BY <2>1
    <2> QED
        BY <2>1, <2>2, Turn DEF FileHeld
<1>3. ASSUME NEW o \in Tools, Opens(o) PROVE FileHeld'
    <2>1. PICK d : tool' = [tool EXCEPT ![o] = d] /\ d.op = "export" /\ d.at = "write"
        BY <1>3, Opening
    <2>2. file = None /\ file' = Torn /\ reported' = reported
        BY <1>3 DEF Opens
    <2>3. \A p \in Tools : tool[p] # None => tool[p].op # "import" /\ tool[p].at # "write"
        BY <1>1, <2>2 DEF FileHeld
    <2> QED
        BY <2>1, <2>2, <2>3, Turn DEF FileHeld
<1>4. ASSUME NEW o \in Tools, WriteBundle(o) PROVE FileHeld'
    <2>1. tool[o] # None /\ tool[o].at = "write" /\ Abort(o) /\ reported \subseteq reported'
        BY <1>4 DEF WriteBundle, Ready
    <2>2. \A p \in Tools : tool[p] # None => tool[p].op # "import" /\ (tool[p].at = "write" => p = o)
        BY <1>1, <2>1 DEF FileHeld
    <2>3. tool'[o] = None /\ \A p \in Tools \ {o} : tool'[p] = tool[p]
        BY <2>1 DEF Abort, Shaped
    <2> QED
        BY <2>1, <2>2, <2>3 DEF FileHeld
<1>5. ASSUME MoveFile PROVE FileHeld'
    BY <1>5 DEF MoveFile, FileHeld
<1>6. ASSUME UNCHANGED <<file, reported>>, \A p \in Tools : GoesOn(p) PROVE FileHeld'
    <2>1. ASSUME NEW p \in Tools, tool'[p] # None
          PROVE  /\ tool'[p].op = "import" => file \in reported /\ tool'[p].bundle = file
                 /\ tool'[p].op = "rollback" => tool'[p].bundle \in reported
                 /\ tool'[p].at = "write" => file = Torn
        BY <1>6, <2>1 DEF FileHeld, GoesOn
    <2>2. ASSUME NEW p \in Tools, NEW q \in Tools, tool'[p] # None, tool'[q] # None,
                 tool'[p].at = "write", tool'[q].at = "write"
          PROVE  p = q
        <3>1. tool[p] # None /\ tool[q] # None /\ tool[p].at = "write" /\ tool[q].at = "write"
            BY <1>6, <2>2 DEF GoesOn
        <3> QED
            BY <3>1 DEF FileHeld
    <2> QED
        BY <1>6, <2>1, <2>2 DEF FileHeld
<1> QED
    BY <1>2, <1>3, <1>4, <1>5, <1>6, GoingOn

----------------------------------------------------------------------------
(* With the gateway stopped as documented                                  *)

\* Commands run while no gateway does, a rollback beside exports only; imports
\* run on a fresh bundle, and only a gateway on the authority runs.
Quiet ==
    careful =>
        /\ \A o \in Tools : tool[o] # None =>
               /\ gateway = None
               /\ tool[o].op = "import" => fresh
               /\ tool[o].op = "rollback" => authority = None
        /\ \A o, p \in Tools :
               (tool[o] # None /\ tool[p] # None /\ o # p /\ tool[o].op = "rollback") => tool[p].op = "export"
        /\ fresh => gateway = None
        /\ gateway # None => gateway = authority

LEMMA CarefulStays == ASSUME [Next]_vars PROVE careful' = careful
BY DEF Next, vars

\* Beside a running gateway there is no command to take note.
LEMMA NobodyNotes ==
    ASSUME Shaped, Quiet, careful, Write
    PROVE  /\ \A p \in Tools : tool[p] = None /\ tool'[p] = None
           /\ gateway = authority /\ ~ fresh
<1>1. gateway \in Stores /\ gateway # None
    BY NoneAssumption DEF Write, Shaped
<1>2. \A p \in Tools : tool[p] = None
    BY <1>1 DEF Quiet
<1>3. PICK w, id, new : Writes(w, id, new)
    BY Writing
<1>4. \A p \in Tools : tool'[p] = None
    BY <1>2, <1>3 DEF Writes
<1> QED
    BY <1>1, <1>2, <1>4 DEF Quiet

LEMMA QuietKept == ASSUME Shaped, FileHeld, Quiet, [Next]_vars PROVE Quiet'
<1>0. SUFFICES ASSUME careful, careful' PROVE Quiet'
    BY CarefulStays DEF Quiet
<1>1. ASSUME \A p \in Tools : GoesOn(p), UNCHANGED <<gateway, authority, fresh>> PROVE Quiet'
    <2>1. ASSUME NEW p \in Tools, tool'[p] # None PROVE tool[p] # None /\ tool'[p].op = tool[p].op
        BY <1>1, <2>1 DEF GoesOn
    <2> QED
        BY <1>0, <1>1, <2>1 DEF Quiet
<1>2. ASSUME NEW o \in Tools, Begins(o) PROVE Quiet'
    <2>1. PICK d : /\ tool' = [tool EXCEPT ![o] = d] /\ gateway = None /\ UNCHANGED <<gateway, fresh>>
                   /\ d.op = "import" => fresh /\ \A p \in Tools : tool[p] # None => tool[p].op # "rollback"
                   /\ d.op = "rollback" => \A p \in Tools : tool[p] = None
                   /\ authority' = IF d.op = "rollback" THEN None ELSE authority
                   /\ Stands(d)
        BY <1>0, <1>2, Beginning
    <2>2. d.op \in {"export", "import", "rollback"}
        BY <2>1 DEF Stands, Commands
    <2>3. tool'[o] = d /\ \A p \in Tools \ {o} : tool'[p] = tool[p]
        BY <2>1, Turn
    <2>4. ASSUME NEW p \in Tools, tool'[p] # None
          PROVE  /\ tool'[p].op = "import" => fresh
                 /\ tool'[p].op = "rollback" => authority' = None
        BY <1>0, <2>1, <2>2, <2>3, <2>4 DEF Quiet
    <2>5. ASSUME NEW p \in Tools, NEW q \in Tools, tool'[p] # None, tool'[q] # None, p # q,
                 tool'[p].op = "rollback"
          PROVE  tool'[q].op = "export"
        BY <1>0, <2>1, <2>2, <2>3, <2>5 DEF Quiet, Shaped, Stands, Commands
    <2> QED
        BY <2>1, <2>4, <2>5 DEF Quiet
<1>3. ASSUME NEW o \in Tools, Opens(o) PROVE Quiet'
    <2>1. PICK d : tool' = [tool EXCEPT ![o] = d] /\ d.op = "export"
        BY <1>3, Opening
    <2>2. tool'[o] = d /\ \A p \in Tools \ {o} : tool'[p] = tool[p]
        BY <2>1, Turn
    <2>3. tool[o] # None /\ tool[o].op = "export" /\ UNCHANGED <<gateway, authority, fresh>>
        BY <1>3 DEF Opens, Ready, gatewayVars
    <2> QED
        BY <1>0, <2>1, <2>2, <2>3 DEF Quiet
<1>4. ASSUME NEW o \in Tools, WriteBundle(o) PROVE Quiet'
    <2>1. /\ tool[o] # None /\ tool[o].at = "write" /\ Abort(o) /\ UNCHANGED <<gateway, authority>>
          /\ fresh' = (gateway = None /\ tool[o].store = authority)
        BY <1>4 DEF WriteBundle, Ready
    <2>2. \A p \in Tools : tool[p] # None => tool[p].op # "import"
        BY <2>1, NoBundle DEF FileHeld, Shaped
    <2>3. tool'[o] = None /\ \A p \in Tools \ {o} : tool'[p] = tool[p]
        BY <2>1 DEF Abort, Shaped
    <2> QED
        BY <1>0, <2>1, <2>2, <2>3 DEF Quiet
<1>5. ASSUME NEW o \in Tools, Command(o), ~ Begins(o), ~ Opens(o), ~ WriteBundle(o),
             \A p \in Tools : GoesOn(p)
      PROVE  Quiet'
    <2>1. \/ Reads(o) \/ Counts(o) \/ Counted(o) \/ Inserts(o) \/ AfterInsert(o)
          \/ Compares(o) \/ Deletes(o) \/ Empties(o) \/ Crash(o)
          \/ Imports(o)
        BY <1>5, Cases
    <2>2. CASE ~ Imports(o)
        <3>1. UNCHANGED <<gateway, authority, fresh>>
            BY <2>1, <2>2
            DEF Reads, Counts, Counted, Inserts, AfterInsert, Compares, Deletes, Empties, Crash, Plain,
                gatewayVars
        <3> QED
            BY <1>1, <1>5, <3>1
    <2>3. CASE Imports(o)
        <3>1. UNCHANGED <<gateway, fresh>> /\ tool[o] # None /\ tool[o].op = "import"
            BY <2>3, ImportsCommit DEF Imports
        <3>2. ASSUME NEW p \in Tools, tool'[p] # None PROVE tool[p] # None /\ tool'[p].op = tool[p].op
            BY <1>5, <3>2 DEF GoesOn
        <3>3. gateway = None /\ \A p \in Tools : tool[p] # None => tool[p].op # "rollback"
            BY <1>0, <3>1 DEF Quiet
        <3> QED
            BY <1>0, <3>1, <3>2, <3>3 DEF Quiet
    <2> QED
        BY <2>2, <2>3
<1>6. ASSUME Write \/ UNCHANGED vars, \A p \in Tools : GoesOn(p) PROVE Quiet'
    BY <1>1, <1>6 DEF Write, vars
<1>7. ASSUME Stop PROVE Quiet'
    BY <1>0, <1>7 DEF Quiet, Stop
<1>8. ASSUME Start PROVE Quiet'
    BY <1>0, <1>8 DEF Quiet, Start
<1>9. ASSUME Decide PROVE Quiet'
    BY <1>0, <1>9 DEF Quiet, Decide
<1>10. ASSUME MoveFile PROVE Quiet'
    BY <1>0, <1>10 DEF Quiet, MoveFile, gatewayVars
<1>11. ASSUME \A p \in Tools : GoesOn(p) PROVE Quiet'
    <2>1. \/ \E o \in Tools : Command(o)
          \/ Write \/ Stop \/ Start \/ Decide \/ MoveFile \/ UNCHANGED vars
        BY DEF Next
    <2> QED
        BY <1>2, <1>3, <1>4, <1>5, <1>6, <1>7, <1>8, <1>9, <1>10, <1>11, <2>1
<1> QED
    BY <1>2, <1>3, <1>4, <1>10, <1>11, GoingOn

----------------------------------------------------------------------------
(* An import or a rollback, while only exports run beside a rollback       *)

\* What the target holds of what a command read or compared, inserts or deletes.
Holds(c, target) ==
    /\ c.op = "import" =>
           /\ c.at = "count" =>
                  target = c.bundle \/ \A j \in 1 .. c.i - 1 : target[Tables[j]] = {}
           /\ c.at \in {"insert", "snapshot"} =>
                  /\ target \in {NoRows, c.bundle}
                  /\ \A t \in Names : target[t] \cap c.added[t] = {}
    /\ c.op = "rollback" =>
           /\ c.at = "snapshot" => \A j \in 1 .. c.i - 1 : c.snap[Tables[j]] = target[Tables[j]]
           /\ c.at = "delete" =>
                  /\ target = c.bundle
                  /\ \A j \in 1 .. Len(Tables) :
                         c.deleted[Tables[j]] = IF j < c.i THEN target[Tables[j]] ELSE {}

\* No two imports inserted the same row.
Apart(c, d) ==
    (c.op = "import" /\ d.op = "import") => \A t \in Names : c.added[t] \cap d.added[t] = {}

Held ==
    careful =>
        /\ \A o \in Tools : tool[o] # None => Holds(tool[o], rows["target"])
        /\ \A o, p \in Tools : (tool[o] # None /\ tool[p] # None /\ o # p) => Apart(tool[o], tool[p])

LEMMA SameRows ==
    ASSUME NEW r \in Bundles, NEW s \in Bundles, \A t \in Names : r[t] = s[t]
    PROVE  r = s
BY BundlesAre

LEMMA HeldTurn ==
    ASSUME Shaped, Held, careful, careful', NEW o \in Tools, NEW d, tool' = [tool EXCEPT ![o] = d],
           Holds(d, rows["target"]), UNCHANGED rows,
           \A p \in Tools : (tool[p] # None /\ p # o) => Apart(d, tool[p])
    PROVE  Held'
<1>1. tool'[o] = d /\ \A p \in Tools \ {o} : tool'[p] = tool[p]
    BY Turn
<1>2. \A c, e : Apart(c, e) <=> Apart(e, c)
    BY DEF Apart
<1> QED
    BY <1>1, <1>2 DEF Held

\* A command whose insertions a step leaves alone stays apart from the others.
LEMMA StaysApart ==
    ASSUME Shaped, Held, careful, NEW o \in Tools, tool[o] # None, NEW d,
           d.op = tool[o].op, d.op = "import" => d.added = tool[o].added
    PROVE  \A p \in Tools : (tool[p] # None /\ p # o) => Apart(d, tool[p])
BY DEF Held, Apart

LEMMA HeldReads == ASSUME Shaped, Held, careful, careful', NEW o \in Tools, Reads(o) PROVE Held'
<1>1. PICK c : c = tool[o] /\ c # None /\ Stands(c) /\ Holds(c, rows["target"]) /\ c.at = "snapshot"
    BY DEF Reads, Snapshot, Ready, Shaped, Held
<1>2. PICK d : /\ tool' = [tool EXCEPT ![o] = d] /\ Stands(d)
               /\ d.op = c.op /\ d.at = c.at /\ d.bundle = c.bundle /\ d.added = c.added
               /\ \A j \in 1 .. d.i - 1 :
                      \/ d.snap[Tables[j]] = Sees(o, Tables[j])
                      \/ j \in 1 .. c.i - 1 /\ d.snap[Tables[j]] = c.snap[Tables[j]]
    BY <1>1, Reading
<1>3. ASSUME c.op = "rollback", NEW j \in 1 .. d.i - 1
      PROVE  d.snap[Tables[j]] = rows["target"][Tables[j]]
    <2>1. c.added = NoRows /\ c.deleted = NoRows /\ c.store = "target"
        BY <1>1, <1>3 DEF Stands, RollingBack
    <2>2. j \in 1 .. Len(Tables)
        BY <1>2, TableLists DEF Stands, Commands
    <2>3. Tables[j] \in Names
        BY <2>2, TableLists
    <2>4. Sees(o, Tables[j]) = rows["target"][Tables[j]]
        BY <1>1, <2>1, <2>3, NoRowsAre DEF Sees
    <2> QED
        BY <1>1, <1>2, <1>3, <2>4 DEF Holds
<1>4. Holds(d, rows["target"])
    BY <1>1, <1>2, <1>3 DEF Holds
<1>5. UNCHANGED rows
    BY DEF Reads
<1> QED
    BY <1>1, <1>2, <1>4, <1>5, StaysApart, HeldTurn

LEMMA HeldCounts ==
    ASSUME Shaped, Held, careful, careful', NEW o \in Tools, Counts(o) \/ Counted(o) PROVE Held'
<1>1. PICK c : c = tool[o] /\ c # None /\ Stands(c) /\ Holds(c, rows["target"])
    BY DEF Counts, Counted, Ready, Shaped, Held
<1>2. UNCHANGED rows /\ rows["target"] \in Bundles
    BY DEF Counts, Counted, Shaped, Stores
<1>3. CASE Counts(o)
    <2>1. PICK d : /\ tool' = [tool EXCEPT ![o] = d]
                   /\ c.op = "import" /\ c.at = "count" /\ c.i \in 1 .. Len(Tables)
                   /\ Sees(o, Tables[c.i]) = {}
                   /\ d.op = "import" /\ d.at = "count" /\ d.i = c.i + 1
                   /\ d.bundle = c.bundle /\ d.added = c.added
        BY <1>1, <1>3, Counting
    <2>2. Tables[c.i] \in Names /\ c.store = "target" /\ c.deleted = NoRows
        BY <1>1, <2>1, TableLists DEF Stands, Importing
    <2>3. rows["target"][Tables[c.i]] = {}
        BY <1>1, <2>1, <2>2, NoRowsAre DEF Sees
    <2>4. \A j \in 1 .. d.i - 1 : j = c.i \/ j \in 1 .. c.i - 1
        BY <2>1, TableLists
    <2>5. Holds(d, rows["target"])
        BY <1>1, <2>1, <2>3, <2>4 DEF Holds
    <2> QED
        BY <1>1, <1>2, <2>1, <2>5, StaysApart, HeldTurn
<1>4. CASE Counted(o)
    <2>1. PICK d : /\ tool' = [tool EXCEPT ![o] = d]
                   /\ c.op = "import" /\ c.at = "count" /\ c.i = Len(Tables) + 1
                   /\ d.op = "import" /\ d.at = "insert" /\ d.bundle = c.bundle /\ d.added = NoRows
        BY <1>1, <1>4, CountedAll
    <2>2. ASSUME rows["target"] # c.bundle PROVE rows["target"] = NoRows
        <3>1. ASSUME NEW t \in Names PROVE rows["target"][t] = NoRows[t]
            <4>1. PICK j \in 1 .. Len(Tables) : t = Tables[j]
                BY TableLists
            <4>2. j \in 1 .. c.i - 1
                BY <2>1, TableLists
            <4> QED
                BY <1>1, <2>1, <2>2, <4>1, <4>2, NoRowsAre DEF Holds
        <3> QED
            BY <1>2, <3>1, NoRowsAre, SameRows
    <2>3. Holds(d, rows["target"])
        BY <2>1, <2>2, NoRowsAre DEF Holds
    <2>4. c.added = NoRows
        BY <1>1, <2>1 DEF Stands, Importing
    <2> QED
        BY <1>1, <1>2, <2>1, <2>3, <2>4, StaysApart, HeldTurn
<1> QED
    BY <1>3, <1>4

LEMMA HeldInserts ==
    ASSUME Shaped, Held, careful, careful', NEW o \in Tools, Inserts(o) PROVE Held'
<1>1. PICK c : c = tool[o] /\ c # None /\ Stands(c) /\ Holds(c, rows["target"])
    BY DEF Inserts, Ready, Shaped, Held
<1> DEFINE t == FileOrder[c.i]
<1>2. PICK d : /\ tool' = [tool EXCEPT ![o] = d]
               /\ c.op = "import" /\ c.at = "insert"
               /\ t \in Names
               /\ c.bundle[t] \cap Pending(o, t) = {} /\ c.bundle[t] \cap Sees(o, t) = {}
               /\ d.op = "import" /\ d.at = "insert" /\ d.bundle = c.bundle
               /\ d.added[t] = c.bundle[t]
               /\ \A u \in Names : u # t => d.added[u] = c.added[u]
    BY <1>1, Inserting
<1> HIDE DEF t
<1>3. c.store = "target" /\ c.deleted = NoRows
    BY <1>1, <1>2 DEF Stands, Importing
<1>4. rows["target"][t] \cap d.added[t] = {}
    <2>1. Sees(o, t) = (rows["target"][t] \ c.deleted[t]) \cup c.added[t]
        BY <1>1, <1>3 DEF Sees
    <2>2. c.deleted[t] = {}
        BY <1>2, <1>3, NoRowsAre
    <2> QED
        BY <1>2, <2>1, <2>2
<1>5. Holds(d, rows["target"])
    BY <1>1, <1>2, <1>4 DEF Holds
<1>6. ASSUME NEW p \in Tools, tool[p] # None, p # o, tool[p].op = "import", NEW u \in Names
      PROVE  d.added[u] \cap tool[p].added[u] = {}
    <2>1. c.added[u] \cap tool[p].added[u] = {}
        BY <1>1, <1>2, <1>6 DEF Held, Apart
    <2>2. tool[p].store = "target"
        BY <1>6 DEF Shaped, Stands, Importing
    <2>3. tool[p].added[t] \subseteq Pending(o, t)
        BY <1>1, <1>3, <1>6, <2>2 DEF Pending
    <2> QED
        BY <1>2, <2>1, <2>3
<1>7. \A p \in Tools : (tool[p] # None /\ p # o) => Apart(d, tool[p])
    BY <1>6 DEF Apart
<1>8. UNCHANGED rows
    BY DEF Inserts
<1> QED
    BY <1>2, <1>5, <1>7, <1>8, HeldTurn

LEMMA HeldInserted ==
    ASSUME Shaped, Held, careful, careful', NEW o \in Tools, AfterInsert(o) PROVE Held'
<1>1. PICK c : c = tool[o] /\ c # None /\ Stands(c) /\ Holds(c, rows["target"])
    BY DEF AfterInsert, Ready, Shaped, Held
<1>2. PICK d : /\ tool' = [tool EXCEPT ![o] = d]
               /\ c.op = "import" /\ c.at = "insert"
               /\ d.op = "import" /\ d.at = "snapshot" /\ d.bundle = c.bundle /\ d.added = c.added
    BY <1>1, Inserted
<1>3. Holds(d, rows["target"]) /\ UNCHANGED rows
    BY <1>1, <1>2 DEF Holds, AfterInsert
<1> QED
    BY <1>1, <1>2, <1>3, StaysApart, HeldTurn

LEMMA HeldRollbacks ==
    ASSUME Shaped, Held, careful, careful', NEW o \in Tools, Compares(o) \/ Deletes(o) PROVE Held'
<1>1. PICK c : c = tool[o] /\ c # None /\ Stands(c) /\ Holds(c, rows["target"])
    BY DEF Compares, Deletes, DeleteTable, Ready, Shaped, Held
<1>2. UNCHANGED rows /\ rows["target"] \in Bundles
    BY DEF Compares, Deletes, Shaped, Stores
<1>3. CASE Compares(o)
    <2>1. PICK d : /\ tool' = [tool EXCEPT ![o] = d]
                   /\ c.op = "rollback" /\ c.at = "snapshot" /\ c.i = Len(Tables) + 1
                   /\ c.snap = c.bundle
                   /\ d.op = "rollback" /\ d.at = "delete" /\ d.i = 1
                   /\ d.bundle = c.bundle /\ d.deleted = NoRows
        BY <1>1, <1>3, Comparing
    <2>2. ASSUME NEW t \in Names PROVE rows["target"][t] = c.snap[t]
        <3>1. PICK j \in 1 .. Len(Tables) : t = Tables[j]
            BY TableLists
        <3>2. j \in 1 .. c.i - 1
            BY <2>1, TableLists
        <3> QED
            BY <1>1, <2>1, <3>1, <3>2 DEF Holds
    <2>3. c.snap \in Bundles
        BY <1>1 DEF Stands, Commands
    <2>4. rows["target"] = d.bundle
        BY <1>2, <2>1, <2>2, <2>3, SameRows
    <2>5. \A j \in 1 .. Len(Tables) : Tables[j] \in Names /\ ~ (j < 1)
        BY TableLists
    <2>6. Holds(d, rows["target"])
        BY <2>1, <2>4, <2>5, NoRowsAre DEF Holds
    <2>7. d.op = c.op /\ d.op # "import"
        BY <2>1
    <2> QED
        BY <1>1, <1>2, <2>1, <2>6, <2>7, StaysApart, HeldTurn
<1>4. CASE Deletes(o)
    <2> DEFINE t == Tables[c.i]
    <2>1. PICK d : /\ tool' = [tool EXCEPT ![o] = d]
                   /\ c.op = "rollback" /\ c.at = "delete" /\ c.i \in 1 .. Len(Tables)
                   /\ d.op = "rollback" /\ d.at = "delete" /\ d.i = c.i + 1 /\ d.bundle = c.bundle
                   /\ d.deleted[t] = rows["target"][t] \ c.deleted[t]
                   /\ \A u \in Names : u # t => d.deleted[u] = c.deleted[u]
        BY <1>1, <1>4, Deleting
    <2> HIDE DEF t
    <2>2. c.i \in Nat /\ \A j \in 1 .. Len(Tables) : j \in Nat
        BY <2>1, TableLists
    <2>3. c.deleted[t] = {}
        BY <1>1, <2>1, <2>2 DEF Holds, t
    <2>4. ASSUME NEW j \in 1 .. Len(Tables)
          PROVE  d.deleted[Tables[j]] = IF j < d.i THEN rows["target"][Tables[j]] ELSE {}
        <3>1. Tables[j] \in Names /\ (Tables[j] = t => j = c.i)
            BY <2>1, TableLists DEF t
        <3>2. c.deleted[Tables[j]] = IF j < c.i THEN rows["target"][Tables[j]] ELSE {}
            BY <1>1, <2>1 DEF Holds
        <3>3. CASE j = c.i
            <4>1. j < d.i /\ Tables[j] = t
                BY <2>1, <2>2, <3>3 DEF t
            <4> QED
                BY <2>1, <2>3, <4>1
        <3>4. CASE j # c.i
            <4>1. j < d.i <=> j < c.i
                BY <2>1, <2>2, <3>4
            <4> QED
                BY <2>1, <3>1, <3>2, <3>4, <4>1
        <3> QED
            BY <3>3, <3>4
    <2>5. Holds(d, rows["target"])
        BY <1>1, <2>1, <2>4 DEF Holds
    <2>6. d.op = c.op /\ d.op # "import"
        BY <2>1
    <2> QED
        BY <1>1, <1>2, <2>1, <2>5, <2>6, StaysApart, HeldTurn
<1> QED
    BY <1>3, <1>4

\* After an import's commit the target is the bundle, and other imports of the
\* same bundle had inserted nothing of it.
LEMMA ImportFills ==
    ASSUME Shaped, Held, careful, NEW o \in Tools, Imports(o)
    PROVE  rows'["target"] = tool[o].bundle /\ rows["target"] \in {NoRows, tool[o].bundle}
<1>1. /\ tool[o] # None /\ tool[o].op = "import" /\ tool[o].at = "snapshot" /\ Commit(o)
      /\ \A t \in Names : rows'["target"][t] = rows["target"][t] \cup tool[o].bundle[t]
    BY ImportsCommit
<1>2. rows["target"] \in {NoRows, tool[o].bundle}
    BY <1>1 DEF Held, Holds
<1>3. \A t \in Names : rows'["target"][t] = tool[o].bundle[t]
    BY <1>1, <1>2, NoRowsAre
<1>4. rows'["target"] \in Bundles /\ tool[o].bundle \in Bundles
    BY <1>1, Committing DEF Shaped, Stands, Importing, Stores
<1> QED
    BY <1>2, <1>3, <1>4, SameRows

LEMMA RollbackEmpties ==
    ASSUME Shaped, Held, careful, NEW o \in Tools, Empties(o)
    PROVE  rows'["target"] = NoRows /\ rows["target"] = tool[o].bundle
<1>1. /\ tool[o] # None /\ tool[o].op = "rollback" /\ tool[o].at = "delete" /\ Commit(o)
      /\ tool[o].i = Len(Tables) + 1
      /\ \A t \in Names : rows'["target"][t] = rows["target"][t] \ tool[o].deleted[t]
    BY EmptiesCommit
<1>2. Holds(tool[o], rows["target"])
    BY <1>1 DEF Held
<1>3. ASSUME NEW t \in Names PROVE rows'["target"][t] = NoRows[t]
    <2>1. PICK j \in 1 .. Len(Tables) : t = Tables[j]
        BY TableLists
    <2>2. j < tool[o].i
        BY <1>1, TableLists
    <2>3. tool[o].deleted[t] = rows["target"][t]
        BY <1>1, <1>2, <2>1, <2>2 DEF Holds
    <2> QED
        BY <1>1, <2>3, NoRowsAre
<1>4. rows'["target"] \in Bundles
    BY <1>1, Committing DEF Stores
<1> QED
    BY <1>1, <1>2, <1>3, <1>4, NoRowsAre, SameRows DEF Holds

LEMMA HeldCommits ==
    ASSUME Shaped, FileHeld, Quiet, Held, careful, careful', NEW o \in Tools, Imports(o) \/ Empties(o)
    PROVE  Held'
<1>1. PICK c : c = tool[o] /\ c # None /\ c.op \in {"import", "rollback"} /\ Commit(o) /\ Stands(c)
    BY ImportsCommit, EmptiesCommit DEF Shaped
<1>2. /\ tool'[o] = None
      /\ \A p \in Tools \ {o} : tool'[p] = IF tool[p] = None THEN None ELSE Noted(p, "target", c.added)
      /\ c.added \in Bundles
    BY <1>1, Committing
<1>3. ASSUME NEW p \in Tools, tool'[p] # None
      PROVE  /\ p # o /\ tool[p] # None /\ tool'[p].op = tool[p].op /\ tool'[p].at = tool[p].at
             /\ tool'[p].i = tool[p].i /\ tool'[p].bundle = tool[p].bundle
             /\ tool'[p].added = tool[p].added
    <2>1. p # o /\ tool[p] # None /\ tool'[p] = Noted(p, "target", c.added)
        BY <1>2, <1>3
    <2> QED
        BY <1>2, <2>1, NotedIs
<1>4. ASSUME NEW p \in Tools, NEW q \in Tools, tool'[p] # None, tool'[q] # None, p # q
      PROVE  Apart(tool'[p], tool'[q])
    BY <1>3, <1>4 DEF Held, Apart
<1>5. ASSUME NEW p \in Tools, tool'[p] # None, Imports(o) PROVE Holds(tool'[p], rows'["target"])
    <2>1. c.op = "import" /\ c.at = "snapshot" /\ rows'["target"] = c.bundle
        BY <1>1, <1>5, ImportsCommit, ImportFills
    <2>2. tool'[p].op # "rollback"
        BY <1>1, <1>3, <1>5, <2>1 DEF Quiet
    <2>3. ASSUME tool'[p].op = "import"
          PROVE  /\ tool'[p].bundle = c.bundle
                 /\ \A t \in Names : c.bundle[t] \cap tool'[p].added[t] = {}
        <3>1. tool[p].bundle = file /\ c.bundle = file
            BY <1>1, <1>3, <1>5, <2>1, <2>3 DEF FileHeld
        <3>2. c.added = c.bundle
            BY <1>1, <2>1 DEF Stands, Importing
        <3>3. \A t \in Names : c.added[t] \cap tool[p].added[t] = {}
            BY <1>1, <1>3, <1>5, <2>1, <2>3 DEF Held, Apart
        <3> QED
            BY <1>3, <1>5, <3>1, <3>2, <3>3
    <2> QED
        BY <2>1, <2>2, <2>3 DEF Holds
<1>6. ASSUME NEW p \in Tools, tool'[p] # None, Empties(o) PROVE Holds(tool'[p], rows'["target"])
    <2>1. c.op = "rollback"
        BY <1>1, <1>6, EmptiesCommit
    <2>2. tool'[p].op = "export"
        BY <1>1, <1>3, <1>6, <2>1 DEF Quiet
    <2> QED
        BY <2>2 DEF Holds
<1> QED
    BY <1>4, <1>5, <1>6 DEF Held

LEMMA HeldKept == ASSUME Shaped, FileHeld, Quiet, Held, [Next]_vars PROVE Held'
<1>0. SUFFICES ASSUME careful, careful' PROVE Held'
    BY CarefulStays DEF Held
<1>1. ASSUME NEW o \in Tools, Begins(o) PROVE Held'
    <2>1. PICK d : /\ tool' = [tool EXCEPT ![o] = d] /\ Stands(d) /\ d.i = 1 /\ UNCHANGED rows
                   /\ d.op # "import" => d.at = "snapshot"
                   /\ d.op = "import" => d.at = "count"
        BY <1>1, Beginning
    <2>2. d.op = "import" => d.added = NoRows
        BY <2>1 DEF Stands, Importing
    <2>3. Holds(d, rows["target"])
        BY <2>1 DEF Holds
    <2>4. \A p \in Tools : Apart(d, tool[p])
        BY <2>2, NoRowsAre DEF Apart
    <2> QED
        BY <1>0, <2>1, <2>3, <2>4, HeldTurn
<1>2. ASSUME NEW o \in Tools, Opens(o) PROVE Held'
    <2>1. PICK d : tool' = [tool EXCEPT ![o] = d] /\ d.op = "export"
        BY <1>2, Opening
    <2>2. Holds(d, rows["target"]) /\ (\A p \in Tools : Apart(d, tool[p])) /\ UNCHANGED rows
        BY <1>2, <2>1 DEF Holds, Apart, Opens
    <2> QED
        BY <1>0, <2>1, <2>2, HeldTurn
<1>3. ASSUME NEW o \in Tools, WriteBundle(o) \/ Crash(o) PROVE Held'
    <2>1. Abort(o)
        BY <1>3 DEF WriteBundle, Crash
    <2>2. tool'[o] = None /\ (\A p \in Tools \ {o} : tool'[p] = tool[p]) /\ UNCHANGED rows
        BY <2>1 DEF Abort, Shaped
    <2> QED
        BY <1>0, <2>2 DEF Held
<1>4. ASSUME NEW o \in Tools, Command(o) PROVE Held'
    BY <1>0, <1>1, <1>2, <1>3, <1>4, Cases, HeldReads, HeldCounts, HeldInserts, HeldInserted,
       HeldRollbacks, HeldCommits
<1>5. ASSUME Write PROVE Held'
    BY <1>0, <1>5, NobodyNotes DEF Held
<1>6. ASSUME Stop \/ Start \/ Decide \/ MoveFile \/ UNCHANGED vars PROVE Held'
    <2>1. UNCHANGED <<tool, rows>>
        BY <1>6 DEF Stop, Start, Decide, MoveFile, vars
    <2> QED
        BY <1>0, <2>1 DEF Held
<1> QED
    BY <1>4, <1>5, <1>6 DEF Next

LEMMA FileHolds == Spec => []FileHeld
<1>1. Init => FileHeld
    BY DEF Init, FileHeld
<1> QED
    BY <1>1, ShapedHolds, FileKept, PTL DEF Spec

LEMMA QuietHolds == Spec => []Quiet
<1>1. Init => Quiet
    BY DEF Init, Quiet
<1> QED
    BY <1>1, ShapedHolds, FileHolds, QuietKept, PTL DEF Spec

LEMMA HeldHolds == Spec => []Held
<1>1. Init => Held
    BY DEF Init, Held
<1> QED
    BY <1>1, ShapedHolds, FileHolds, QuietHolds, HeldKept, PTL DEF Spec

LEMMA ImportStep ==
    ASSUME Shaped, FileHeld, Held, [Next]_vars,
           careful, rows'["target"] # rows["target"], gateway # "target"
    PROVE  {rows["target"], rows'["target"]} \in {{NoRows, b} : b \in reported}
<1>1. ASSUME NEW o \in Tools, Imports(o)
      PROVE  {rows["target"], rows'["target"]} \in {{NoRows, b} : b \in reported}
    <2>1. rows'["target"] = tool[o].bundle /\ rows["target"] = NoRows
        BY <1>1, ImportFills
    <2>2. tool[o].bundle \in reported
        BY <1>1, ImportsCommit DEF FileHeld
    <2> QED
        BY <2>1, <2>2
<1>2. ASSUME NEW o \in Tools, Empties(o)
      PROVE  {rows["target"], rows'["target"]} \in {{NoRows, b} : b \in reported}
    <2>1. rows'["target"] = NoRows /\ rows["target"] = tool[o].bundle
        BY <1>2, RollbackEmpties
    <2>2. tool[o].bundle \in reported
        BY <1>2, EmptiesCommit DEF FileHeld
    <2> QED
        BY <2>1, <2>2
<1>3. ASSUME Write PROVE FALSE
    <2>1. PICK w, id, new : Writes(w, id, new)
        BY <1>3, Writing
    <2> QED
        BY <2>1 DEF Writes, Stores
<1> QED
    BY <1>1, <1>2, <1>3, RowsChange

\* With the gateway stopped, however many imports and retries meet and wherever
\* they stop: the target changes between empty and one whole exported bundle.
THEOREM ImportIsWholeHolds == Spec => ImportIsWhole
<1>1. ASSUME Shaped, FileHeld, Held, [Next]_vars
      PROVE  [careful /\ rows'["target"] # rows["target"] /\ gateway # "target" =>
                 {rows["target"], rows'["target"]} \in {{NoRows, b} : b \in reported}]_vars
    BY <1>1, ImportStep
<1> QED
    BY <1>1, ShapedHolds, FileHolds, HeldHolds, PTL DEF Spec, ImportIsWhole

----------------------------------------------------------------------------
(* What was accepted                                                       *)

KeyedNames == Range(Keyed)

\* Every table with text keys has the same rows: a write adds one to each.
Even(tables) == \A t, u \in KeyedNames : tables[t] = tables[u]

\* What an export has read, and means to write or is writing.
Read(c) ==
    IF c.at = "write" THEN Names ELSE {Tables[j] : j \in 1 .. c.i - 1}

Exported(c) ==
    (c.op = "export" /\ c.store = authority /\ file \notin reported) =>
        \A t \in Read(c) : c.snap[t] = rows[c.store][t]

Numbered(c) ==
    (c.op = "import" /\ c.at = "snapshot") => \A id \in c.bundle["audit_log"] : id <= lastId["target"]

Kept ==
    careful =>
        /\ authority # None => \A t \in KeyedNames : accepted \subseteq rows[authority][t]
        /\ \A s \in Stores : Even(rows[s]) /\ \A id \in rows[s]["audit_log"] : id <= lastId[s]
        /\ (fresh /\ file \in reported) =>
               Even(file) /\ \A t \in KeyedNames : accepted \subseteq file[t]
        /\ \A o \in Tools : tool[o] # None => Exported(tool[o]) /\ Numbered(tool[o])

LEMMA KeyedAre == KeyedNames \subseteq Names /\ "audit_log" \notin KeyedNames /\ "audit_log" \in Names
BY TableLists, TablesAssumption DEF KeyedNames

\* A step that changes the records only.
LEMMA KeptTurn ==
    ASSUME Shaped, Kept, careful, careful', NEW o \in Tools, NEW d, tool' = [tool EXCEPT ![o] = d],
           UNCHANGED <<rows, lastId, file, reported, authority, fresh, accepted>>,
           Exported(d), Numbered(d)
    PROVE  Kept'
<1>1. tool'[o] = d /\ \A p \in Tools \ {o} : tool'[p] = tool[p]
    BY Turn
<1>2. ASSUME NEW p \in Tools, tool'[p] # None PROVE Exported(tool'[p]) /\ Numbered(tool'[p])
    BY <1>1, <1>2 DEF Kept
<1>3. ASSUME NEW p \in Tools, tool'[p] # None PROVE (Exported(tool[p]) /\ Numbered(tool[p]))'
    BY <1>2, <1>3 DEF Exported, Numbered
<1> QED
    BY <1>3 DEF Kept, Even

LEMMA KeptBegins ==
    ASSUME Shaped, Kept, careful, careful', NEW o \in Tools, Begins(o) PROVE Kept'
<1>1. PICK d : /\ tool' = [tool EXCEPT ![o] = d] /\ Stands(d) /\ d.i = 1
               /\ d.op # "import" => d.at = "snapshot"
               /\ d.op = "import" => d.at = "count"
               /\ authority' = IF d.op = "rollback" THEN None ELSE authority
               /\ UNCHANGED <<rows, lastId, file, reported, fresh, accepted>>
    BY Beginning
<1>2. d.op = "export" => Read(d) = {}
    BY <1>1 DEF Read
<1>3. Exported(d) /\ Numbered(d)
    BY <1>1, <1>2 DEF Exported, Numbered
<1>4. CASE d.op # "rollback"
    BY <1>1, <1>3, <1>4, KeptTurn
<1>5. CASE d.op = "rollback"
    <2>1. authority' = None
        BY <1>1, <1>5
    <2>2. ASSUME NEW p \in Tools, tool'[p] # None PROVE (Exported(tool[p]) /\ Numbered(tool[p]))'
        <3>1. Numbered(tool'[p])
            BY <1>1, <1>3, <2>2, Turn DEF Kept
        <3>2. tool'[p].store # None
            <4>1. Stands(tool'[p])
                BY <1>1, <2>2, Turn DEF Shaped
            <4> QED
                BY <4>1, NoneAssumption DEF Stands, Commands
        <3> QED
            BY <1>1, <2>1, <3>1, <3>2 DEF Exported, Numbered
    <2> QED
        BY <1>1, <2>1, <2>2 DEF Kept, Even
<1> QED
    BY <1>4, <1>5

LEMMA KeptReads ==
    ASSUME Shaped, Kept, careful, careful', NEW o \in Tools, Reads(o) PROVE Kept'
<1>1. PICK c : c = tool[o] /\ c # None /\ Stands(c) /\ Exported(c) /\ Numbered(c) /\ c.at = "snapshot"
    BY DEF Reads, Snapshot, Ready, Shaped, Kept
<1>2. PICK d : /\ tool' = [tool EXCEPT ![o] = d] /\ Stands(d)
               /\ d.op = c.op /\ d.store = c.store /\ d.at = c.at /\ d.bundle = c.bundle
               /\ \A j \in 1 .. d.i - 1 :
                      \/ d.snap[Tables[j]] = Sees(o, Tables[j])
                      \/ j \in 1 .. c.i - 1 /\ d.snap[Tables[j]] = c.snap[Tables[j]]
    BY <1>1, Reading
<1>3. ASSUME d.op = "export", d.store = authority, file \notin reported, NEW t \in Read(d)
      PROVE  d.snap[t] = rows[d.store][t]
    <2>1. PICK j \in 1 .. d.i - 1 : t = Tables[j]
        BY <1>1, <1>2, <1>3 DEF Read
    <2>2. c.added = NoRows /\ c.deleted = NoRows
        BY <1>1, <1>2, <1>3 DEF Stands, Exporting
    <2>3. j \in 1 .. Len(Tables)
        BY <1>2, TableLists DEF Stands, Commands
    <2>4. Tables[j] \in Names
        BY <2>3, TableLists
    <2>5. Sees(o, Tables[j]) = rows[c.store][Tables[j]]
        BY <1>1, <2>2, <2>4, NoRowsAre DEF Sees
    <2>6. j \in 1 .. c.i - 1 => c.snap[Tables[j]] = rows[c.store][Tables[j]]
        BY <1>1, <1>2, <1>3 DEF Exported, Read
    <2> QED
        BY <1>2, <2>1, <2>5, <2>6
<1>4. Exported(d) /\ Numbered(d)
    BY <1>1, <1>2, <1>3 DEF Exported, Numbered
<1>5. UNCHANGED <<rows, lastId, file, reported, authority, fresh, accepted>>
    BY DEF Reads, Plain, gatewayVars
<1> QED
    BY <1>2, <1>4, <1>5, KeptTurn

LEMMA KeptOpens ==
    ASSUME Shaped, Kept, careful, careful', NEW o \in Tools, Opens(o) PROVE Kept'
<1>1. PICK c : c = tool[o] /\ c # None /\ Stands(c) /\ Exported(c) /\ c.at = "snapshot"
               /\ ~ c.i <= Len(Tables) /\ c.op = "export"
    BY DEF Opens, Ready, More, Shaped, Kept
<1>2. PICK d : /\ tool' = [tool EXCEPT ![o] = d] /\ d.op = "export" /\ d.at = "write"
               /\ d.store = c.store /\ d.snap = c.snap
    BY <1>1, Opening
<1>3. file \notin reported /\ file' \notin reported' /\ reported' = reported
    BY NoBundle DEF Opens, Shaped
<1>4. Names \subseteq Read(c)
    <2>1. c.i = Len(Tables) + 1
        BY <1>1, TableLists DEF Stands, Commands
    <2>2. ASSUME NEW t \in Names PROVE t \in Read(c)
        <3>1. PICK j \in 1 .. Len(Tables) : t = Tables[j]
            BY TableLists
        <3>2. j \in 1 .. c.i - 1
            BY <2>1, TableLists
        <3> QED
            BY <1>1, <3>1, <3>2 DEF Read
    <2> QED
        BY <2>2
<1>5. Exported(d) /\ Numbered(d)
    BY <1>1, <1>2, <1>3, <1>4 DEF Exported, Numbered, Read
<1>6. tool'[o] = d /\ \A p \in Tools \ {o} : tool'[p] = tool[p]
    BY <1>2, Turn
<1>7. UNCHANGED <<rows, lastId, authority, fresh, accepted>>
    BY DEF Opens, gatewayVars
<1>8. ASSUME NEW p \in Tools, tool'[p] # None PROVE Exported(tool'[p]) /\ Numbered(tool'[p])
    BY <1>5, <1>6, <1>8 DEF Kept
<1>9. ASSUME NEW p \in Tools, tool'[p] # None PROVE (Exported(tool[p]) /\ Numbered(tool[p]))'
    BY <1>3, <1>7, <1>8, <1>9 DEF Exported, Numbered
<1> QED
    BY <1>3, <1>7, <1>9 DEF Kept, Even

\* The export that leaves a fresh bundle had read the authority's rows.
LEMMA KeptWrites ==
    ASSUME Shaped, FileHeld, Kept, careful, careful', NEW o \in Tools, WriteBundle(o) PROVE Kept'
<1>1. PICK c : c = tool[o] /\ c # None /\ Stands(c) /\ Exported(c) /\ c.at = "write"
    BY DEF WriteBundle, Ready, Shaped, Kept
<1>2. /\ file' = c.snap /\ reported' = reported \cup {c.snap} /\ Abort(o)
      /\ fresh' = (gateway = None /\ c.store = authority)
      /\ UNCHANGED <<lastId, authority, accepted>>
    BY <1>1 DEF WriteBundle
<1>3. tool'[o] = None /\ (\A p \in Tools \ {o} : tool'[p] = tool[p]) /\ UNCHANGED rows
    BY <1>2 DEF Abort, Shaped
<1>4. file \notin reported /\ file' \in reported'
    BY <1>1, <1>2, NoBundle DEF FileHeld, Shaped
<1>5. c.op = "export"
    BY <1>1 DEF Stands, Commands, Importing, RollingBack
<1>6. ASSUME fresh' PROVE Even(c.snap) /\ \A t \in KeyedNames : accepted \subseteq c.snap[t]
    <2>1. c.store = authority /\ c.store \in Stores
        BY <1>1, <1>2, <1>6 DEF Stands, Commands
    <2>2. \A t \in Names : c.snap[t] = rows[authority][t]
        BY <1>1, <1>4, <1>5, <2>1 DEF Exported, Read
    <2>3. authority # None
        BY <2>1, NoneAssumption
    <2>4. Even(rows[authority]) /\ \A t \in KeyedNames : accepted \subseteq rows[authority][t]
        BY <2>1, <2>3 DEF Kept
    <2> QED
        BY <2>2, <2>4, KeyedAre DEF Even
<1>7. ASSUME NEW p \in Tools, tool'[p] # None PROVE (Exported(tool[p]) /\ Numbered(tool[p]))'
    <2>1. Numbered(tool'[p])
        BY <1>3, <1>7 DEF Kept
    <2> QED
        BY <1>2, <1>4, <2>1 DEF Exported, Numbered
<1> QED
    BY <1>2, <1>3, <1>6, <1>7 DEF Kept, Even

\* A sequence set while a second import inserts the same bundle covers both.
LEMMA KeptInserted ==
    ASSUME Shaped, FileHeld, Held, Kept, careful, careful', NEW o \in Tools, AfterInsert(o) PROVE Kept'
<1>1. PICK c : c = tool[o] /\ c # None /\ Stands(c) /\ Holds(c, rows["target"])
    BY DEF AfterInsert, Ready, Shaped, Held
<1>2. PICK d : /\ tool' = [tool EXCEPT ![o] = d]
               /\ c.op = "import" /\ c.at = "insert" /\ d.op = "import" /\ d.bundle = c.bundle
               /\ lastId' \in [Stores -> Nat]
               /\ \A s \in Stores \ {"target"} : lastId'[s] = lastId[s]
               /\ \A id \in d.bundle["audit_log"] : lastId'["target"] >= id
    BY <1>1, Inserted
<1>3. UNCHANGED <<rows, file, reported, authority, fresh, accepted>>
    BY DEF AfterInsert, gatewayVars
<1>4. tool'[o] = d /\ \A p \in Tools \ {o} : tool'[p] = tool[p]
    BY <1>2, Turn
<1>5. \A id \in c.bundle["audit_log"] : id \in Nat /\ id <= lastId'["target"]
    <2>1. c.bundle["audit_log"] \subseteq Nat
        BY <1>1, <1>2, KeyedAre, BundlesAre DEF Stands, Importing, Keys
    <2>2. lastId'["target"] \in Nat
        BY <1>2 DEF Stores
    <2> QED
        BY <1>2, <2>1, <2>2
<1>6. ASSUME NEW s \in Stores, NEW id \in rows[s]["audit_log"] PROVE id <= lastId'[s]
    <2>1. CASE s = "target"
        <3>1. rows["target"] \in {NoRows, c.bundle}
            BY <1>1, <1>2 DEF Holds
        <3> QED
            BY <1>5, <1>6, <2>1, <3>1, NoRowsAre, KeyedAre
    <2>2. CASE s # "target"
        BY <1>2, <1>6, <2>2 DEF Kept
    <2> QED
        BY <2>1, <2>2
<1>7. ASSUME NEW p \in Tools, tool'[p] # None PROVE (Exported(tool[p]) /\ Numbered(tool[p]))'
    <2>1. ASSUME tool'[p].op = "import" PROVE tool'[p].bundle = c.bundle
        BY <1>1, <1>2, <1>4, <1>7, <2>1 DEF FileHeld
    <2>2. Exported(tool'[p])
        BY <1>2, <1>4, <1>7 DEF Kept, Exported
    <2> QED
        BY <1>3, <1>5, <2>1, <2>2 DEF Exported, Numbered
<1> QED
    BY <1>3, <1>6, <1>7 DEF Kept, Even

LEMMA KeptImports ==
    ASSUME Shaped, FileHeld, Quiet, Held, Kept, careful, careful', NEW o \in Tools, Imports(o) PROVE Kept'
<1>1. PICK c : c = tool[o] /\ c # None /\ c.op = "import" /\ c.at = "snapshot" /\ Commit(o) /\ Numbered(c)
    BY ImportsCommit DEF Kept
<1>2. rows'["target"] = c.bundle /\ rows["target"] \in {NoRows, c.bundle}
    BY <1>1, ImportFills
<1>3. file \in reported /\ c.bundle = file /\ fresh
    BY <1>1 DEF FileHeld, Quiet
<1>4. Even(c.bundle) /\ \A t \in KeyedNames : accepted \subseteq c.bundle[t]
    BY <1>3 DEF Kept
<1>5. /\ tool'[o] = None /\ c.added \in Bundles
      /\ \A p \in Tools \ {o} : tool'[p] = IF tool[p] = None THEN None ELSE Noted(p, "target", c.added)
      /\ \A s \in Stores \ {"target"} : rows'[s] = rows[s]
    BY <1>1, Committing
<1>6. authority' \in {authority, "target"} /\ UNCHANGED <<lastId, file, reported, fresh, accepted>>
    BY DEF Imports
<1>7. ASSUME NEW p \in Tools, tool'[p] # None PROVE (Exported(tool[p]) /\ Numbered(tool[p]))'
    <2>1. tool[p] # None /\ tool'[p] = Noted(p, "target", c.added)
        BY <1>5, <1>7
    <2>2. tool'[p].op = tool[p].op /\ tool'[p].at = tool[p].at /\ tool'[p].bundle = tool[p].bundle
        BY <1>5, <2>1, NotedIs
    <2>3. Numbered(tool[p])
        BY <2>1 DEF Kept
    <2> QED
        BY <1>3, <1>6, <2>2, <2>3 DEF Exported, Numbered
<1>8. ASSUME NEW s \in Stores PROVE Even(rows'[s]) /\ \A id \in rows'[s]["audit_log"] : id <= lastId[s]
    <2>1. CASE s = "target"
        BY <1>1, <1>2, <1>4, <2>1 DEF Numbered
    <2>2. CASE s # "target"
        BY <1>5, <2>2 DEF Kept
    <2> QED
        BY <2>1, <2>2
<1>9. ASSUME authority' # None, NEW t \in KeyedNames PROVE accepted \subseteq rows'[authority'][t]
    <2>1. CASE authority' = "target"
        BY <1>2, <1>4, <2>1
    <2>2. CASE authority' # "target"
        <3>1. authority' = authority /\ authority \in Stores
            BY <1>6, <1>9, <2>2 DEF Shaped
        <3> QED
            BY <1>5, <1>9, <2>2, <3>1 DEF Kept
    <2> QED
        BY <2>1, <2>2
<1>10. (fresh /\ file \in reported) => Even(file) /\ \A t \in KeyedNames : accepted \subseteq file[t]
    BY DEF Kept
<1> QED
    BY <1>6, <1>7, <1>8, <1>9, <1>10 DEF Kept, Even

LEMMA KeptEmpties ==
    ASSUME Shaped, Quiet, Held, Kept, careful, careful', NEW o \in Tools, Empties(o) PROVE Kept'
<1>1. PICK c : c = tool[o] /\ c # None /\ c.op = "rollback" /\ Commit(o)
    BY EmptiesCommit
<1>2. rows'["target"] = NoRows
    BY RollbackEmpties
<1>3. authority = None
    BY <1>1 DEF Quiet
<1>4. /\ tool'[o] = None /\ c.added \in Bundles
      /\ \A p \in Tools \ {o} : tool'[p] = IF tool[p] = None THEN None ELSE Noted(p, "target", c.added)
      /\ \A s \in Stores \ {"target"} : rows'[s] = rows[s]
    BY <1>1, Committing
<1>5. UNCHANGED <<lastId, file, reported, authority, fresh, accepted>>
    BY DEF Empties, Plain, gatewayVars
<1>6. ASSUME NEW p \in Tools, tool'[p] # None PROVE (Exported(tool[p]) /\ Numbered(tool[p]))'
    <2>1. tool[p] # None /\ tool'[p] = Noted(p, "target", c.added)
        BY <1>4, <1>6
    <2>2. /\ tool'[p].op = tool[p].op /\ tool'[p].at = tool[p].at /\ tool'[p].bundle = tool[p].bundle
          /\ Stands(tool'[p])
        BY <1>4, <2>1, NotedIs
    <2>3. Numbered(tool[p])
        BY <2>1 DEF Kept
    <2>4. tool'[p].store # None
        BY <2>2, NoneAssumption DEF Stands, Commands
    <2> QED
        BY <1>3, <1>5, <2>2, <2>3, <2>4 DEF Exported, Numbered
<1>7. ASSUME NEW s \in Stores PROVE Even(rows'[s]) /\ \A id \in rows'[s]["audit_log"] : id <= lastId[s]
    <2>1. CASE s = "target"
        BY <1>2, <2>1, NoRowsAre, KeyedAre DEF Even
    <2>2. CASE s # "target"
        BY <1>4, <2>2 DEF Kept
    <2> QED
        BY <2>1, <2>2
<1>8. (fresh /\ file \in reported) => Even(file) /\ \A t \in KeyedNames : accepted \subseteq file[t]
    BY DEF Kept
<1> QED
    BY <1>3, <1>5, <1>6, <1>7, <1>8 DEF Kept, Even

LEMMA KeptWrite ==
    ASSUME Shaped, Quiet, Kept, careful, careful', Write PROVE Kept'
<1>1. /\ \A p \in Tools : tool'[p] = None
      /\ gateway = authority /\ ~ fresh
    BY NobodyNotes
<1>2. PICK w, id, new : Writes(w, id, new)
    BY Writing
<1>3. /\ gateway \in Stores /\ id \in Nat /\ id = lastId[gateway] + 1
      /\ lastId' = [lastId EXCEPT ![gateway] = id]
      /\ \A t \in Names : new[t] = IF t = "audit_log" THEN {id} ELSE {w}
      /\ UNCHANGED <<file, reported, authority, fresh>>
    BY <1>2 DEF Writes
<1>4. lastId'[gateway] = id /\ \A s \in Stores \ {gateway} : lastId'[s] = lastId[s]
    BY <1>3 DEF Shaped
<1>5. ASSUME NEW s \in Stores, NEW k \in rows[s]["audit_log"] PROVE k <= lastId'[s]
    <2>1. k <= lastId[s] /\ lastId[s] \in Nat /\ rows[s]["audit_log"] \in Keys
        BY <1>5, KeyedAre, BundlesAre DEF Kept, Shaped
    <2>2. k \in Nat
        BY <1>5, <2>1 DEF Keys
    <2> QED
        BY <1>3, <1>4, <2>1, <2>2
<1>6. CASE UNCHANGED <<rows, accepted, tool>>
    BY <1>1, <1>3, <1>5, <1>6 DEF Kept, Even
<1>7. CASE ~ UNCHANGED <<rows, accepted, tool>>
    <2>1. /\ \A s \in Stores \ {gateway} : rows'[s] = rows[s]
          /\ \A t \in Names : rows'[gateway][t] = rows[gateway][t] \cup new[t]
          /\ accepted' = accepted \cup {w}
        BY <1>2, <1>7 DEF Writes
    <2>2. \A t \in KeyedNames : rows'[gateway][t] = rows[gateway][t] \cup {w}
        BY <1>3, <2>1, KeyedAre
    <2>3. rows'[gateway]["audit_log"] = rows[gateway]["audit_log"] \cup {id}
        BY <1>3, <2>1, KeyedAre
    <2>4. gateway # None
        BY <1>3, NoneAssumption
    <2>5. \A t \in KeyedNames : accepted' \subseteq rows'[gateway][t]
        BY <1>1, <2>1, <2>2, <2>4 DEF Kept
    <2>6. ASSUME NEW s \in Stores PROVE Even(rows'[s])
        <3>1. \A t, u \in KeyedNames : rows[s][t] = rows[s][u]
            BY DEF Kept, Even
        <3>2. CASE s = gateway
            BY <2>2, <3>1, <3>2 DEF Even
        <3>3. CASE s # gateway
            BY <2>1, <3>1, <3>3 DEF Even
        <3> QED
            BY <3>2, <3>3
    <2>7. ASSUME NEW s \in Stores, NEW k \in rows'[s]["audit_log"] PROVE k <= lastId'[s]
        BY <1>3, <1>4, <1>5, <2>1, <2>3, <2>7
    <2> QED
        BY <1>1, <1>3, <2>5, <2>6, <2>7 DEF Kept, Even
<1> QED
    BY <1>6, <1>7

LEMMA KeptKept == ASSUME Shaped, FileHeld, Quiet, Held, Kept, [Next]_vars PROVE Kept'
<1>0. SUFFICES ASSUME careful, careful' PROVE Kept'
    BY CarefulStays DEF Kept
<1>1. ASSUME NEW o \in Tools, Crash(o) PROVE Kept'
    <2>1. tool' = [tool EXCEPT ![o] = None] /\ UNCHANGED <<rows, lastId, file, reported, authority, fresh, accepted>>
        BY <1>1 DEF Crash, Abort, Plain, gatewayVars
    <2>2. ASSUME NEW p \in Tools, tool'[p] # None PROVE (Exported(tool[p]) /\ Numbered(tool[p]))'
        <3>1. tool'[p] = tool[p] /\ tool[p] # None
            BY <2>1, <2>2 DEF Shaped
        <3>2. Exported(tool[p]) /\ Numbered(tool[p])
            BY <1>0, <3>1 DEF Kept
        <3> QED
            BY <2>1, <3>1, <3>2 DEF Exported, Numbered
    <2> QED
        BY <1>0, <2>1, <2>2 DEF Kept, Even
<1>2. ASSUME NEW o \in Tools, Counts(o) \/ Counted(o) \/ Inserts(o) PROVE Kept'
    <2>1. PICK d : tool' = [tool EXCEPT ![o] = d] /\ d.op = "import" /\ d.at # "snapshot"
        BY <1>2, Counting, CountedAll, Inserting
    <2>2. Exported(d) /\ Numbered(d)
        BY <2>1 DEF Exported, Numbered
    <2>3. UNCHANGED <<rows, lastId, file, reported, authority, fresh, accepted>>
        BY <1>2 DEF Counts, Counted, Inserts, Plain, gatewayVars
    <2> QED
        BY <1>0, <2>1, <2>2, <2>3, KeptTurn
<1>3. ASSUME NEW o \in Tools, Compares(o) \/ Deletes(o) PROVE Kept'
    <2>1. PICK d : tool' = [tool EXCEPT ![o] = d] /\ d.op = "rollback"
        BY <1>3, Comparing, Deleting
    <2>2. Exported(d) /\ Numbered(d)
        BY <2>1 DEF Exported, Numbered
    <2>3. UNCHANGED <<rows, lastId, file, reported, authority, fresh, accepted>>
        BY <1>3 DEF Compares, Deletes, Plain, gatewayVars
    <2> QED
        BY <1>0, <2>1, <2>2, <2>3, KeptTurn
<1>4. ASSUME NEW o \in Tools, Command(o) PROVE Kept'
    BY <1>0, <1>1, <1>2, <1>3, <1>4, Cases, KeptBegins, KeptReads, KeptOpens, KeptWrites, KeptInserted,
       KeptImports, KeptEmpties
<1>5. ASSUME Stop \/ UNCHANGED vars PROVE Kept'
    <2>1. UNCHANGED <<tool, rows, lastId, file, reported, authority, fresh, accepted>>
        BY <1>5 DEF Stop, vars
    <2> QED
        BY <1>0, <2>1 DEF Kept, Even, Exported, Numbered
<1>6. ASSUME Start PROVE Kept'
    <2>1. /\ ~ fresh' /\ UNCHANGED <<tool, rows, lastId, file, reported, authority, accepted>>
        BY <1>6 DEF Start
    <2> QED
        BY <1>0, <2>1 DEF Kept, Even, Exported, Numbered
<1>7. ASSUME MoveFile PROVE Kept'
    <2>1. /\ file' = None /\ reported' = reported /\ \A p \in Tools : tool'[p] = None
          /\ UNCHANGED <<rows, lastId, authority, fresh, accepted>>
        BY <1>7 DEF MoveFile, gatewayVars
    <2>2. None \notin reported
        BY NoBundle DEF Shaped
    <2> QED
        BY <1>0, <2>1, <2>2 DEF Kept, Even
<1>8. ASSUME Decide PROVE Kept'
    <2>1. PICK s \in Stores : accepted \subseteq rows[s][Keyed[1]] /\ authority' = s
        BY <1>8 DEF Decide
    <2>2. /\ \A p \in Tools : tool'[p] = None
          /\ UNCHANGED <<rows, lastId, file, reported, fresh, accepted>>
        BY <1>8 DEF Decide
    <2>3. ASSUME NEW t \in KeyedNames PROVE accepted \subseteq rows[s][t]
        <3>1. Keyed[1] \in KeyedNames
            BY TablesAssumption DEF KeyedNames, Range
        <3> QED
            BY <1>0, <2>1, <3>1 DEF Kept, Even
    <2> QED
        BY <1>0, <2>1, <2>2, <2>3 DEF Kept, Even
<1> QED
    BY <1>0, <1>4, <1>5, <1>6, <1>7, <1>8, KeptWrite DEF Next

LEMMA KeptHolds == Spec => []Kept
<1>1. Init => Kept
    <2>1. KeyedNames \subseteq Names /\ "audit_log" \in Names
        BY KeyedAre
    <2> QED
        BY <2>1, NoRowsAre DEF Init, Kept, Even
<1> QED
    BY <1>1, ShapedHolds, FileHolds, QuietHolds, HeldHolds, KeptKept, PTL DEF Spec

\* With the gateway stopped as documented: whatever was exported, imported,
\* retried, cut off and rolled back, the store the gateway is on has every write
\* it ever acknowledged, and a free id for the next.
THEOREM AcceptedServedHolds == Spec => []AcceptedServed
<1>1. Shaped /\ Quiet /\ Kept => AcceptedServed
    <2>1. SUFFICES ASSUME Shaped, Quiet, Kept, careful, gateway # None
                   PROVE  /\ \A t \in KeyedNames : accepted \subseteq rows[gateway][t]
                          /\ lastId[gateway] + 1 \notin rows[gateway]["audit_log"]
        BY DEF AcceptedServed, KeyedNames
    <2>2. gateway = authority /\ gateway \in Stores
        BY <2>1 DEF Quiet, Shaped
    <2>3. lastId[gateway] \in Nat /\ rows[gateway]["audit_log"] \in Keys
        BY <2>1, <2>2, KeyedAre, BundlesAre DEF Shaped
    <2>4. \A id \in rows[gateway]["audit_log"] : id \in Nat /\ id <= lastId[gateway]
        BY <2>1, <2>2, <2>3 DEF Kept, Keys
    <2> QED
        BY <2>1, <2>2, <2>3, <2>4 DEF Kept
<1> QED
    BY <1>1, ShapedHolds, QuietHolds, KeptHolds, PTL

\* The invariant in one: where every command stands, what a rollback notes, whom
\* the file belongs to, who may run, what the target holds, what is kept.
Inv == Shaped /\ LateNoted /\ FileHeld /\ Quiet /\ Held /\ Kept

\* It holds of all commands at every step.
THEOREM InvHolds == Spec => []Inv
BY ShapedHolds, LateHolds, FileHolds, QuietHolds, HeldHolds, KeptHolds, PTL DEF Inv
=============================================================================
