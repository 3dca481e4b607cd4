--------------------------- MODULE CatalogueProofs ---------------------------
(***************************************************************************)
(* Proofs about Catalogue, for any instances, requests, names and starter  *)
(* catalogue: what a boot and the administrator's requests leave of the    *)
(* tables.                                                                 *)
(*                                                                         *)
(* The seed reads for each group in turn and writes at the end, so the     *)
(* argument is about what a boot knows of the groups it has gone through:  *)
(* of their categories for good, since categories are never deleted, and   *)
(* of their products and cycles while nobody else commits.                 *)
(***************************************************************************)
EXTENDS Catalogue, FiniteSetTheorems, TLAPS

-----------------------------------------------------------------------------
(* The inductive invariants.                                               *)

\* How far the transaction t of a seed is with group g.
CategoryRead(t, g) == g < t.group \/ (g = t.group /\ t.pc \in {"product", "cycle"})
ProductRead(t, g) == g < t.group \/ (g = t.group /\ t.pc = "cycle")
CycleRead(t, g) == g < t.group

\* The category of a group it has read exists, or is one it flushed.
Provided(t, g) == HasSlug(Starter[g].slug) \/ g \in t.flushed

BootOK(t) ==
    /\ t.pc # "commit" => t.group \in Groups
    /\ t.pc = "commit" /\ t.demo => \A g \in Groups : CycleRead(t, g)
    /\ \A g \in Groups : CategoryRead(t, g) => Provided(t, g)
    /\ \A g \in t.missing : ProductRead(t, g)
    /\ \A g \in t.unopened : CycleRead(t, g)
    /\ \A c \in t.extended : cycle[c] # NoRow

\* Rows that are referred to exist.
BaseInv ==
    /\ TypeOK
    /\ \A b \in Instances : Booting(b) => BootOK(boot[b])
    /\ \A r \in Requests : request[r] # Idle => cycle[request[r].cycle] # NoRow

\* What an undisturbed transaction has read is still so.
ProductKnown(t, g) ==
    LET found == ProductsLike(Starter[g].product, Starter[g].slug)
    IN  IF g \in t.missing THEN found = {} ELSE \E p \in Products : found = {p}

CycleKnown(t, g) ==
    LET found == OpenCycles(Starter[g].slug)
    IN  IF g \in t.unopened
        THEN found = {}
        ELSE \E c \in Cycles : found = {c} /\ (cycle[c].past => c \in t.extended)

Knows(t) ==
    \A g \in Groups :
       /\ ProductRead(t, g) => ProductKnown(t, g)
       /\ CycleRead(t, g) => CycleKnown(t, g)

KnowledgeInv ==
    \A b \in Instances : Booting(b) /\ boot[b].undisturbed => Knows(boot[b])
-----------------------------------------------------------------------------
(* Facts about the constants and the types.                                *)

LEMMA StarterTypes ==
    /\ Len(Starter) \in Nat
    /\ \A g \in Groups :
          /\ g \in Nat /\ g <= Len(Starter)
          /\ Starter[g].name \in Names \cup {Starter[h].name : h \in Groups}
          /\ Starter[g].slug \in Slugs
          /\ Starter[g].product \in ProductNames
<1> DEFINE GroupSet == [name : STRING, slug : STRING, product : ProductNames]
<1>1. \A g \in GroupSet : g.product \in ProductNames
  OBVIOUS
<1>2. Starter \in Seq(GroupSet)
  BY CatalogueAssumption
<1> HIDE DEF GroupSet
<1>3. Len(Starter) \in Nat /\ \A g \in 1..Len(Starter) : Starter[g] \in GroupSet
  BY <1>2
<1> QED BY <1>1, <1>3 DEF Groups, Slugs

\* Rows differ from NoRow, and a transaction from the other states of a boot.
LEMMA RowTypes ==
    /\ \A row \in ProductRows : row # NoRow
    /\ \A row \in CycleRows : row # NoRow
BY CatalogueAssumption

LEMMA BootTypes ==
    ASSUME TypeOK, NEW b \in Instances
    PROVE  /\ Booting(b) <=> boot[b] \in Transactions
           /\ boot[b].pc \notin SeedSteps => boot[b] \in {At("off"), At("serving"), At("refused")}
BY DEF TypeOK, Booting, SeedSteps, Transactions, At

LEMMA OffTypes ==
    \A pc \in {"off", "serving", "refused"} : At(pc).pc = pc /\ pc \notin SeedSteps
BY DEF At, SeedSteps

LEMMA CategoriesStay ==
    ASSUME categories \subseteq categories'
    PROVE  \A s : HasSlug(s) => HasSlug(s)'
BY DEF HasSlug

-----------------------------------------------------------------------------
(* Steps that write no table.                                              *)

\* The next read of a boot.
LEMMA ReadStep ==
    ASSUME BaseInv, NEW b \in Instances, NEW t \in Transactions,
           boot' = [boot EXCEPT ![b] = t],
           UNCHANGED <<tables, request>>,
           BootOK(t)
    PROVE  /\ BaseInv'
           /\ KnowledgeInv /\ (t.undisturbed => Knows(t)) => KnowledgeInv'
<1>1. UNCHANGED <<account, categories, product, cycle, request>>
  BY DEF tables
<1>2. /\ boot'[b] = t
      /\ \A i \in Instances : i # b => boot'[i] = boot[i]
      /\ boot' \in [Instances ->
                     Transactions \cup {At("off"), At("serving"), At("refused")}]
  BY DEF BaseInv, TypeOK
<1>3. TypeOK'
  BY <1>1, <1>2 DEF BaseInv, TypeOK, HasSlug
<1>4. ASSUME NEW i \in Instances, Booting(i)'
      PROVE  BootOK(boot[i])'
  <2>1. CASE i = b
    BY <1>1, <1>2, <2>1 DEF BootOK, CategoryRead, ProductRead, CycleRead,
                             Provided, HasSlug
  <2>2. CASE i # b
    BY <1>1, <1>2, <1>4, <2>2 DEF BaseInv, Booting, BootOK, CategoryRead,
                             ProductRead, CycleRead, Provided, HasSlug
  <2> QED BY <2>1, <2>2
<1>5. ASSUME KnowledgeInv, t.undisturbed => Knows(t),
             NEW i \in Instances, Booting(i)', boot'[i].undisturbed
      PROVE  Knows(boot[i])'
  <2>1. PICK u : u = boot'[i] /\ Knows(u)
    BY <1>2, <1>5 DEF KnowledgeInv, Booting
  <2>2. Knows(u)'
    BY <1>1, <2>1 DEF Knows, ProductRead, CycleRead, ProductKnown, CycleKnown,
                      ProductsLike, OpenCycles
  <2> QED BY <2>1, <2>2 DEF Knows, ProductRead, CycleRead, ProductKnown, CycleKnown,
                      ProductsLike, OpenCycles
<1> QED BY <1>1, <1>3, <1>4, <1>5 DEF BaseInv, KnowledgeInv

\* A boot that holds no transaction afterwards.
LEMMA OffStep ==
    ASSUME BaseInv, NEW b \in Instances, NEW pc \in {"off", "serving", "refused"},
           boot' = [boot EXCEPT ![b] = At(pc)],
           UNCHANGED <<tables, request>>
    PROVE  BaseInv' /\ (KnowledgeInv => KnowledgeInv')
<1>1. UNCHANGED <<account, categories, product, cycle, request>>
  BY DEF tables
<1>2. /\ boot'[b] = At(pc)
      /\ \A i \in Instances : i # b => boot'[i] = boot[i]
      /\ boot' \in [Instances ->
                     Transactions \cup {At("off"), At("serving"), At("refused")}]
  BY DEF BaseInv, TypeOK
<1>3. TypeOK'
  BY <1>1, <1>2 DEF BaseInv, TypeOK, HasSlug
<1>4. ASSUME NEW i \in Instances, Booting(i)'
      PROVE  i # b /\ boot'[i] = boot[i] /\ Booting(i)
  BY <1>2, <1>4, OffTypes DEF Booting
<1>5. ASSUME NEW i \in Instances, Booting(i)'
      PROVE  BootOK(boot[i])'
  BY <1>1, <1>4, <1>5 DEF BaseInv, BootOK, CategoryRead, ProductRead, CycleRead,
                          Provided, HasSlug
<1>6. ASSUME KnowledgeInv, NEW i \in Instances, Booting(i)', boot'[i].undisturbed
      PROVE  Knows(boot[i])'
  <2>1. Booting(i) /\ boot'[i] = boot[i] /\ Knows(boot[i])
    BY <1>4, <1>6 DEF KnowledgeInv
  <2> QED BY <1>1, <2>1 DEF Knows, ProductRead, CycleRead, ProductKnown, CycleKnown,
                      ProductsLike, OpenCycles
<1> QED BY <1>1, <1>3, <1>5, <1>6 DEF BaseInv, KnowledgeInv

\* What a request has read.
LEMMA RequestStep ==
    ASSUME BaseInv, UNCHANGED <<tables, boot>>,
           request' \in [Requests ->
                           [pc : {"edit", "open", "opening", "close"}, cycle : Cycles]
                             \cup {Idle}],
           \A r \in Requests : request'[r] # Idle => cycle[request'[r].cycle] # NoRow
    PROVE  BaseInv' /\ (KnowledgeInv => KnowledgeInv')
<1>1. UNCHANGED <<account, categories, product, cycle, boot>>
  BY DEF tables
<1>2. TypeOK'
  BY <1>1 DEF BaseInv, TypeOK, HasSlug
<1>3. ASSUME NEW i \in Instances, Booting(i)'
      PROVE  BootOK(boot[i])'
  BY <1>1, <1>3 DEF BaseInv, Booting, BootOK, CategoryRead, ProductRead, CycleRead,
                          Provided, HasSlug
<1>4. KnowledgeInv => KnowledgeInv'
  BY <1>1 DEF KnowledgeInv, Booting, Knows, ProductRead, CycleRead, ProductKnown,
              CycleKnown, ProductsLike, OpenCycles
<1> QED BY <1>1, <1>2, <1>3, <1>4 DEF BaseInv
-----------------------------------------------------------------------------
(* Steps that write a table, after which no boot knows what it has read.   *)

LEMMA DisturbedTypes ==
    ASSUME TypeOK, NEW b \in Instances
    PROVE  /\ Booting(b) => /\ Disturbed(b) \in Transactions
                            /\ ~ Disturbed(b).undisturbed
                            /\ BootOK(boot[b]) => BootOK(Disturbed(b))
           /\ ~ Booting(b) => Disturbed(b) = boot[b]
<1>1. ASSUME Booting(b)
      PROVE  /\ Disturbed(b) = [boot[b] EXCEPT !.undisturbed = FALSE]
             /\ boot[b] \in Transactions
  BY <1>1, BootTypes DEF Disturbed
<1>2. ASSUME Booting(b)
      PROVE  /\ Disturbed(b) \in Transactions
             /\ ~ Disturbed(b).undisturbed
             /\ Disturbed(b).pc = boot[b].pc /\ Disturbed(b).demo = boot[b].demo
             /\ Disturbed(b).group = boot[b].group
             /\ Disturbed(b).flushed = boot[b].flushed
             /\ Disturbed(b).missing = boot[b].missing
             /\ Disturbed(b).unopened = boot[b].unopened
             /\ Disturbed(b).extended = boot[b].extended
  BY <1>1, <1>2 DEF Transactions
<1> QED BY <1>2 DEF BootOK, CategoryRead, ProductRead, CycleRead, Provided, Disturbed

\* The foreign keys of products and cycles, a part of TypeOK.
References ==
    /\ \A p \in Products : product[p] # NoRow => HasSlug(product[p].category)
    /\ \A c \in Cycles : cycle[c] # NoRow => HasSlug(cycle[c].category)

LEMMA WriteStep ==
    ASSUME BaseInv,
           boot' = [b \in Instances |-> boot'[b]],
           \A b \in Instances : boot'[b] \in {At("serving"), Disturbed(b)},
           account' \in {"none", "customer", "admin"},
           categories \subseteq categories', categories' \subseteq CategoryRows,
           product' \in [Products -> ProductRows \cup {NoRow}],
           cycle' \in [Cycles -> CycleRows \cup {NoRow}],
           References',
           \A c \in Cycles : cycle[c] # NoRow => cycle'[c] # NoRow,
           request' \in [Requests ->
                           [pc : {"edit", "open", "opening", "close"}, cycle : Cycles]
                             \cup {Idle}],
           \A r \in Requests : request'[r] \in {request[r], Idle}
    PROVE  BaseInv' /\ KnowledgeInv'
<1>1. TypeOK
  BY DEF BaseInv
<1>2. \A b \in Instances :
         /\ boot'[b] \in Transactions
                           \cup {At("off"), At("serving"), At("refused")}
         /\ Booting(b)' => Booting(b) /\ boot'[b] = Disturbed(b)
  <2> TAKE b \in Instances
  <2>1. CASE boot'[b] = At("serving")
    BY <2>1, OffTypes DEF Booting
  <2>2. CASE boot'[b] = Disturbed(b)
    BY <1>1, <2>2, DisturbedTypes DEF TypeOK, Booting
  <2> QED BY <2>1, <2>2
<1>3. boot' \in [Instances -> Transactions \cup {At("off"), At("serving"), At("refused")}]
  BY <1>2
<1>4. TypeOK'
  BY <1>3 DEF TypeOK, References
<1>5. ASSUME NEW b \in Instances, Booting(b)'
      PROVE  BootOK(boot[b])' /\ ~ boot'[b].undisturbed
  <2>1. PICK t : t = Disturbed(b)
    OBVIOUS
  <2>2. t \in Transactions /\ BootOK(t) /\ ~ t.undisturbed /\ boot'[b] = t
    BY <1>1, <1>2, <1>5, <2>1, DisturbedTypes DEF BaseInv
  <2>3. \A s : HasSlug(s) => HasSlug(s)'
    BY CategoriesStay
  <2>4. BootOK(t)'
    BY <2>2, <2>3 DEF BootOK, CategoryRead, ProductRead, CycleRead, Provided, Transactions
  <2> QED BY <2>2, <2>4 DEF BootOK, CategoryRead, ProductRead, CycleRead, Provided
<1>6. ASSUME NEW r \in Requests, request'[r] # Idle
      PROVE  cycle'[request'[r].cycle] # NoRow
  <2>1. request'[r] = request[r] /\ request[r].cycle \in Cycles
    BY <1>1, <1>6 DEF TypeOK
  <2> QED BY <1>6, <2>1 DEF BaseInv
<1> QED BY <1>4, <1>5, <1>6 DEF BaseInv, KnowledgeInv

\* Rows written with the slug of an existing category.
LEMMA NewRows ==
    ASSUME NEW s \in Slugs
    PROVE  /\ \A n \in ProductNames : [name |-> n, category |-> s] \in ProductRows
           /\ \A k \in CycleStatuses, past \in BOOLEAN :
                 [category |-> s, status |-> k, past |-> past] \in CycleRows
BY DEF ProductRows, CycleRows

LEMMA RegisterStep ==
    ASSUME BaseInv, Register
    PROVE  BaseInv' /\ KnowledgeInv'
<1>1. /\ TypeOK
      /\ account' = "customer" /\ UNCHANGED <<categories, product, cycle, request>>
      /\ boot' = [b \in Instances |-> Disturbed(b)]
  BY DEF BaseInv, Register, Disturb
<1>2. References' /\ categories \subseteq categories'
  BY <1>1 DEF TypeOK, References, HasSlug
<1> QED BY <1>1, <1>2, WriteStep DEF TypeOK

LEMMA CategoryStep ==
    ASSUME BaseInv, NEW n \in Names, CreateCategory(n)
    PROVE  BaseInv' /\ KnowledgeInv'
<1>1. /\ TypeOK
      /\ categories' = categories \cup {[name |-> n, slug |-> Slugify[n]]}
      /\ UNCHANGED <<account, product, cycle, request>>
      /\ boot' = [b \in Instances |-> Disturbed(b)]
  BY DEF BaseInv, CreateCategory, Disturb
<1>2. [name |-> n, slug |-> Slugify[n]] \in CategoryRows
  BY DEF CategoryRows, Slugs
<1>3. categories \subseteq categories' /\ categories' \subseteq CategoryRows
  BY <1>1, <1>2 DEF TypeOK
<1>4. \A s : HasSlug(s) => HasSlug(s)'
  BY <1>3, CategoriesStay
<1>5. References'
  BY <1>1, <1>4 DEF TypeOK, References
<1> QED BY <1>1, <1>3, <1>5, WriteStep DEF TypeOK

LEMMA ProductStep ==
    ASSUME BaseInv, NEW p \in Products,
           \/ DeleteProduct(p)
           \/ \E n \in ProductNames, s \in Slugs : SaveProduct(p, n, s)
    PROVE  BaseInv' /\ KnowledgeInv'
<1>1. /\ TypeOK
      /\ UNCHANGED <<account, categories, cycle, request>>
      /\ boot' = [b \in Instances |-> Disturbed(b)]
  BY DEF BaseInv, SaveProduct, DeleteProduct, Disturb
<1>2. PICK row \in ProductRows \cup {NoRow} :
             /\ product' = [product EXCEPT ![p] = row]
             /\ row # NoRow => HasSlug(row.category)
  <2>1. CASE DeleteProduct(p)
    BY <2>1 DEF DeleteProduct
  <2>2. ASSUME NEW n \in ProductNames, NEW s \in Slugs, SaveProduct(p, n, s)
        PROVE  /\ [name |-> n, category |-> s] \in ProductRows
               /\ product' = [product EXCEPT ![p] = [name |-> n, category |-> s]]
               /\ HasSlug([name |-> n, category |-> s].category)
    BY <2>2, NewRows DEF SaveProduct, ProductRows
  <2> QED BY <2>1, <2>2
<1>3. /\ product' \in [Products -> ProductRows \cup {NoRow}]
      /\ References'
  BY <1>1, <1>2 DEF TypeOK, References, HasSlug
<1> QED BY <1>1, <1>3, WriteStep DEF TypeOK

\* A cycle that exists keeps its category; WriteCycle, CreateCycle and
\* WindowEnds write one row.
LEMMA CycleWrite ==
    ASSUME BaseInv, Disturb, NEW c \in Cycles, NEW row \in CycleRows,
           cycle' = [cycle EXCEPT ![c] = row], HasSlug(row.category),
           UNCHANGED <<account, categories, product>>,
           \/ UNCHANGED request
           \/ \E r \in Requests : request' = [request EXCEPT ![r] = Idle]
    PROVE  BaseInv' /\ KnowledgeInv'
<1>1. TypeOK /\ row # NoRow
  BY RowTypes DEF BaseInv
<1>2. /\ cycle' \in [Cycles -> CycleRows \cup {NoRow}]
      /\ \A d \in Cycles : cycle[d] # NoRow => cycle'[d] # NoRow
      /\ \A d \in Cycles : cycle'[d] \in {cycle[d], row}
  BY <1>1 DEF TypeOK
<1>3. References' /\ categories \subseteq categories'
  <2>1. \A s : HasSlug(s) => HasSlug(s)'
    BY DEF HasSlug
  <2>2. \A p \in Products : product'[p] = product[p]
    OBVIOUS
  <2> QED BY <1>1, <1>2, <2>1, <2>2 DEF TypeOK, References
<1>4. /\ request' \in [Requests ->
                           [pc : {"edit", "open", "opening", "close"}, cycle : Cycles]
                             \cup {Idle}]
      /\ \A r \in Requests : request'[r] \in {request[r], Idle}
  BY <1>1 DEF TypeOK
<1>5. /\ boot' = [b \in Instances |-> boot'[b]]
      /\ \A b \in Instances : boot'[b] = Disturbed(b)
  BY DEF Disturb
<1> QED BY <1>1, <1>2, <1>3, <1>4, <1>5, WriteStep DEF TypeOK

\* The rows that are read and written again.
LEMMA ExistingRow ==
    ASSUME BaseInv, NEW c \in Cycles, cycle[c] # NoRow
    PROVE  /\ cycle[c] \in CycleRows /\ HasSlug(cycle[c].category)
           /\ \A k \in CycleStatuses :
                 LET row == [cycle[c] EXCEPT !.status = k]
                 IN  /\ row \in CycleRows /\ row.status = k
                     /\ row.category = cycle[c].category /\ row.past = cycle[c].past
           /\ \A past \in BOOLEAN :
                 LET row == [cycle[c] EXCEPT !.past = past]
                 IN  /\ row \in CycleRows /\ row.past = past
                     /\ row.category = cycle[c].category
                     /\ row.status = cycle[c].status
<1>1. cycle[c] \in CycleRows /\ HasSlug(cycle[c].category)
  BY DEF BaseInv, TypeOK
<1> QED BY <1>1 DEF CycleRows

\* What each action writes into the row of its cycle.
RowWritten(c, row) ==
    /\ cycle' = [cycle EXCEPT ![c] = row]
    /\ row \in CycleRows /\ HasSlug(row.category)

LEMMA CreateCycleStep ==
    ASSUME BaseInv, NEW c \in Cycles, NEW s \in Slugs, NEW past \in BOOLEAN,
           CreateCycle(c, s, past)
    PROVE  BaseInv' /\ KnowledgeInv'
<1>1. PICK row \in CycleRows : RowWritten(c, row)
  <2> DEFINE new == [category |-> s, status |-> "draft", past |-> past]
  <2>1. new \in CycleRows /\ new.category = s /\ HasSlug(s)
    BY NewRows DEF CycleStatuses, CreateCycle
  <2> QED BY <2>1 DEF RowWritten, CreateCycle
<1> QED BY <1>1, CycleWrite DEF CreateCycle, RowWritten

LEMMA WindowStep ==
    ASSUME BaseInv, NEW c \in Cycles, WindowEnds(c)
    PROVE  /\ BaseInv' /\ KnowledgeInv'
           /\ cycle[c] # NoRow
           /\ \E row \in CycleRows : /\ RowWritten(c, row)
                                     /\ row.status = cycle[c].status
<1>1. cycle[c] # NoRow /\ UNCHANGED request
  BY DEF WindowEnds
<1>2. PICK row \in CycleRows : RowWritten(c, row) /\ row.status = cycle[c].status
  <2>1. cycle' = [cycle EXCEPT ![c] = [cycle[c] EXCEPT !.past = TRUE]]
    BY DEF WindowEnds, BaseInv, TypeOK
  <2> QED BY <1>1, <2>1, ExistingRow DEF RowWritten
<1> QED BY <1>1, <1>2, CycleWrite DEF WindowEnds, RowWritten

\* The commit of an edit, an opening or a closing.
LEMMA CommitStep ==
    ASSUME BaseInv, NEW r \in Requests,
           CommitEdit(r) \/ CommitOpen(r) \/ CommitClose(r)
    PROVE  /\ BaseInv' /\ KnowledgeInv'
           /\ request[r] # Idle /\ request' = [request EXCEPT ![r] = Idle]
           /\ request[r].cycle \in Cycles /\ cycle[request[r].cycle] # NoRow
           /\ \E row \in CycleRows :
                 /\ RowWritten(request[r].cycle, row)
                 /\ CommitEdit(r) => row.status = cycle[request[r].cycle].status
                 /\ CommitOpen(r) => row.status = "open"
                 /\ CommitClose(r) => row.status = "closed"
<1>1. request[r].pc \in {"edit", "opening", "close"}
  BY DEF CommitEdit, CommitOpen, CommitClose
<1>2. request[r] # Idle /\ request[r].cycle \in Cycles
  BY <1>1 DEF BaseInv, TypeOK, Idle
<1>3. PICK c \in Cycles : c = request[r].cycle /\ cycle[c] # NoRow
  BY <1>2 DEF BaseInv
<1>4. /\ request' = [request EXCEPT ![r] = Idle]
      /\ Disturb /\ UNCHANGED <<account, categories, product>>
  BY DEF CommitEdit, CommitOpen, CommitClose, WriteCycle
<1>5. PICK row \in CycleRows :
             /\ RowWritten(c, row)
             /\ CommitEdit(r) => row.status = cycle[c].status
             /\ CommitOpen(r) => row.status = "open"
             /\ CommitClose(r) => row.status = "closed"
  <2>1. CASE CommitEdit(r)
    <3>1. PICK past \in BOOLEAN :
                 cycle' = [cycle EXCEPT ![c] = [cycle[c] EXCEPT !.past = past]]
      BY <1>3, <2>1 DEF CommitEdit, WriteCycle
    <3>2. request[r].pc = "edit"
      BY <2>1 DEF CommitEdit
    <3> QED BY <1>3, <3>1, <3>2, ExistingRow DEF RowWritten, CommitOpen, CommitClose
  <2>2. CASE CommitOpen(r)
    <3>1. cycle' = [cycle EXCEPT ![c] = [cycle[c] EXCEPT !.status = "open"]]
          /\ request[r].pc = "opening"
      BY <1>3, <2>2 DEF CommitOpen, WriteCycle
    <3> QED BY <1>3, <3>1, ExistingRow DEF RowWritten, CommitEdit, CommitClose,
                                           CycleStatuses
  <2>3. CASE CommitClose(r)
    <3>1. cycle' = [cycle EXCEPT ![c] = [cycle[c] EXCEPT !.status = "closed"]]
          /\ request[r].pc = "close"
      BY <1>3, <2>3 DEF CommitClose, WriteCycle
    <3> QED BY <1>3, <3>1, ExistingRow DEF RowWritten, CommitEdit, CommitOpen,
                                           CycleStatuses
  <2> QED BY <2>1, <2>2, <2>3
<1>6. BaseInv' /\ KnowledgeInv'
  BY <1>4, <1>5, CycleWrite DEF RowWritten
<1> QED BY <1>2, <1>3, <1>4, <1>5, <1>6

\* What a request reads, and its end without a commit.
LEMMA LookStep ==
    ASSUME BaseInv, NEW r \in Requests,
           \/ \E c \in Cycles : ReadForEdit(r, c) \/ ReadForOpen(r, c)
                                   \/ ReadForClose(r, c)
           \/ FindNoConflict(r) \/ Rollback(r)
    PROVE  /\ BaseInv' /\ (KnowledgeInv => KnowledgeInv')
           /\ UNCHANGED <<tables, boot>>
           /\ \E t \in [pc : {"edit", "open", "opening", "close"}, cycle : Cycles]
                         \cup {Idle} :
                 request' = [request EXCEPT ![r] = t]
<1>1. TypeOK /\ UNCHANGED <<tables, boot>>
  BY DEF BaseInv, ReadForEdit, ReadForOpen, ReadForClose, FindNoConflict, Rollback
<1>2. PICK t \in [pc : {"edit", "open", "opening", "close"}, cycle : Cycles]
                   \cup {Idle} :
             /\ request' = [request EXCEPT ![r] = t]
             /\ t # Idle => cycle[t.cycle] # NoRow
  <2>1. ASSUME NEW c \in Cycles,
               ReadForEdit(r, c) \/ ReadForOpen(r, c) \/ ReadForClose(r, c)
        PROVE  /\ cycle[c] # NoRow
               /\ \E pc \in {"edit", "open", "close"} :
                     request' = [request EXCEPT ![r] = [pc |-> pc, cycle |-> c]]
    BY <2>1 DEF ReadForEdit, ReadForOpen, ReadForClose
  <2>2. ASSUME FindNoConflict(r)
        PROVE  \E t \in [pc : {"edit", "open", "opening", "close"}, cycle : Cycles] :
                  /\ request' = [request EXCEPT ![r] = t]
                  /\ cycle[t.cycle] # NoRow
    <3>1. /\ request[r] \in [pc : {"edit", "open", "opening", "close"}, cycle : Cycles]
          /\ cycle[request[r].cycle] # NoRow
      BY <2>2 DEF FindNoConflict, BaseInv, TypeOK, Idle
    <3>2. request' = [request EXCEPT ![r] = [request[r] EXCEPT !.pc = "opening"]]
      BY <1>1, <2>2 DEF FindNoConflict, TypeOK
    <3> DEFINE t == [request[r] EXCEPT !.pc = "opening"]
    <3>3. t \in [pc : {"edit", "open", "opening", "close"}, cycle : Cycles]
          /\ t.cycle = request[r].cycle
      BY <3>1
    <3> QED BY <3>1, <3>2, <3>3
  <2>3. CASE Rollback(r)
    BY <2>3 DEF Rollback
  <2> QED BY <2>1, <2>2, <2>3
<1>3. /\ request' \in [Requests ->
                           [pc : {"edit", "open", "opening", "close"}, cycle : Cycles]
                             \cup {Idle}]
      /\ \A q \in Requests : request'[q] # Idle => cycle[request'[q].cycle] # NoRow
  BY <1>1, <1>2 DEF TypeOK, BaseInv
<1> QED BY <1>1, <1>2, <1>3, RequestStep
-----------------------------------------------------------------------------
(* The reads of the seed.                                                  *)

LEMMA AtMostOne ==
    ASSUME NEW S, IsFiniteSet(S), ~ (Cardinality(S) > 1)
    PROVE  S = {} \/ \E x \in S : S = {x}
<1>1. Cardinality(S) = 0 \/ Cardinality(S) = 1
  BY FS_CardinalityType
<1>2. CASE Cardinality(S) = 0
  BY <1>2, FS_EmptySet
<1>3. CASE Cardinality(S) = 1
  BY <1>3, FS_Singleton
<1> QED BY <1>1, <1>2, <1>3

LEMMA LookupsFinite ==
    \A n, s : /\ ProductsLike(n, s) \subseteq Products
              /\ IsFiniteSet(ProductsLike(n, s))
              /\ OpenCycles(s) \subseteq Cycles /\ IsFiniteSet(OpenCycles(s))
BY CatalogueAssumption, FS_Subset DEF ProductsLike, OpenCycles

\* A boot that refuses, is skipped or is stopped.
LEMMA EndStep ==
    ASSUME BaseInv, NEW b \in Instances, SkipSeed(b) \/ Refuse(b) \/ Stop(b)
    PROVE  BaseInv' /\ (KnowledgeInv => KnowledgeInv')
BY OffStep DEF SkipSeed, Refuse, Stop

LEMMA StartStep ==
    ASSUME BaseInv, NEW b \in Instances, StartSeed(b)
    PROVE  BaseInv' /\ (KnowledgeInv => KnowledgeInv')
<1>1. PICK demo \in DemoData :
          boot' = [boot EXCEPT ![b] =
            [pc |-> IF demo /\ Starter # <<>> THEN "category" ELSE "commit",
             demo |-> demo, group |-> 1,
             admin |-> IF account = "none" THEN "create" ELSE "repair",
             flushed |-> {}, missing |-> {}, unopened |-> {}, extended |-> {},
             undisturbed |-> TRUE]]
  BY DEF StartSeed
<1>2. PICK t \in Transactions :
          /\ boot' = [boot EXCEPT ![b] = t]
          /\ t.pc = IF demo /\ Starter # <<>> THEN "category" ELSE "commit"
          /\ t.demo = demo /\ t.group = 1
          /\ t.missing = {} /\ t.unopened = {} /\ t.extended = {}
  <2> DEFINE t == [pc |-> IF demo /\ Starter # <<>> THEN "category" ELSE "commit",
             demo |-> demo, group |-> 1,
             admin |-> IF account = "none" THEN "create" ELSE "repair",
             flushed |-> {}, missing |-> {}, unopened |-> {}, extended |-> {},
             undisturbed |-> TRUE]
  <2>1. t \in Transactions
    BY StarterTypes, CatalogueAssumption DEF Transactions, SeedSteps
  <2> QED BY <1>1, <2>1
<1>3. Starter # <<>> => 1 \in Groups
  <2>1. Starter \in Seq([name : STRING, slug : STRING, product : ProductNames])
    BY CatalogueAssumption
  <2> QED BY <2>1, StarterTypes DEF Groups
<1>4. Starter = <<>> => Groups = {}
  BY DEF Groups
<1>5. \A g \in Groups : ~ CategoryRead(t, g) /\ ~ ProductRead(t, g) /\ ~ CycleRead(t, g)
  BY <1>2 DEF Groups, CategoryRead, ProductRead, CycleRead
<1>6. /\ t.pc # "commit" => t.group \in Groups
      /\ t.pc = "commit" /\ t.demo => Groups = {}
  BY <1>2, <1>3, <1>4
<1>7. BootOK(t) /\ Knows(t)
  BY <1>2, <1>5, <1>6 DEF BootOK, Knows
<1> QED BY <1>2, <1>7, ReadStep DEF StartSeed

LEMMA CategoryReadStep ==
    ASSUME BaseInv, NEW b \in Instances, ReadCategory(b)
    PROVE  BaseInv' /\ (KnowledgeInv => KnowledgeInv')
<1>1. /\ TypeOK /\ Booting(b) /\ boot[b] \in Transactions /\ BootOK(boot[b])
      /\ boot[b].pc = "category" /\ boot[b].group \in Groups
      /\ UNCHANGED <<tables, request>>
  BY BootTypes DEF BaseInv, ReadCategory, Step, Booting, SeedSteps, BootOK
<1>2. PICK t \in Transactions :
          /\ boot' = [boot EXCEPT ![b] = t]
          /\ t.pc \in {"product", "insert"}
          /\ t.pc = "product" => HasSlug(Starter[t.group].slug)
          /\ t.group = boot[b].group /\ t.flushed = boot[b].flushed
          /\ t.missing = boot[b].missing /\ t.unopened = boot[b].unopened
          /\ t.extended = boot[b].extended
          /\ t.undisturbed = boot[b].undisturbed
  <2> DEFINE pc == IF HasSlug(Group(b).slug) THEN "product" ELSE "insert"
             t == [boot[b] EXCEPT !.pc = pc]
  <2>1. boot' = [boot EXCEPT ![b] = t]
    BY <1>1 DEF ReadCategory, Step, TypeOK
  <2>2. pc \in SeedSteps
    BY DEF SeedSteps
  <2>3. t \in Transactions /\ t.pc = pc
    BY <1>1, <2>2 DEF Transactions
  <2> QED BY <1>1, <2>1, <2>3 DEF Transactions, Group
<1>3. BootOK(t)
  BY <1>1, <1>2, StarterTypes
     DEF BootOK, CategoryRead, ProductRead, CycleRead, Provided, Transactions
<1>4. KnowledgeInv => (t.undisturbed => Knows(t))
  BY <1>1, <1>2 DEF KnowledgeInv, Knows, ProductRead, CycleRead, ProductKnown, CycleKnown
<1> QED BY <1>1, <1>2, <1>3, <1>4, ReadStep

LEMMA InsertStep ==
    ASSUME BaseInv, NEW b \in Instances, InsertCategory(b)
    PROVE  BaseInv' /\ (KnowledgeInv => KnowledgeInv')
<1>1. CASE Refuse(b)
  BY <1>1, EndStep
<1>2. CASE ~ Refuse(b)
  <2>1. /\ TypeOK /\ Booting(b) /\ boot[b] \in Transactions /\ BootOK(boot[b])
        /\ boot[b].pc = "insert" /\ boot[b].group \in Groups
        /\ UNCHANGED <<tables, request>>
    BY <1>2, BootTypes DEF BaseInv, InsertCategory, Booting, SeedSteps, BootOK
  <2>2. PICK t \in Transactions :
            /\ boot' = [boot EXCEPT ![b] = t]
            /\ t.pc = "product"
            /\ t.group = boot[b].group
            /\ t.flushed = boot[b].flushed \cup {boot[b].group}
            /\ t.missing = boot[b].missing /\ t.unopened = boot[b].unopened
            /\ t.extended = boot[b].extended
            /\ t.undisturbed = boot[b].undisturbed
    <3> DEFINE admin == IF boot[b].admin = "create" THEN "flushed" ELSE boot[b].admin
               flushed == boot[b].flushed \cup {boot[b].group}
               t == [boot[b] EXCEPT !.pc = "product", !.flushed = flushed,
                                    !.admin = admin]
    <3>1. boot' = [boot EXCEPT ![b] = t]
      BY <1>2, <2>1 DEF InsertCategory, TypeOK
    <3>2. admin \in {"create", "flushed", "repair"} /\ flushed \in SUBSET Groups
      BY <2>1 DEF Transactions
    <3>3. t \in Transactions
      BY <2>1, <3>2 DEF Transactions, SeedSteps
    <3> QED BY <2>1, <3>1, <3>3 DEF Transactions
  <2>3. BootOK(t)
    BY <2>1, <2>2, StarterTypes
       DEF BootOK, CategoryRead, ProductRead, CycleRead, Provided, Transactions
  <2>4. KnowledgeInv => (t.undisturbed => Knows(t))
    BY <2>1, <2>2 DEF KnowledgeInv, Knows, ProductRead, CycleRead, ProductKnown, CycleKnown
  <2> QED BY <2>1, <2>2, <2>3, <2>4, ReadStep
<1> QED BY <1>1, <1>2

LEMMA ProductReadStep ==
    ASSUME BaseInv, NEW b \in Instances, ReadProduct(b)
    PROVE  BaseInv' /\ (KnowledgeInv => KnowledgeInv')
<1>1. CASE Refuse(b)
  BY <1>1, EndStep
<1>2. CASE ~ Refuse(b)
  <2>1. /\ TypeOK /\ Booting(b) /\ boot[b] \in Transactions /\ BootOK(boot[b])
        /\ boot[b].pc = "product" /\ boot[b].group \in Groups
        /\ UNCHANGED <<tables, request>>
    BY <1>2, BootTypes DEF BaseInv, ReadProduct, Booting, SeedSteps, BootOK
  <2>2. PICK found : /\ found = ProductsLike(Group(b).product, Group(b).slug)
                     /\ found = {} \/ \E p \in Products : found = {p}
    <3> DEFINE found == ProductsLike(Group(b).product, Group(b).slug)
    <3>1. ~ (Cardinality(found) > 1)
      BY <1>2 DEF ReadProduct
    <3>2. found \subseteq Products /\ IsFiniteSet(found)
      BY LookupsFinite
    <3> HIDE DEF found
    <3>3. found = {} \/ \E p \in found : found = {p}
      BY <3>1, <3>2, AtMostOne
    <3>4. found = {} \/ \E p \in Products : found = {p}
      BY <3>2, <3>3
    <3> QED BY <3>4 DEF found
  <2>3. PICK t \in Transactions :
            /\ boot' = [boot EXCEPT ![b] = t]
            /\ t.pc = "cycle"
            /\ t.group = boot[b].group /\ t.flushed = boot[b].flushed
            /\ t.missing = boot[b].missing
                              \cup IF found = {} THEN {boot[b].group} ELSE {}
            /\ t.unopened = boot[b].unopened
            /\ t.extended = boot[b].extended
            /\ t.undisturbed = boot[b].undisturbed
    <3> DEFINE missing == boot[b].missing
                              \cup IF found = {} THEN {boot[b].group} ELSE {}
               t == [boot[b] EXCEPT !.pc = "cycle", !.missing = missing]
    <3>1. boot' = [boot EXCEPT ![b] = t]
      BY <1>2, <2>1, <2>2 DEF ReadProduct, TypeOK
    <3>2. missing \in SUBSET Groups
      BY <2>1 DEF Transactions
    <3>3. t \in Transactions
      BY <2>1, <3>2 DEF Transactions, SeedSteps
    <3> QED BY <2>1, <3>1, <3>3 DEF Transactions
  <2>4. BootOK(t)
    BY <2>1, <2>3, StarterTypes
       DEF BootOK, CategoryRead, ProductRead, CycleRead, Provided, Transactions
  <2>5. ASSUME KnowledgeInv, t.undisturbed PROVE Knows(t)
    <3>1. Knows(boot[b])
      BY <2>1, <2>3, <2>5 DEF KnowledgeInv
    <3>2. ASSUME NEW g \in Groups, ProductRead(t, g)
          PROVE  ProductKnown(t, g)
      <4>1. CASE g = boot[b].group
        <5>1. g \notin boot[b].missing
          BY <2>1, <4>1, StarterTypes DEF BootOK, ProductRead
        <5> QED BY <2>2, <2>3, <4>1, <5>1 DEF ProductKnown, Group
      <4>2. CASE g # boot[b].group
        <5>1. ProductKnown(boot[b], g) /\ (g \in t.missing <=> g \in boot[b].missing)
          BY <2>3, <3>1, <3>2, <4>2 DEF Knows, ProductRead
        <5> QED BY <5>1 DEF ProductKnown
      <4> QED BY <4>1, <4>2
    <3>3. ASSUME NEW g \in Groups, CycleRead(t, g)
          PROVE  CycleKnown(t, g)
      BY <2>3, <3>1, <3>3 DEF Knows, CycleRead, CycleKnown
    <3> QED BY <3>2, <3>3 DEF Knows
  <2> QED BY <2>1, <2>3, <2>4, <2>5, ReadStep
<1> QED BY <1>1, <1>2

LEMMA CycleReadStep ==
    ASSUME BaseInv, NEW b \in Instances, ReadCycle(b)
    PROVE  BaseInv' /\ (KnowledgeInv => KnowledgeInv')
<1>1. CASE Refuse(b)
  BY <1>1, EndStep
<1>2. CASE ~ Refuse(b)
  <2>1. /\ TypeOK /\ Booting(b) /\ boot[b] \in Transactions /\ BootOK(boot[b])
        /\ boot[b].pc = "cycle" /\ boot[b].group \in Groups
        /\ UNCHANGED <<tables, request>>
    BY <1>2, BootTypes DEF BaseInv, ReadCycle, Booting, SeedSteps, BootOK
  <2>2. PICK found : /\ found = OpenCycles(Group(b).slug)
                     /\ found = {} \/ \E c \in Cycles : found = {c}
                     /\ \A c \in found : c \in Cycles /\ cycle[c] # NoRow
    <3> DEFINE found == OpenCycles(Group(b).slug)
    <3>1. ~ (Cardinality(found) > 1)
      BY <1>2 DEF ReadCycle
    <3>2. found \subseteq Cycles /\ IsFiniteSet(found)
      BY LookupsFinite
    <3>3. \A c \in found : c \in Cycles /\ cycle[c] # NoRow
      BY DEF OpenCycles
    <3> HIDE DEF found
    <3>4. found = {} \/ \E c \in found : found = {c}
      BY <3>1, <3>2, AtMostOne
    <3>5. found = {} \/ \E c \in Cycles : found = {c}
      BY <3>2, <3>4
    <3> QED BY <3>3, <3>5 DEF found
  <2>3. PICK t \in Transactions :
            /\ boot' = [boot EXCEPT ![b] = t]
            /\ t.pc = IF boot[b].group = Len(Starter) THEN "commit" ELSE "category"
            /\ t.group = boot[b].group + 1 /\ t.flushed = boot[b].flushed
            /\ t.missing = boot[b].missing
            /\ t.unopened = boot[b].unopened
                              \cup IF found = {} THEN {boot[b].group} ELSE {}
            /\ t.extended = boot[b].extended \cup {c \in found : cycle[c].past}
            /\ t.undisturbed = boot[b].undisturbed
    <3> DEFINE pc == IF boot[b].group = Len(Starter) THEN "commit" ELSE "category"
               unopened == boot[b].unopened
                              \cup IF found = {} THEN {boot[b].group} ELSE {}
               extended == boot[b].extended \cup {c \in found : cycle[c].past}
               t == [boot[b] EXCEPT !.pc = pc, !.group = boot[b].group + 1,
                                    !.unopened = unopened, !.extended = extended]
    <3>1. boot' = [boot EXCEPT ![b] = t]
      BY <1>2, <2>1, <2>2 DEF ReadCycle, TypeOK
    <3>2. unopened \in SUBSET Groups /\ extended \in SUBSET Cycles
      BY <2>1, <2>2 DEF Transactions
    <3>3. boot[b].group + 1 \in 1..(Len(Starter) + 1) /\ pc \in SeedSteps
      BY <2>1, StarterTypes DEF SeedSteps
    <3>4. t \in Transactions
      BY <2>1, <3>2, <3>3 DEF Transactions
    <3> QED BY <2>1, <3>1, <3>4 DEF Transactions
  <2>4. \A g \in Groups :
           /\ g < t.group <=> g < boot[b].group \/ g = boot[b].group
           /\ g < t.group <=> CategoryRead(boot[b], g)
           /\ g < t.group <=> ProductRead(boot[b], g)
           /\ CategoryRead(t, g) <=> g < t.group
           /\ ProductRead(t, g) <=> g < t.group
    BY <2>1, <2>3, StarterTypes DEF CategoryRead, ProductRead
  <2>5. BootOK(t)
    <3>1. /\ t.pc # "commit" => t.group \in Groups
          /\ t.pc = "commit" => \A g \in Groups : CycleRead(t, g)
      BY <2>1, <2>3, StarterTypes DEF Groups, CycleRead
    <3>2. \A g \in Groups : CategoryRead(t, g) => Provided(t, g)
      BY <2>1, <2>3, <2>4 DEF BootOK, Provided
    <3>3. \A g \in t.missing : ProductRead(t, g)
      BY <2>1, <2>3, <2>4 DEF BootOK, Transactions
    <3>4. \A g \in t.unopened : CycleRead(t, g)
      BY <2>1, <2>3, <2>4 DEF BootOK, CycleRead, Transactions
    <3>5. \A c \in t.extended : cycle[c] # NoRow
      BY <2>1, <2>2, <2>3 DEF BootOK
    <3> QED BY <3>1, <3>2, <3>3, <3>4, <3>5 DEF BootOK
  <2>6. ASSUME KnowledgeInv, t.undisturbed PROVE Knows(t)
    <3>1. Knows(boot[b])
      BY <2>1, <2>3, <2>6 DEF KnowledgeInv
    <3>2. ASSUME NEW g \in Groups, ProductRead(t, g)
          PROVE  ProductKnown(t, g)
      BY <2>3, <2>4, <3>1, <3>2 DEF Knows, ProductKnown
    <3>3. ASSUME NEW g \in Groups, CycleRead(t, g)
          PROVE  CycleKnown(t, g)
      <4>1. CASE g = boot[b].group
        <5>1. g \notin boot[b].unopened
          BY <2>1, <4>1, StarterTypes DEF BootOK, CycleRead
        <5> QED BY <2>2, <2>3, <4>1, <5>1 DEF CycleKnown, Group
      <4>2. CASE g # boot[b].group
        <5>1. CycleKnown(boot[b], g) /\ (g \in t.unopened <=> g \in boot[b].unopened)
          BY <2>3, <2>4, <3>1, <3>3, <4>2 DEF Knows, CycleRead
        <5> QED BY <2>3, <5>1 DEF CycleKnown
      <4> QED BY <4>1, <4>2
    <3> QED BY <3>2, <3>3 DEF Knows
  <2> QED BY <2>1, <2>3, <2>5, <2>6, ReadStep
<1> QED BY <1>1, <1>2
-----------------------------------------------------------------------------
(* The commit of the seed.                                                 *)

LEMMA Inserted ==
    ASSUME NEW S, NEW T, NEW ids \in Injection(S, T), NEW g \in S
    PROVE  /\ ids[g] \in T
           /\ \E h \in S : ids[h] = ids[g]
           /\ (CHOOSE h \in S : ids[h] = ids[g]) = g
<1>1. ids \in [S -> T] /\ \A h \in S : ids[h] = ids[g] => h = g
  BY DEF Injection, IsInjective
<1>2. PICK h \in S : h = CHOOSE k \in S : ids[k] = ids[g]
  OBVIOUS
<1>3. ids[h] = ids[g]
  BY <1>2
<1> QED BY <1>1, <1>2, <1>3

\* The rows that the commit of transaction t inserts, under the ids it is
\* given, and those it leaves or extends.
ProductsInserted(t, ids) ==
    /\ \A g \in t.missing :
          /\ ids[g] \in Products /\ product[ids[g]] = NoRow
          /\ product'[ids[g]] = [name |-> Starter[g].product,
                                 category |-> Starter[g].slug]
    /\ \A p \in Products :
          \/ product'[p] = product[p]
          \/ \E g \in t.missing : ids[g] = p

CyclesInserted(t, ids) ==
    /\ \A g \in t.unopened :
          /\ ids[g] \in Cycles /\ cycle[ids[g]] = NoRow
          /\ cycle'[ids[g]] = [category |-> Starter[g].slug,
                               status |-> "open", past |-> FALSE]
    /\ \A c \in Cycles :
          \/ /\ cycle[c] # NoRow
             /\ cycle'[c] # NoRow
             /\ cycle'[c].category = cycle[c].category
             /\ cycle'[c].status = cycle[c].status
             /\ cycle'[c].past = IF c \in t.extended THEN FALSE ELSE cycle[c].past
          \/ cycle[c] = NoRow /\ cycle'[c] = NoRow
          \/ \E g \in t.unopened : ids[g] = c

LEMMA CommitTypes ==
    ASSUME BaseInv, NEW b \in Instances, boot[b].pc = "commit"
    PROVE  TypeOK /\ Booting(b) /\ boot[b] \in Transactions /\ BootOK(boot[b])
BY BootTypes DEF BaseInv, Booting, SeedSteps

LEMMA CommitProducts ==
    ASSUME BaseInv, NEW b \in Instances, CommitSeed(b), ~ Refuse(b)
    PROVE  /\ product' \in [Products -> ProductRows \cup {NoRow}]
           /\ \E ids : ProductsInserted(boot[b], ids)
<1>1. TypeOK /\ boot[b] \in Transactions
  BY CommitTypes DEF CommitSeed
<1> DEFINE fresh == {p \in DOMAIN product : product[p] = NoRow}
           row(g) == [name |-> Starter[g].product, category |-> Starter[g].slug]
<1>2. PICK ids \in Injection(boot[b].missing, fresh) :
             product' = [p \in Products |->
                   IF \E g \in boot[b].missing : ids[g] = p
                   THEN row(CHOOSE g \in boot[b].missing : ids[g] = p)
                   ELSE product[p]]
  BY DEF CommitSeed, FreshIds
<1>3. \A g \in boot[b].missing : row(g) \in ProductRows
  BY <1>1, StarterTypes DEF Transactions, ProductRows
<1> HIDE DEF row
<1>4. ASSUME NEW g \in boot[b].missing
      PROVE  /\ ids[g] \in Products /\ product[ids[g]] = NoRow
             /\ product'[ids[g]] = row(g)
  <2>1. ids[g] \in fresh /\ (\E h \in boot[b].missing : ids[h] = ids[g])
        /\ (CHOOSE h \in boot[b].missing : ids[h] = ids[g]) = g
    BY Inserted
  <2>2. ids[g] \in Products /\ product[ids[g]] = NoRow
    BY <1>1, <2>1 DEF TypeOK
  <2>3. product'[ids[g]] = row(CHOOSE h \in boot[b].missing : ids[h] = ids[g])
    BY <1>2, <2>1, <2>2
  <2> QED BY <2>1, <2>2, <2>3
<1>5. ASSUME NEW p \in Products
      PROVE  product'[p] = product[p] \/ \E g \in boot[b].missing : ids[g] = p
  BY <1>2
<1>6. \A p \in Products : product'[p] \in ProductRows \cup {NoRow}
  BY <1>1, <1>3, <1>4, <1>5 DEF TypeOK
<1>7. product' \in [Products -> ProductRows \cup {NoRow}]
  BY <1>2, <1>6
<1>8. ProductsInserted(boot[b], ids)
  BY <1>4, <1>5 DEF ProductsInserted, row
<1> QED BY <1>7, <1>8

LEMMA CommitCycles ==
    ASSUME BaseInv, NEW b \in Instances, CommitSeed(b), ~ Refuse(b)
    PROVE  /\ cycle' \in [Cycles -> CycleRows \cup {NoRow}]
           /\ \E ids : CyclesInserted(boot[b], ids)
<1>1. TypeOK /\ boot[b] \in Transactions /\ BootOK(boot[b])
  BY CommitTypes DEF CommitSeed
<1> DEFINE fresh == {c \in DOMAIN cycle : cycle[c] = NoRow}
           row(g) == [category |-> Starter[g].slug, status |-> "open", past |-> FALSE]
<1>2. PICK ids \in Injection(boot[b].unopened, fresh) :
             cycle' = [c \in Cycles |->
                   IF \E g \in boot[b].unopened : ids[g] = c
                   THEN row(CHOOSE g \in boot[b].unopened : ids[g] = c)
                   ELSE IF c \in boot[b].extended THEN Extend(c)
                   ELSE cycle[c]]
  BY DEF CommitSeed, FreshIds
<1>3. \A g \in boot[b].unopened : row(g) \in CycleRows
  BY <1>1, StarterTypes, NewRows DEF Transactions, CycleStatuses
<1> HIDE DEF row
<1>4. ASSUME NEW g \in boot[b].unopened
      PROVE  /\ ids[g] \in Cycles /\ cycle[ids[g]] = NoRow
             /\ cycle'[ids[g]] = row(g)
  <2>1. ids[g] \in fresh /\ (\E h \in boot[b].unopened : ids[h] = ids[g])
        /\ (CHOOSE h \in boot[b].unopened : ids[h] = ids[g]) = g
    BY Inserted
  <2>2. ids[g] \in Cycles /\ cycle[ids[g]] = NoRow
    BY <1>1, <2>1 DEF TypeOK
  <2>3. cycle'[ids[g]] = row(CHOOSE h \in boot[b].unopened : ids[h] = ids[g])
    BY <1>2, <2>1, <2>2
  <2> QED BY <2>1, <2>2, <2>3
<1>5. ASSUME NEW c \in Cycles, ~ \E g \in boot[b].unopened : ids[g] = c
      PROVE  /\ cycle'[c] \in CycleRows \cup {NoRow}
             /\ \/ /\ cycle[c] # NoRow /\ cycle'[c] # NoRow
                   /\ cycle'[c].category = cycle[c].category
                   /\ cycle'[c].status = cycle[c].status
                   /\ cycle'[c].past = IF c \in boot[b].extended THEN FALSE ELSE cycle[c].past
                \/ cycle[c] = NoRow /\ cycle'[c] = NoRow
  <2>1. CASE c \in boot[b].extended
    <3>1. cycle[c] # NoRow
      BY <1>1, <2>1 DEF BootOK
    <3>2. cycle'[c] = [cycle[c] EXCEPT !.past = FALSE]
      BY <1>2, <1>5, <2>1 DEF Extend
    <3>3. /\ cycle'[c] \in CycleRows /\ cycle'[c].past = FALSE
          /\ cycle'[c].category = cycle[c].category
          /\ cycle'[c].status = cycle[c].status
      BY <3>1, <3>2, ExistingRow
    <3> QED BY <2>1, <3>1, <3>3, RowTypes
  <2>2. CASE c \notin boot[b].extended
    <3>1. cycle'[c] = cycle[c]
      BY <1>2, <1>5, <2>2
    <3> QED BY <1>1, <2>2, <3>1 DEF TypeOK
  <2> QED BY <2>1, <2>2
<1>6. \A c \in Cycles : cycle'[c] \in CycleRows \cup {NoRow}
  BY <1>3, <1>4, <1>5
<1>7. cycle' \in [Cycles -> CycleRows \cup {NoRow}]
  BY <1>2, <1>6
<1>8. CyclesInserted(boot[b], ids)
  BY <1>4, <1>5 DEF CyclesInserted, row
<1> QED BY <1>7, <1>8

\* After the commit, each group it has gone through has its category.
LEMMA CommitCategories ==
    ASSUME BaseInv, NEW b \in Instances, CommitSeed(b), ~ Refuse(b)
    PROVE  /\ categories \subseteq categories' /\ categories' \subseteq CategoryRows
           /\ \A g \in Groups : CategoryRead(boot[b], g) => HasSlug(Starter[g].slug)'
<1>1. TypeOK /\ boot[b] \in Transactions /\ BootOK(boot[b])
  BY CommitTypes DEF CommitSeed
<1>2. PICK t \in Transactions : t = boot[b]
  BY <1>1
<1>3. categories' = categories \cup
                 {[name |-> Starter[g].name, slug |-> Starter[g].slug] : g \in t.flushed}
  BY <1>2 DEF CommitSeed
<1>4. \A g \in t.flushed :
         [name |-> Starter[g].name, slug |-> Starter[g].slug] \in CategoryRows
  BY StarterTypes DEF Transactions, CategoryRows
<1>5. ASSUME NEW g \in Groups, CategoryRead(t, g)
      PROVE  HasSlug(Starter[g].slug)'
  <2>1. CASE HasSlug(Starter[g].slug)
    BY <1>3, <2>1 DEF HasSlug
  <2>2. CASE g \in t.flushed
    <3>1. [name |-> Starter[g].name, slug |-> Starter[g].slug] \in categories'
      BY <1>3, <2>2
    <3> QED BY <3>1 DEF HasSlug
  <2> QED BY <1>1, <1>2, <1>5, <2>1, <2>2 DEF BootOK, Provided
<1> QED BY <1>1, <1>2, <1>3, <1>4, <1>5 DEF TypeOK

LEMMA CommitSeedStep ==
    ASSUME BaseInv, KnowledgeInv, NEW b \in Instances, CommitSeed(b)
    PROVE  BaseInv' /\ KnowledgeInv'
<1>1. CASE Refuse(b)
  BY <1>1, EndStep
<1>2. CASE ~ Refuse(b)
  <2>1. TypeOK /\ boot[b] \in Transactions /\ BootOK(boot[b])
    BY CommitTypes DEF CommitSeed
  <2>2. PICK t \in Transactions : t = boot[b] /\ BootOK(t)
    BY <2>1
  <2>3. PICK pids : ProductsInserted(t, pids)
    BY <1>2, <2>2, CommitProducts
  <2>4. PICK cids : CyclesInserted(t, cids)
    BY <1>2, <2>2, CommitCycles
  <2>5. \A g \in Groups : CategoryRead(t, g) => HasSlug(Starter[g].slug)'
    BY <1>2, <2>2, CommitCategories
  <2>6. \A s : HasSlug(s) => HasSlug(s)'
    BY <1>2, CommitCategories, CategoriesStay
  <2>7. \A g \in t.missing \cup t.unopened : HasSlug(Starter[g].slug)'
    BY <2>2, <2>5 DEF BootOK, CategoryRead, ProductRead, CycleRead, Transactions
  <2>8. \A p \in Products : product'[p] # NoRow =>
           \E s : HasSlug(s)' /\ product'[p].category = s
    <3> SUFFICES ASSUME NEW p \in Products, product'[p] # NoRow
                 PROVE  \E s : HasSlug(s)' /\ product'[p].category = s
      OBVIOUS
    <3>1. CASE product'[p] = product[p]
      BY <2>1, <2>6, <3>1 DEF TypeOK
    <3>2. CASE \E g \in t.missing : pids[g] = p
      <4>1. PICK g \in t.missing : pids[g] = p
        BY <3>2
      <4>2. product'[p] = [name |-> Starter[g].product, category |-> Starter[g].slug]
        BY <2>3, <4>1 DEF ProductsInserted
      <4>3. product'[p].category = Starter[g].slug
        BY <4>2
      <4> QED BY <2>7, <4>3
    <3> QED BY <2>3, <3>1, <3>2 DEF ProductsInserted
  <2>9. \A c \in Cycles :
           /\ cycle'[c] # NoRow => \E s : HasSlug(s)' /\ cycle'[c].category = s
           /\ cycle[c] # NoRow => cycle'[c] # NoRow
    <3> TAKE c \in Cycles
    <3>1. CASE cycle[c] # NoRow /\ cycle'[c] # NoRow
                  /\ cycle'[c].category = cycle[c].category
      BY <2>1, <2>6, <3>1 DEF TypeOK
    <3>2. CASE \E g \in t.unopened : cids[g] = c
      <4>1. PICK g \in t.unopened : cids[g] = c
        BY <3>2
      <4>2. cycle'[c] = [category |-> Starter[g].slug, status |-> "open", past |-> FALSE]
            /\ cycle[c] = NoRow
        BY <2>4, <4>1 DEF CyclesInserted
      <4>3. cycle'[c].category = Starter[g].slug
        BY <4>2
      <4> QED BY <2>7, <4>2, <4>3
    <3> QED BY <2>4, <3>1, <3>2 DEF CyclesInserted
  <2>10. References'
    BY <2>8, <2>9 DEF References, HasSlug
  <2>11. /\ account' = "admin" /\ UNCHANGED request
         /\ boot' = [i \in Instances |->
                          IF i = b THEN At("serving") ELSE Disturbed(i)]
    BY <1>2 DEF CommitSeed
  <2>12. /\ product' \in [Products -> ProductRows \cup {NoRow}]
         /\ cycle' \in [Cycles -> CycleRows \cup {NoRow}]
         /\ categories \subseteq categories' /\ categories' \subseteq CategoryRows
    BY <1>2, CommitProducts, CommitCycles, CommitCategories
  <2> QED BY <2>1, <2>9, <2>10, <2>11, <2>12, WriteStep DEF TypeOK
<1> QED BY <1>1, <1>2
-----------------------------------------------------------------------------
(* What the commit of an undisturbed boot leaves of each group.            *)

LEMMA GroupsDiffer ==
    \A g, h \in Groups : Starter[g].slug = Starter[h].slug => g = h
BY CatalogueAssumption

LEMMA OneProduct ==
    ASSUME BaseInv, NEW t \in Transactions, NEW ids, ProductsInserted(t, ids),
           NEW g \in Groups, ProductKnown(t, g)
    PROVE  \E x \in Products : ProductsLike(Starter[g].product, Starter[g].slug)' = {x}
<1> DEFINE row(h) == [name |-> Starter[h].product, category |-> Starter[h].slug]
<1>1. /\ \A p \in Products : p \in ProductsLike(Starter[g].product, Starter[g].slug)
                               <=> product[p] # NoRow /\ product[p] = row(g)
      /\ \A p \in Products : p \in ProductsLike(Starter[g].product, Starter[g].slug)'
                               <=> product'[p] # NoRow /\ product'[p] = row(g)
      /\ ProductsLike(Starter[g].product, Starter[g].slug) \subseteq Products
      /\ ProductsLike(Starter[g].product, Starter[g].slug)' \subseteq Products
  BY DEF ProductsLike
<1>2. \A h \in Groups : row(h) = row(g) => h = g
  BY GroupsDiffer
<1>3. t.missing \subseteq Groups /\ \A h \in Groups : row(h) # NoRow
  BY StarterTypes, RowTypes DEF Transactions, ProductRows
<1>4. /\ \A h \in t.missing :
            ids[h] \in Products /\ product[ids[h]] = NoRow /\ product'[ids[h]] = row(h)
      /\ \A p \in Products :
            product'[p] = product[p] \/ \E h \in t.missing : ids[h] = p
  BY DEF ProductsInserted
<1> HIDE DEF row
<1>5. CASE g \in t.missing
  <2>1. ProductsLike(Starter[g].product, Starter[g].slug) = {}
    BY <1>5 DEF ProductKnown
  <2>2. ids[g] \in ProductsLike(Starter[g].product, Starter[g].slug)'
    BY <1>1, <1>3, <1>4, <1>5
  <2>3. ASSUME NEW p \in ProductsLike(Starter[g].product, Starter[g].slug)'
        PROVE  p = ids[g]
    <3>1. p \in Products /\ product'[p] # NoRow /\ product'[p] = row(g)
      BY <1>1
    <3>2. PICK h \in t.missing : ids[h] = p
      BY <1>1, <1>4, <2>1, <3>1
    <3>3. row(h) = row(g)
      BY <1>4, <3>1, <3>2
    <3> QED BY <1>2, <1>3, <3>2, <3>3
  <2>4. ProductsLike(Starter[g].product, Starter[g].slug)' = {ids[g]}
    BY <2>2, <2>3
  <2> QED BY <1>4, <1>5, <2>4
<1>6. CASE g \notin t.missing
  <2>1. PICK x \in Products :
               ProductsLike(Starter[g].product, Starter[g].slug) = {x}
    BY <1>6 DEF ProductKnown
  <2>2. product[x] # NoRow /\ product[x] = row(g)
    BY <1>1, <2>1
  <2>3. product'[x] = product[x]
    BY <1>4, <2>2
  <2>4. ASSUME NEW p \in ProductsLike(Starter[g].product, Starter[g].slug)'
        PROVE  p = x
    <3>1. p \in Products /\ product'[p] # NoRow /\ product'[p] = row(g)
      BY <1>1
    <3>2. CASE product'[p] = product[p]
      BY <1>1, <2>1, <3>1, <3>2
    <3>3. ASSUME NEW h \in t.missing, ids[h] = p PROVE FALSE
      <4>1. row(h) = row(g)
        BY <1>4, <3>1, <3>3
      <4> QED BY <1>2, <1>3, <1>6, <3>3, <4>1
    <3> QED BY <1>4, <3>1, <3>2, <3>3
  <2>5. x \in ProductsLike(Starter[g].product, Starter[g].slug)'
    BY <1>1, <2>2, <2>3
  <2>6. ProductsLike(Starter[g].product, Starter[g].slug)' = {x}
    BY <2>4, <2>5
  <2> QED BY <2>1, <2>6
<1> QED BY <1>5, <1>6

LEMMA OneOpenCycle ==
    ASSUME BaseInv, NEW t \in Transactions, NEW ids, CyclesInserted(t, ids),
           NEW g \in Groups, CycleKnown(t, g)
    PROVE  \E x \in Cycles : OpenCycles(Starter[g].slug)' = {x} /\ ~ cycle'[x].past
<1> DEFINE row(h) == [category |-> Starter[h].slug, status |-> "open", past |-> FALSE]
           slug == Starter[g].slug
<1>1. /\ \A c \in Cycles : c \in OpenCycles(slug)
                             <=> /\ cycle[c] # NoRow /\ cycle[c].category = slug
                                 /\ cycle[c].status = "open"
      /\ \A c \in Cycles : c \in OpenCycles(slug)'
                             <=> /\ cycle'[c] # NoRow /\ cycle'[c].category = slug
                                 /\ cycle'[c].status = "open"
      /\ OpenCycles(slug) \subseteq Cycles
      /\ OpenCycles(slug)' \subseteq Cycles
  BY DEF OpenCycles
<1>2. \A h \in Groups : /\ row(h).category = slug => h = g
                        /\ row(h).status = "open" /\ ~ row(h).past
  BY GroupsDiffer
<1>3. t.unopened \subseteq Groups /\ \A h \in Groups : row(h) # NoRow
  BY StarterTypes, RowTypes DEF Transactions, CycleRows, CycleStatuses
<1>4. /\ \A h \in t.unopened :
            ids[h] \in Cycles /\ cycle[ids[h]] = NoRow /\ cycle'[ids[h]] = row(h)
      /\ \A c \in Cycles :
            \/ /\ cycle[c] # NoRow /\ cycle'[c] # NoRow
               /\ cycle'[c].category = cycle[c].category
               /\ cycle'[c].status = cycle[c].status
               /\ cycle'[c].past = IF c \in t.extended THEN FALSE ELSE cycle[c].past
            \/ cycle[c] = NoRow /\ cycle'[c] = NoRow
            \/ \E h \in t.unopened : ids[h] = c
  BY DEF CyclesInserted
<1>5. row(g).category = slug
  OBVIOUS
<1>6. CycleKnown(t, g) <=>
         IF g \in t.unopened THEN OpenCycles(slug) = {}
         ELSE \E c \in Cycles : /\ OpenCycles(slug) = {c}
                                /\ (cycle[c].past => c \in t.extended)
  BY DEF CycleKnown
<1> HIDE DEF row, slug
<1>7. \A c \in OpenCycles(slug)' :
         \/ /\ c \in OpenCycles(slug)
            /\ cycle'[c].past = IF c \in t.extended THEN FALSE ELSE cycle[c].past
         \/ g \in t.unopened /\ ids[g] = c
  <2> TAKE c \in OpenCycles(slug)'
  <2>1. /\ c \in Cycles /\ cycle'[c] # NoRow /\ cycle'[c].category = slug
        /\ cycle'[c].status = "open"
    BY <1>1
  <2>2. ASSUME NEW h \in t.unopened, ids[h] = c PROVE h = g
    <3>1. cycle'[c] = row(h)
      BY <1>4, <2>2
    <3> QED BY <1>2, <1>3, <2>1, <3>1
  <2> QED BY <1>1, <1>4, <2>1, <2>2
<1>8. CASE g \in t.unopened
  <2>1. OpenCycles(slug) = {}
    BY <1>6, <1>8
  <2>2. ids[g] \in OpenCycles(slug)' /\ ~ cycle'[ids[g]].past
    BY <1>1, <1>2, <1>3, <1>4, <1>5, <1>8
  <2>3. OpenCycles(slug)' = {ids[g]}
    BY <1>7, <2>1, <2>2
  <2> QED BY <1>4, <1>8, <2>2, <2>3 DEF slug
<1>9. CASE g \notin t.unopened
  <2>1. PICK x \in Cycles : /\ OpenCycles(slug) = {x}
                            /\ (cycle[x].past => x \in t.extended)
    BY <1>6, <1>9
  <2>2. /\ cycle[x] # NoRow /\ cycle[x].category = slug
        /\ cycle[x].status = "open"
    BY <1>1, <2>1
  <2>3. x \in OpenCycles(slug)'
    <3>1. ~ \E h \in t.unopened : ids[h] = x
      BY <1>4, <2>2
    <3>2. /\ cycle'[x] # NoRow /\ cycle'[x].category = slug
          /\ cycle'[x].status = "open"
      BY <1>4, <2>2, <3>1
    <3> QED BY <1>1, <3>2
  <2>4. cycle'[x].past = IF x \in t.extended THEN FALSE ELSE cycle[x].past
    BY <1>7, <1>9, <2>3
  <2>5. OpenCycles(slug)' = {x}
    BY <1>7, <1>9, <2>1, <2>3
  <2>6. ~ cycle'[x].past
    BY <2>1, <2>4
  <2> QED BY <2>1, <2>5, <2>6 DEF slug
<1> QED BY <1>8, <1>9

LEMMA CommitStocks ==
    ASSUME BaseInv, KnowledgeInv, NEW b \in Instances, CommitSeed(b), ~ Refuse(b),
           boot[b].demo, boot[b].undisturbed
    PROVE  Stocked'
<1>1. PICK t \in Transactions : /\ t = boot[b] /\ BootOK(t) /\ Knows(t)
                                /\ t.pc = "commit" /\ t.demo
  BY CommitTypes DEF CommitSeed, KnowledgeInv
<1>2. PICK pids : ProductsInserted(t, pids)
  BY <1>1, CommitProducts
<1>3. PICK cids : CyclesInserted(t, cids)
  BY <1>1, CommitCycles
<1>4. SUFFICES ASSUME NEW g \in Groups
               PROVE  /\ HasSlug(Starter[g].slug)'
                      /\ Cardinality(ProductsLike(Starter[g].product,
                                                  Starter[g].slug))' = 1
                      /\ \E c \in Cycles : /\ OpenCycles(Starter[g].slug)' = {c}
                                           /\ ~ cycle'[c].past
  BY DEF Stocked
<1>5. CategoryRead(t, g) /\ ProductRead(t, g) /\ CycleRead(t, g)
  BY <1>1 DEF BootOK, CategoryRead, ProductRead, CycleRead
<1>6. HasSlug(Starter[g].slug)'
  BY <1>1, <1>5, CommitCategories
<1>7. \E x \in Products : ProductsLike(Starter[g].product, Starter[g].slug)' = {x}
  BY <1>1, <1>2, <1>5, OneProduct DEF Knows
<1>8. \E c \in Cycles : OpenCycles(Starter[g].slug)' = {c} /\ ~ cycle'[c].past
  BY <1>1, <1>3, <1>5, OneOpenCycle DEF Knows
<1>9. Cardinality(ProductsLike(Starter[g].product, Starter[g].slug))' = 1
  BY <1>7, FS_Singleton
<1> QED BY <1>6, <1>8, <1>9
-----------------------------------------------------------------------------
(* The invariants, and the cycles.                                         *)

LEMMA CatalogueInvariance == Spec => [](BaseInv /\ KnowledgeInv)
<1>1. Init => BaseInv /\ KnowledgeInv
  <2> SUFFICES ASSUME Init PROVE BaseInv /\ KnowledgeInv
    OBVIOUS
  <2>1. \A b \in Instances : ~ Booting(b)
    BY OffTypes DEF Init, Booting
  <2>2. TypeOK /\ \A r \in Requests : request[r] = Idle
    BY DEF Init, TypeOK
  <2> QED BY <2>1, <2>2 DEF BaseInv, KnowledgeInv
<1>2. BaseInv /\ KnowledgeInv /\ [Next]_vars => BaseInv' /\ KnowledgeInv'
  <2> SUFFICES ASSUME BaseInv, KnowledgeInv, [Next]_vars
               PROVE  BaseInv' /\ KnowledgeInv'
    OBVIOUS
  <2>1. ASSUME NEW b \in Instances, Seed(b) \/ SkipSeed(b) \/ Stop(b)
        PROVE  BaseInv' /\ KnowledgeInv'
    BY <2>1, StartStep, CategoryReadStep, InsertStep, ProductReadStep,
       CycleReadStep, CommitSeedStep, EndStep DEF Seed
  <2>2. CASE Register \/ EditCatalogue
    BY <2>2, RegisterStep, CategoryStep, ProductStep DEF EditCatalogue
  <2>3. CASE EditCycle
    BY <2>3, CreateCycleStep, CommitStep, LookStep DEF EditCycle
  <2>4. ASSUME NEW c \in Cycles, WindowEnds(c)
        PROVE  BaseInv' /\ KnowledgeInv'
    BY <2>4, WindowStep
  <2>5. CASE UNCHANGED vars
    <3>1. UNCHANGED <<tables, boot>> /\ UNCHANGED request
      BY <2>5 DEF vars, tables
    <3> QED BY <3>1, RequestStep DEF BaseInv, TypeOK
  <2> QED BY <2>1, <2>2, <2>3, <2>4, <2>5 DEF Next
<1> QED BY <1>1, <1>2, PTL DEF Spec

\* Of an instance that is about to commit, and serves after the step, the
\* step was that commit.
LEMMA OnlyTheCommitServes ==
    ASSUME BaseInv, NEW b \in Instances, [Next]_vars,
           boot[b].pc = "commit", boot'[b].pc = "serving"
    PROVE  CommitSeed(b) /\ ~ Refuse(b)
<1>1. TypeOK /\ boot[b] \in Transactions /\ Booting(b)
  BY CommitTypes
<1>2. boot'[b] # boot[b]
  OBVIOUS
<1>3. boot'[b] # Disturbed(b)
  <2>1. Disturbed(b).pc = boot[b].pc
    BY <1>1 DEF Disturbed, Transactions
  <2> QED BY <2>1
<1>4. UNCHANGED boot \/ Disturb => FALSE
  BY <1>2, <1>3 DEF Disturb
<1>5. PICK i \in Instances : Seed(i) \/ SkipSeed(i) \/ Stop(i)
  BY <1>4 DEF Next, Register, EditCatalogue, CreateCategory, SaveProduct,
     DeleteProduct, EditCycle, CreateCycle, ReadForEdit, ReadForOpen, ReadForClose,
     FindNoConflict, CommitEdit, CommitOpen, CommitClose, WriteCycle, Rollback,
     WindowEnds, vars
<1>6. i = b
  <2> SUFFICES ASSUME i # b PROVE FALSE
    OBVIOUS
  <2>1. boot'[b] \in {boot[b], Disturbed(b)}
    BY <1>1, <1>5 DEF Seed, SkipSeed, Stop, StartSeed, ReadCategory, InsertCategory,
       ReadProduct, ReadCycle, CommitSeed, Refuse, Step, TypeOK
  <2> QED BY <1>2, <1>3, <2>1
<1>7. ~ Refuse(b) /\ ~ Stop(b)
  BY <1>1 DEF Refuse, Stop, TypeOK, At
<1> QED BY <1>5, <1>6, <1>7 DEF Seed, SkipSeed, StartSeed, ReadCategory,
       InsertCategory, ReadProduct, ReadCycle

\* The commit writes the window of cycles there are, and inserts others.
LEMMA CommitKeepsStatus ==
    ASSUME BaseInv, NEW b \in Instances, CommitSeed(b), ~ Refuse(b),
           NEW c \in Cycles, cycle[c] # NoRow
    PROVE  cycle'[c] # NoRow /\ cycle'[c].status = cycle[c].status
<1>1. PICK ids : CyclesInserted(boot[b], ids)
  BY CommitCycles
<1>2. ~ \E g \in boot[b].unopened : ids[g] = c
  BY <1>1 DEF CyclesInserted
<1> QED BY <1>1, <1>2 DEF CyclesInserted

-----------------------------------------------------------------------------

\* TypeOK: the tables, the seeds and the requests have their types, and what
\* a product or a cycle refers to exists.
THEOREM TypeCorrectness == Spec => []TypeOK
<1>1. BaseInv => TypeOK
  BY DEF BaseInv
<1> QED BY <1>1, CatalogueInvariance, PTL

\* BootsKeepCycleStatus: no boot, however long it takes and whatever requests
\* and other boots commit meanwhile, reopens a cycle or takes one back.
THEOREM BootsKeepCycles == Spec => BootsKeepCycleStatus
<1>1. BaseInv /\ [Next]_vars =>
        [\A b \in Instances, c \in Cycles :
          /\ boot[b].pc = "commit" /\ boot'[b].pc = "serving"
          /\ cycle[c] # NoRow
          => cycle'[c] # NoRow /\ cycle'[c].status = cycle[c].status]_vars
  BY OnlyTheCommitServes, CommitKeepsStatus
<1> QED BY <1>1, CatalogueInvariance, PTL DEF Spec, BootsKeepCycleStatus

\* BootStocksTheShop: an instance that seeds the catalogue undisturbed, and
\* is not refused, leaves each group with its category, its product once and
\* one open cycle in its window, whatever the tables held before.
THEOREM BootsStockTheShop == Spec => BootStocksTheShop
<1>1. BaseInv /\ KnowledgeInv /\ [Next]_vars =>
        [\A b \in Instances :
          /\ boot[b].pc = "commit" /\ boot[b].demo /\ boot[b].undisturbed
          /\ boot'[b].pc = "serving"
          => Stocked']_vars
  BY OnlyTheCommitServes, CommitStocks
<1> QED BY <1>1, CatalogueInvariance, PTL DEF Spec, BootStocksTheShop
=============================================================================
