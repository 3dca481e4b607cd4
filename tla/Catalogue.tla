------------------------------ MODULE Catalogue ------------------------------
(***************************************************************************)
(* The tables that decide what can be ordered (categories, products and    *)
(* procurement cycles), and the two that write them: the administrator's   *)
(* requests, and the seed that start.sh runs before every start of the     *)
(* API.  A new instance boots while an older one may still be serving, so  *)
(* the seed's one transaction overlaps with requests and with other boots. *)
(*                                                                         *)
(* Statements read what has been committed (READ COMMITTED).  The seed     *)
(* flushes only to insert a category; everything else it writes, it writes *)
(* at commit, and of a row it loaded only the columns it set.  A flushed   *)
(* row is not visible before commit, but its unique columns are taken.     *)
(*                                                                         *)
(* Abstractions: a group of the starter catalogue has one product, since   *)
(* each is looked up and added alike; of an order window only the end is   *)
(* kept, as past or not (the start only refuses a checkout); cycles with   *)
(* no category, which the seed never looks at, and the data of a product   *)
(* that is not part of a lookup (price, availability, image) are left out. *)
(* Deleting a product that carts or orders refer to fails and changes      *)
(* nothing, so a product may or may not be deleted.                        *)
(***************************************************************************)
EXTENDS Naturals, Sequences, FiniteSets, Functions

CONSTANTS
    Instances,      \* instances of the API: the old and the new one
    Requests,       \* administrator's requests that can be under way
    Products,       \* ids of products (bound)
    Cycles,         \* ids of cycles (bound)
    Names,          \* names an administrator gives a category
    Slugify,        \* the slug made from each name
    Starter,        \* DEMO_CATALOGUE: a sequence of [name, slug, product]
    ProductNames,   \* names of products
    DemoData,       \* values of SEED_DEMO_DATA
    NoRow           \* an id that no row has

Groups == 1..Len(Starter)
Slugs == {Slugify[n] : n \in Names} \cup {Starter[g].slug : g \in Groups}

CycleStatuses == {"draft", "open", "closed"}

CategoryRows == [name : Names \cup {Starter[g].name : g \in Groups}, slug : Slugs]
ProductRows == [name : ProductNames, category : Slugs]
CycleRows == [category : Slugs, status : CycleStatuses, past : BOOLEAN]

ASSUME CatalogueAssumption ==
    /\ IsFiniteSet(Products) /\ IsFiniteSet(Cycles)
    /\ NoRow \notin ProductRows \cup CycleRows
    /\ DOMAIN Slugify = Names
    /\ DemoData \subseteq BOOLEAN
    /\ Starter \in Seq([name : STRING, slug : STRING, product : ProductNames])
    /\ \A g, h \in Groups :
          g # h => /\ Starter[g].slug # Starter[h].slug
                   /\ Starter[g].name # Starter[h].name

VARIABLES
    account,        \* the account of SEED_ADMIN_EMAIL: "none", "customer"
                    \* or "admin"
    categories,     \* table categories: a set of [name, slug], the slug
                    \* standing for the id too
    product,        \* table products: [name, category], or NoRow
    cycle,          \* table procurement_cycles: [category, status, past],
                    \* or NoRow
    boot,           \* for each instance: how far start.sh is, and the
                    \* transaction of its seed
    request         \* for each request: what the handler has read

vars == <<account, categories, product, cycle, boot, request>>
tables == <<account, categories, product, cycle>>

\* A request not yet received, and an instance that holds no transaction.
Idle == [pc |-> "idle"]
At(pc) == [pc |-> pc]

SeedSteps == {"category", "insert", "product", "cycle", "commit"}
Booting(b) == boot[b].pc \in SeedSteps

\* The transaction of a seed: the group it is at, and what it will write.
Transactions ==
    [pc : SeedSteps, demo : BOOLEAN, group : 1..(Len(Starter) + 1),
     admin : {"create", "flushed", "repair"},
     flushed : SUBSET Groups, missing : SUBSET Groups,
     unopened : SUBSET Groups, extended : SUBSET Cycles,
     undisturbed : BOOLEAN]

CategoryNamed(n) == \E row \in categories : row.name = n
HasSlug(s) == \E row \in categories : row.slug = s
ProductsLike(n, s) ==
    {p \in Products : product[p] # NoRow /\ product[p] = [name |-> n, category |-> s]}
OpenCycles(s) ==
    {c \in Cycles : cycle[c] # NoRow /\ cycle[c].category = s
                                     /\ cycle[c].status = "open"}

\* Types, and the foreign keys: products and cycles are of categories that
\* exist.
TypeOK ==
    /\ account \in {"none", "customer", "admin"}
    /\ categories \subseteq CategoryRows
    /\ product \in [Products -> ProductRows \cup {NoRow}]
    /\ cycle \in [Cycles -> CycleRows \cup {NoRow}]
    /\ boot \in [Instances ->
                    Transactions \cup {At("off"), At("serving"), At("refused")}]
    /\ request \in [Requests ->
                       [pc : {"edit", "open", "opening", "close"}, cycle : Cycles]
                         \cup {Idle}]
    /\ \A p \in Products : product[p] # NoRow => HasSlug(product[p].category)
    /\ \A c \in Cycles : cycle[c] # NoRow => HasSlug(cycle[c].category)

\* An empty database and nothing running.
Init ==
    /\ account = "none"
    /\ categories = {}
    /\ product = [p \in Products |-> NoRow]
    /\ cycle = [c \in Cycles |-> NoRow]
    /\ boot = [b \in Instances |-> At("off")]
    /\ request = [r \in Requests |-> Idle]

\* What someone else commits while an instance boots is noted there.
Disturbed(b) ==
    IF Booting(b) THEN [boot[b] EXCEPT !.undisturbed = FALSE] ELSE boot[b]
Disturb == boot' = [b \in Instances |-> Disturbed(b)]

\* The rows other transactions have flushed and not committed: an insert of
\* the same unique value waits for them.
TakenByFlush(name, slug) ==
    \E b \in Instances : Booting(b) /\ \E g \in boot[b].flushed :
        Starter[g].name = name \/ Starter[g].slug = slug
EmailFlushed == \E b \in Instances : Booting(b) /\ boot[b].admin = "flushed"
-----------------------------------------------------------------------------
\* start.sh, when the bootstrap is configured: the seed looks for the
\* account of the administrator, then goes through the starter catalogue.
\* It keeps the groups whose category it flushed, whose product is missing
\* and that have no open cycle, and the cycles it extends.
StartSeed(b) ==
    /\ boot[b].pc = "off"
    /\ \E demo \in DemoData :
          boot' = [boot EXCEPT ![b] =
            [pc |-> IF demo /\ Starter # <<>> THEN "category" ELSE "commit",
             demo |-> demo, group |-> 1,
             admin |-> IF account = "none" THEN "create" ELSE "repair",
             flushed |-> {}, missing |-> {}, unopened |-> {}, extended |-> {},
             undisturbed |-> TRUE]]
    /\ UNCHANGED <<tables, request>>

\* start.sh without SEED_ADMIN_PASSWORD: nothing is seeded, the API starts.
SkipSeed(b) ==
    /\ boot[b].pc = "off"
    /\ boot' = [boot EXCEPT ![b] = At("serving")]
    /\ UNCHANGED <<tables, request>>

\* The seed raises, its transaction is rolled back, and set -e ends start.sh.
Refuse(b) ==
    /\ boot' = [boot EXCEPT ![b] = At("refused")]
    /\ UNCHANGED <<tables, request>>

\* The next read of the loop over the groups.
Step(b, pc) ==
    /\ boot' = [boot EXCEPT ![b].pc = pc]
    /\ UNCHANGED <<tables, request>>

Group(b) == Starter[boot[b].group]

\* A group's category is looked up by its slug.
ReadCategory(b) ==
    /\ boot[b].pc = "category"
    /\ Step(b, IF HasSlug(Group(b).slug) THEN "product" ELSE "insert")

\* Faulty variant: the missing category is not added to the session.
InsertCategoryUnsaved(b) ==
    /\ boot[b].pc = "insert"
    /\ Step(b, "product")

\* A missing category is flushed, together with an administrator still to be
\* inserted.  Either insert fails when a committed row has the unique value,
\* and waits while a flushed one does.
InsertCategory(b) ==
    /\ boot[b].pc = "insert"
    /\ ~ TakenByFlush(Group(b).name, Group(b).slug)
    /\ boot[b].admin = "create" => ~ EmailFlushed
    /\ IF \/ CategoryNamed(Group(b).name) \/ HasSlug(Group(b).slug)
          \/ boot[b].admin = "create" /\ account # "none"
       THEN Refuse(b)
       ELSE /\ boot' = [boot EXCEPT ![b] = [@ EXCEPT
                 !.pc = "product",
                 !.flushed = boot[b].flushed \cup {boot[b].group},
                 !.admin = IF boot[b].admin = "create" THEN "flushed"
                                                       ELSE boot[b].admin]]
            /\ UNCHANGED <<tables, request>>

\* A product is looked up by name and category: scalar_one_or_none raises
\* when there are two, and one that is missing is added.
ReadProduct(b) ==
    LET found == ProductsLike(Group(b).product, Group(b).slug)
    IN  /\ boot[b].pc = "product"
        /\ IF Cardinality(found) > 1
           THEN Refuse(b)
           ELSE /\ boot' = [boot EXCEPT ![b] = [@ EXCEPT
                     !.pc = "cycle",
                     !.missing = boot[b].missing
                        \cup IF found = {} THEN {boot[b].group} ELSE {}]]
                /\ UNCHANGED <<tables, request>>

\* Faulty variant: an open cycle whose window is past is left as it is.
ReadCycleOnly(b) ==
    LET found == OpenCycles(Group(b).slug)
    IN  /\ boot[b].pc = "cycle"
        /\ IF Cardinality(found) > 1
           THEN Refuse(b)
           ELSE /\ boot' = [boot EXCEPT ![b] = [@ EXCEPT
                     !.pc = IF boot[b].group = Len(Starter) THEN "commit"
                                                            ELSE "category",
                     !.group = boot[b].group + 1,
                     !.unopened = boot[b].unopened
                        \cup IF found = {} THEN {boot[b].group} ELSE {}]]
                /\ UNCHANGED <<tables, request>>

\* So is the group's open cycle.  One that is missing is added, and one whose
\* window is past is extended.
ReadCycle(b) ==
    LET found == OpenCycles(Group(b).slug)
    IN  /\ boot[b].pc = "cycle"
        /\ IF Cardinality(found) > 1
           THEN Refuse(b)
           ELSE /\ boot' = [boot EXCEPT ![b] = [@ EXCEPT
                     !.pc = IF boot[b].group = Len(Starter) THEN "commit"
                                                            ELSE "category",
                     !.group = boot[b].group + 1,
                     !.unopened = boot[b].unopened
                        \cup IF found = {} THEN {boot[b].group} ELSE {},
                     !.extended = boot[b].extended \cup {c \in found : cycle[c].past}]]
                /\ UNCHANGED <<tables, request>>

\* Faulty variant: the row as it was read, in an open cycle, is written back.
ExtendWholeRow(c) == [cycle[c] EXCEPT !.past = FALSE, !.status = "open"]

\* The column the seed set, and nothing else of the row.
Extend(c) == [cycle[c] EXCEPT !.past = FALSE]

\* Fresh ids for the rows a boot inserts, one for each group.
FreshIds(groups, table) ==
    Injection(groups, {i \in DOMAIN table : table[i] = NoRow})

\* The commit: the administrator is inserted if no flush did (and that may
\* still fail) or given its role, and the new rows and the longer windows are
\* written.  The API starts.
CommitSeed(b) ==
    /\ boot[b].pc = "commit"
    /\ boot[b].admin = "create" => ~ EmailFlushed
    /\ IF boot[b].admin = "create" /\ account # "none"
       THEN Refuse(b)
       ELSE /\ account' = "admin"
            /\ categories' = categories \cup
                 {[name |-> Starter[g].name, slug |-> Starter[g].slug] :
                      g \in boot[b].flushed}
            /\ \E ids \in FreshIds(boot[b].missing, product) :
                 product' = [p \in Products |->
                   IF \E g \in boot[b].missing : ids[g] = p
                   THEN LET g == CHOOSE g \in boot[b].missing : ids[g] = p
                        IN  [name |-> Starter[g].product,
                             category |-> Starter[g].slug]
                   ELSE product[p]]
            /\ \E ids \in FreshIds(boot[b].unopened, cycle) :
                 cycle' = [c \in Cycles |->
                   IF \E g \in boot[b].unopened : ids[g] = c
                   THEN LET g == CHOOSE g \in boot[b].unopened : ids[g] = c
                        IN  [category |-> Starter[g].slug,
                             status |-> "open", past |-> FALSE]
                   ELSE IF c \in boot[b].extended THEN Extend(c)
                   ELSE cycle[c]]
            /\ boot' = [i \in Instances |->
                          IF i = b THEN At("serving") ELSE Disturbed(i)]
            /\ UNCHANGED request

\* An instance is stopped, or dies; a transaction it holds is rolled back.
Stop(b) ==
    /\ boot[b].pc # "off"
    /\ boot' = [boot EXCEPT ![b] = At("off")]
    /\ UNCHANGED <<tables, request>>
-----------------------------------------------------------------------------
Serving == \E b \in Instances : boot[b].pc = "serving"

\* Someone registers with the administrator's e-mail address.
Register ==
    /\ Serving /\ ~ EmailFlushed
    /\ account = "none"
    /\ account' = "customer"
    /\ Disturb
    /\ UNCHANGED <<categories, product, cycle, request>>

\* Requests of an administrator, which an instance in service answers.
Administer == Serving /\ account = "admin"

\* Names and slugs are unique: a name taken, or one with a slug taken, fails.
CreateCategory(n) ==
    /\ Administer
    /\ ~ TakenByFlush(n, Slugify[n])
    /\ ~ CategoryNamed(n) /\ ~ HasSlug(Slugify[n])
    /\ categories' = categories \cup {[name |-> n, slug |-> Slugify[n]]}
    /\ Disturb
    /\ UNCHANGED <<account, product, cycle, request>>

\* Create a product, or change its name or its category.
SaveProduct(p, n, s) ==
    /\ Administer
    /\ HasSlug(s)
    /\ product' = [product EXCEPT ![p] = [name |-> n, category |-> s]]
    /\ Disturb
    /\ UNCHANGED <<account, categories, cycle, request>>

DeleteProduct(p) ==
    /\ Administer
    /\ product[p] # NoRow
    /\ product' = [product EXCEPT ![p] = NoRow]
    /\ Disturb
    /\ UNCHANGED <<account, categories, cycle, request>>

\* A cycle is created as a draft.
CreateCycle(c, s, past) ==
    /\ Administer
    /\ HasSlug(s)
    /\ cycle[c] = NoRow
    /\ cycle' = [cycle EXCEPT ![c] =
                    [category |-> s, status |-> "draft", past |-> past]]
    /\ Disturb
    /\ UNCHANGED <<account, categories, product, request>>

\* A request that changes a cycle reads it first: only drafts can be edited
\* and opened, and only open cycles closed.
ReadForEdit(r, c) ==
    /\ Administer
    /\ request[r] = Idle
    /\ cycle[c] # NoRow /\ cycle[c].status = "draft"
    /\ request' = [request EXCEPT ![r] = [pc |-> "edit", cycle |-> c]]
    /\ UNCHANGED <<tables, boot>>

ReadForOpen(r, c) ==
    /\ Administer
    /\ request[r] = Idle
    /\ cycle[c] # NoRow /\ cycle[c].status = "draft"
    /\ request' = [request EXCEPT ![r] = [pc |-> "open", cycle |-> c]]
    /\ UNCHANGED <<tables, boot>>

ReadForClose(r, c) ==
    /\ Administer
    /\ request[r] = Idle
    /\ cycle[c] # NoRow /\ cycle[c].status = "open"
    /\ request' = [request EXCEPT ![r] = [pc |-> "close", cycle |-> c]]
    /\ UNCHANGED <<tables, boot>>

\* Opening asks for another open cycle of the category and is refused if
\* there is one (or raises, if there are two).
FindNoConflict(r) ==
    /\ request[r].pc = "open"
    /\ OpenCycles(cycle[request[r].cycle].category) \ {request[r].cycle} = {}
    /\ request' = [request EXCEPT ![r].pc = "opening"]
    /\ UNCHANGED <<tables, boot>>

\* The commit of an open, a close or an edit writes the column it set.
WriteCycle(r, row) ==
    /\ cycle' = [cycle EXCEPT ![request[r].cycle] = row]
    /\ request' = [request EXCEPT ![r] = Idle]
    /\ Disturb
    /\ UNCHANGED <<account, categories, product>>

CommitEdit(r) ==
    /\ request[r].pc = "edit"
    /\ \E past \in BOOLEAN :
          WriteCycle(r, [cycle[request[r].cycle] EXCEPT !.past = past])

CommitOpen(r) ==
    /\ request[r].pc = "opening"
    /\ WriteCycle(r, [cycle[request[r].cycle] EXCEPT !.status = "open"])

CommitClose(r) ==
    /\ request[r].pc = "close"
    /\ WriteCycle(r, [cycle[request[r].cycle] EXCEPT !.status = "closed"])

\* A request is refused, fails or dies with its instance.
Rollback(r) ==
    /\ request[r] # Idle
    /\ request' = [request EXCEPT ![r] = Idle]
    /\ UNCHANGED <<tables, boot>>

\* Time passes: the end of an order window.  That of a closed cycle is read
\* by nobody.
WindowEnds(c) ==
    /\ cycle[c] # NoRow /\ cycle[c].status # "closed" /\ ~ cycle[c].past
    /\ cycle' = [cycle EXCEPT ![c].past = TRUE]
    /\ Disturb
    /\ UNCHANGED <<account, categories, product, request>>
-----------------------------------------------------------------------------
Seed(b) ==
    \/ StartSeed(b) \/ ReadCategory(b) \/ InsertCategory(b)
    \/ ReadProduct(b) \/ ReadCycle(b) \/ CommitSeed(b)

EditCatalogue ==
    \/ \E n \in Names : CreateCategory(n)
    \/ \E p \in Products :
          \/ \E n \in ProductNames, s \in Slugs : SaveProduct(p, n, s)
          \/ DeleteProduct(p)

EditCycle ==
    \/ \E c \in Cycles, s \in Slugs, past \in BOOLEAN : CreateCycle(c, s, past)
    \/ \E r \in Requests :
          \/ \E c \in Cycles :
                \/ ReadForEdit(r, c) \/ ReadForOpen(r, c) \/ ReadForClose(r, c)
          \/ FindNoConflict(r)
          \/ CommitEdit(r) \/ CommitOpen(r) \/ CommitClose(r)
          \/ Rollback(r)

Next ==
    \/ \E b \in Instances : Seed(b) \/ SkipSeed(b) \/ Stop(b)
    \/ Register
    \/ EditCatalogue
    \/ EditCycle
    \/ \E c \in Cycles : WindowEnds(c)

Spec == Init /\ [][Next]_vars
-----------------------------------------------------------------------------
\* A boot neither reopens a cycle nor takes one back to draft, however many
\* requests are under way: the seed writes, at its commit, to cycles it read
\* several statements earlier and an administrator may have closed since, and it
\* writes their window only.
BootsKeepCycleStatus ==
    [][\A b \in Instances, c \in Cycles :
          /\ boot[b].pc = "commit" /\ boot'[b].pc = "serving"
          /\ cycle[c] # NoRow
          => cycle'[c] # NoRow /\ cycle'[c].status = cycle[c].status]_vars

\* The starter catalogue can be ordered from: each group has its category,
\* its product once, and one open cycle, whose window is not past.
Stocked ==
    \A g \in Groups :
       /\ HasSlug(Starter[g].slug)
       /\ Cardinality(ProductsLike(Starter[g].product, Starter[g].slug)) = 1
       /\ \E c \in Cycles : /\ OpenCycles(Starter[g].slug) = {c}
                            /\ ~ cycle[c].past

\* Whatever earlier boots and administrators left, an instance that seeds the
\* starter catalogue and starts to serve, with nothing else committed while
\* it booted, leaves a shop that can be ordered from.
BootStocksTheShop ==
    [][\A b \in Instances :
          /\ boot[b].pc = "commit" /\ boot[b].demo /\ boot[b].undisturbed
          /\ boot'[b].pc = "serving"
          => Stocked']_vars

\* start.sh: migrations and seeding are both idempotent, so running them on
\* every boot is safe.  No boot is refused by its own seed.
NoBootIsRefused == \A b \in Instances : boot[b].pc # "refused"
=============================================================================
