------------------------------- MODULE Catalog -------------------------------
(***************************************************************************)
(* What one canteen sells: categories, components and menus                *)
(* (src/src/modules/components and menus), and the creations of orders     *)
(* that are composed from it (orders/order-articles.ts, plate-rules.ts,    *)
(* orders.service.ts).  Stock and money are in module Orders.              *)
(*                                                                         *)
(* Every call checks what it depends on, then writes by id, and nothing is *)
(* locked in between: a component is found in no menu and deleted, while   *)
(* the lines of a menu are found alive and saved.  The lines of a menu are *)
(* replaced by a deletion and an insertion; a deletion does not see the    *)
(* rows that another transaction inserts meanwhile.  An order is composed  *)
(* from what was read, then takes its components one by one, each under    *)
(* the condition that it is still sold, and keeps their rows until it ends.*)
(***************************************************************************)
EXTENDS Naturals, FiniteSets

CONSTANTS
    ComponentIds, CategoryIds, MenuIds,  \* rows that can be created (bounds)
    Sides,          \* components with soldAlone = false
    Editors,        \* calls in flight at the same time (a bound)
    Creations,      \* creations of orders in flight at the same time (a bound)
    None            \* "no such row"

ASSUME SidesAssumption == Sides \subseteq ComponentIds
ASSUME NoneAssumption ==
    None \notin ComponentIds \cup CategoryIds \cup MenuIds
\* Rows are many but finite, and no UUID is given twice (prisma/schema.prisma).
ASSUME RowIdsAssumption == IsFiniteSet(ComponentIds) /\ MenuIds \cap ComponentIds = {}

Lives == {"none", "live", "deleted"}

VARIABLES
    category,   \* table ComponentCategory
    component,  \* table Component
    menu,       \* table Menu with its lines
    edit,       \* what each call has read
    lastSave,   \* history variable: the lines that each menu was last given, and whether
                \* another call had written since this one read
    stray,      \* history variable: a menu and its component, or a component and
                \* its category, one written while the other changed
    creation    \* what each creation of an order needs, and what it has deducted

editVars == <<category, component, menu, edit, lastSave, stray>>
catalogVars == <<editVars, creation>>

\* base: its name is the one reserved for base food.
Category == [life : Lives, base : BOOLEAN]
Component == [life : Lives, category : CategoryIds \cup {None}]
Menu == [life : Lives, active : BOOLEAN, lines : SUBSET ComponentIds]

\* late: another call has written since the reading (history).  fresh: the rows
\* that the deletion has seen are still those of the menu.
Edit == [at : {"idle", "dropCategory", "createComponent", "updateComponent",
               "dropComponent", "createMenu", "updateMenu", "replaceMenu"},
         on : ComponentIds \cup CategoryIds \cup MenuIds \cup {None},
         category : CategoryIds \cup {None}, lines : SUBSET ComponentIds,
         late : BOOLEAN, fresh : BOOLEAN]
NoEdit == [at |-> "idle", on |-> None, category |-> None, lines |-> {},
           late |-> FALSE, fresh |-> FALSE]

Creation == [needed : SUBSET ComponentIds, deducted : SUBSET ComponentIds]
NoCreation == [needed |-> {}, deducted |-> {}]

CatalogInit ==
    /\ category = [g \in CategoryIds |-> [life |-> "none", base |-> FALSE]]
    /\ component = [c \in ComponentIds |-> [life |-> "none", category |-> None]]
    /\ menu = [m \in MenuIds |-> [life |-> "none", active |-> TRUE, lines |-> {}]]
    /\ edit = [e \in Editors |-> NoEdit]
    /\ lastSave = [m \in MenuIds |-> [lines |-> {}, late |-> FALSE]]
    /\ stray = {}
    /\ creation = [p \in Creations |-> NoCreation]

LiveCategories == {g \in CategoryIds : category[g].life = "live"}
LiveComponents == {c \in ComponentIds : component[c].life = "live"}
LiveMenus == {m \in MenuIds : menu[m].life = "live"}
IdleEdit(e) == edit[e].at = "idle"

\* Rows that a creation keeps until its transaction ends: other writes wait.
Deducted == UNION {creation[p].deducted : p \in Creations}

Reads(e, what) ==
    /\ edit' = [edit EXCEPT ![e] = what]
    /\ UNCHANGED <<category, component, menu, lastSave, stray>>

\* The call ends, and whoever had read before it wrote is late.
Wrote(e) ==
    edit' = [f \in Editors |-> IF f = e THEN NoEdit
                ELSE IF IdleEdit(f) THEN NoEdit ELSE [edit[f] EXCEPT !.late = TRUE]]

-----------------------------------------------------------------------------
(* Categories.                                                             *)

CreateCategory(e) ==
    /\ IdleEdit(e)
    /\ \E g \in CategoryIds, base \in BOOLEAN :
           /\ category[g].life = "none"
           /\ category' = [category EXCEPT ![g] = [life |-> "live", base |-> base]]
    /\ UNCHANGED <<component, menu, edit, lastSave, stray>>

UpdateCategory(e) ==
    /\ IdleEdit(e)
    /\ \E g \in LiveCategories : category' = [category EXCEPT ![g].base = ~@]
    /\ UNCHANGED <<component, menu, edit, lastSave, stray>>

UsedCategory(g) == \E c \in LiveComponents : component[c].category = g

ReadForRemoveCategory(e) ==
    /\ IdleEdit(e)
    /\ \E g \in LiveCategories :
           ~UsedCategory(g) /\ Reads(e, [NoEdit EXCEPT !.at = "dropCategory", !.on = g])

RemoveCategory(e) ==
    LET g == edit[e].on IN
    /\ edit[e].at = "dropCategory"
    /\ category' = [category EXCEPT ![g].life = "deleted"]
    /\ stray' = IF edit[e].late
                THEN stray \cup ({c \in ComponentIds : component[c].category = g} \X {g})
                ELSE stray
    /\ Wrote(e)
    /\ UNCHANGED <<component, menu, lastSave>>

-----------------------------------------------------------------------------
(* Components.                                                             *)

\* assertCategoryBelongsToVendor: a category that is named must be alive.
ReadForCreateComponent(e) ==
    /\ IdleEdit(e)
    /\ \E g \in LiveCategories \cup {None} :
           Reads(e, [NoEdit EXCEPT !.at = "createComponent", !.category = g])

\* c is given the category that was read.
Classified(e, c) ==
    LET g == edit[e].category IN
    /\ component' = [component EXCEPT ![c].life = IF @ = "none" THEN "live" ELSE @,
                                     ![c].category = g]
    /\ stray' = {p \in stray : p[1] # c}
                    \cup (IF edit[e].late /\ g # None THEN {<<c, g>>} ELSE {})
    /\ Wrote(e)
    /\ UNCHANGED <<category, menu, lastSave>>

CreateComponent(e) ==
    /\ edit[e].at = "createComponent"
    /\ \E c \in ComponentIds : component[c].life = "none" /\ Classified(e, c)

ReadForUpdateComponent(e) ==
    /\ IdleEdit(e)
    /\ \E c \in LiveComponents, g \in LiveCategories \cup {None} :
           Reads(e, [NoEdit EXCEPT !.at = "updateComponent", !.on = c, !.category = g])

UpdateComponent(e) ==
    /\ edit[e].at = "updateComponent"
    /\ edit[e].on \notin Deducted
    /\ Classified(e, edit[e].on)

\* Mutant: only the active menus are asked.
UsedComponentMutant(c) == \E m \in LiveMenus : menu[m].active /\ c \in menu[m].lines

\* In no menu, active or not, that is not deleted.
UsedComponent(c) == \E m \in LiveMenus : c \in menu[m].lines

ReadForRemoveComponent(e) ==
    /\ IdleEdit(e)
    /\ \E c \in LiveComponents :
           ~UsedComponent(c) /\ Reads(e, [NoEdit EXCEPT !.at = "dropComponent", !.on = c])

RemoveComponent(e) ==
    LET c == edit[e].on IN
    /\ edit[e].at = "dropComponent"
    /\ c \notin Deducted
    /\ component' = [component EXCEPT ![c].life = "deleted"]
    /\ stray' = IF edit[e].late
                THEN stray \cup ({m \in MenuIds : c \in menu[m].lines} \X {c})
                ELSE stray
    /\ Wrote(e)
    /\ UNCHANGED <<category, menu, lastSave>>

-----------------------------------------------------------------------------
(* Menus.                                                                  *)

\* validateLines: at least one line, no component twice, all of them alive.
ValidLines == (SUBSET LiveComponents) \ {{}}

ReadForCreateMenu(e) ==
    /\ IdleEdit(e)
    /\ \E L \in ValidLines : Reads(e, [NoEdit EXCEPT !.at = "createMenu", !.lines = L])

\* L is saved, and the rows are then those of m.
Saved(e, m, L, rows) ==
    /\ menu' = [menu EXCEPT ![m].life = IF @ = "none" THEN "live" ELSE @, ![m].lines = rows]
    /\ lastSave' = [lastSave EXCEPT ![m] = [lines |-> L, late |-> edit[e].late]]
    /\ stray' = {p \in stray : p[1] # m \/ p[2] \in rows \ L}
                    \cup (IF edit[e].late THEN {m} \X L ELSE {})
    /\ UNCHANGED <<category, component>>

CreateMenu(e) ==
    /\ edit[e].at = "createMenu"
    /\ \E m \in MenuIds : menu[m].life = "none" /\ Saved(e, m, edit[e].lines, edit[e].lines)
    /\ Wrote(e)

ReadForUpdateMenu(e) ==
    /\ IdleEdit(e)
    /\ \E m \in LiveMenus, L \in ValidLines :
           Reads(e, [NoEdit EXCEPT !.at = "updateMenu", !.on = m, !.lines = L])

\* The deletion takes its snapshot, and waits if another one holds the rows.
StartReplace(e) ==
    /\ edit[e].at = "updateMenu"
    /\ Reads(e, [edit[e] EXCEPT !.at = "replaceMenu", !.fresh = TRUE])

\* The rows that the deletion leaves: those it did not see.
Left(e) == IF edit[e].fresh THEN {} ELSE menu[edit[e].on].lines

\* A line of both is refused by the unique index, and the transaction undone.
CommitReplace(e) ==
    LET m == edit[e].on
        L == edit[e].lines
    IN
    /\ edit[e].at = "replaceMenu"
    /\ IF L \cap Left(e) = {}
       THEN /\ Saved(e, m, L, Left(e) \cup L)
            /\ edit' = [f \in Editors |->
                   IF f = e \/ IdleEdit(f) THEN NoEdit
                   ELSE [edit[f] EXCEPT !.late = TRUE, !.fresh = @ /\ edit[f].on # m]]
       ELSE Reads(e, NoEdit)

SwitchMenu(e) ==
    /\ IdleEdit(e)
    /\ \E m \in LiveMenus : menu' = [menu EXCEPT ![m].active = ~@]
    /\ UNCHANGED <<category, component, edit, lastSave, stray>>

RemoveMenu(e) ==
    /\ IdleEdit(e)
    /\ \E m \in LiveMenus : menu' = [menu EXCEPT ![m].life = "deleted"]
    /\ UNCHANGED <<category, component, edit, lastSave, stray>>

-----------------------------------------------------------------------------
\* A call dies.
DropEdit(e) ==
    /\ ~IdleEdit(e)
    /\ Reads(e, NoEdit)

EditNext ==
    \E e \in Editors :
        \/ CreateCategory(e) \/ UpdateCategory(e) \/ ReadForRemoveCategory(e)
        \/ RemoveCategory(e) \/ ReadForCreateComponent(e) \/ CreateComponent(e)
        \/ ReadForUpdateComponent(e) \/ UpdateComponent(e)
        \/ ReadForRemoveComponent(e) \/ RemoveComponent(e) \/ ReadForCreateMenu(e)
        \/ CreateMenu(e) \/ ReadForUpdateMenu(e) \/ StartReplace(e) \/ CommitReplace(e)
        \/ SwitchMenu(e) \/ RemoveMenu(e) \/ DropEdit(e)

-----------------------------------------------------------------------------
(* Creating an order, of free components and of menus. *)

\* Stock and availability, which module Orders follows, are left out.
Sellable(c) == component[c].life = "live"

\* resolveOrderMenu, then menuUnavailableComponents.
Servable(m) ==
    menu[m].life = "live" /\ menu[m].active /\ \A c \in menu[m].lines : Sellable(c)

\* findFirst: any of the categories that bear the reserved name.
BaseCategories == {g \in LiveCategories : category[g].base}
ComposedPlateHasBase(free) ==
    \/ free \cap Sides = {} \/ BaseCategories = {}
    \/ \E g \in BaseCategories :
           UsedCategory(g) => \E c \in free : component[c].category = g

FreeComponentsNotSoldAlone(free, menus) ==
    menus # {} \/ Cardinality(free) # 1 \/ free \cap Sides = {}

\* What createWithinTransaction accepts of what it reads, nothing being locked.
Accepted(free, menus) ==
    /\ \A c \in free : Sellable(c)
    /\ \A m \in menus : Servable(m)
    /\ ComposedPlateHasBase(free)
    /\ FreeComponentsNotSoldAlone(free, menus)

Needed(free, menus) == free \cup UNION {menu[m].lines : m \in menus}

ReadForOrder(p) ==
    /\ creation[p] = NoCreation
    /\ \E free \in SUBSET ComponentIds, menus \in SUBSET MenuIds :
           /\ Accepted(free, menus)
           /\ creation' = [creation EXCEPT ![p].needed = Needed(free, menus)]

\* Mutant: the WHERE clause of the deduction without deletedAt.
DeductibleMutant(c) == component[c].life # "none"

\* The WHERE clause of the deduction.
Deductible(c) == Sellable(c)

\* One component after the other; the order undoes itself where one is gone.
Deduct(p) ==
    \E c \in creation[p].needed \ Deducted :
        creation' = IF Deductible(c) THEN [creation EXCEPT ![p].deducted = @ \cup {c}]
                                     ELSE [creation EXCEPT ![p] = NoCreation]

\* Everything it needs is deducted: the order is inserted.
ReadyToInsert(p) == creation[p].needed # {} /\ creation[p].deducted = creation[p].needed
InsertOrder(p) ==
    /\ ReadyToInsert(p)
    /\ creation' = [creation EXCEPT ![p] = NoCreation]

\* No number, too little stock or money, or a transaction that dies.
UndoOrder(p) ==
    /\ creation[p] # NoCreation
    /\ creation' = [creation EXCEPT ![p] = NoCreation]

CreationNext ==
    \E p \in Creations : ReadForOrder(p) \/ Deduct(p) \/ InsertOrder(p) \/ UndoOrder(p)

CatalogNext ==
    \/ EditNext /\ UNCHANGED creation
    \/ CreationNext /\ UNCHANGED editVars

CatalogSpec == CatalogInit /\ [][CatalogNext]_catalogVars

-----------------------------------------------------------------------------
(* Properties *)

CatalogTypeOK ==
    /\ category \in [CategoryIds -> Category]
    /\ component \in [ComponentIds -> Component]
    /\ menu \in [MenuIds -> Menu]
    /\ edit \in [Editors -> Edit]
    /\ lastSave \in [MenuIds -> [lines : SUBSET ComponentIds, late : BOOLEAN]]
    /\ creation \in [Creations -> Creation]

\* A menu keeps a deleted component, or a component a deleted category, only
\* when two calls overlapped: calls that follow one another never leave one
\* (components.service.ts:54, 188; menus.service.ts:41).
DanglingOnlyByOverlap ==
    /\ \A m \in LiveMenus : \A c \in menu[m].lines \ LiveComponents : <<m, c>> \in stray
    /\ \A c \in LiveComponents :
           component[c].category \in CategoryIds \ LiveCategories =>
               <<c, component[c].category>> \in stray

\* Whatever was edited since an order read the catalog, and whatever overlaps
\* left behind in its menus, the order that is inserted takes only components that
\* are alive: the deduction checks again what was read, and the rows it wrote stay
\* so until the end (orders.service.ts:317).
PlacedOrdersStand ==
    \A p \in Creations : ReadyToInsert(p) => creation[p].needed \subseteq LiveComponents

\* « Remplacement des lignes » (menus.service.ts:137): a menu has the lines of its
\* last save and no others, unless two updates overlapped; then it may keep lines
\* of both, but the last save loses none of its own.
LinesOfTheLastSave ==
    \A m \in LiveMenus :
        /\ lastSave[m].lines \subseteq menu[m].lines
        /\ lastSave[m].late \/ menu[m].lines \subseteq lastSave[m].lines

\* Calls on the catalog that do not overlap leave it whole.
WholeButForOverlaps == DanglingOnlyByOverlap /\ LinesOfTheLastSave

=============================================================================
