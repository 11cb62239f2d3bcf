-------------------------------- MODULE MCShop --------------------------------
(***************************************************************************)
(* The price lists, the catalog, the row locks and the figures for TLC.    *)
(* They share no state, so each is walked from its own initial states      *)
(* while the others stay in one of theirs; part says which one moves.      *)
(*                                                                         *)
(* Withdrawals start from one franc, and from five francs below every      *)
(* boundary of the tables and of the tiers.  A week starts on day 2 and a  *)
(* month on day 1.  The figures are about orders or about payments,        *)
(* withdrawals and reviews: no figure needs both.                          *)
(***************************************************************************)
EXTENDS RechargePricing, WithdrawalFees, RowLocks, Catalog, Reporting, TLC

CONSTANTS v1, v2, s1, s2, o1, o2, b1, b2

MCBoundaries ==
    {TierLow, NetworkCashFrom, 150000} \cup {FloozBrackets[i][1] : i \in DOMAIN FloozBrackets}
        \cup {FloozRanges[i][2] : i \in DOMAIN FloozRanges}
        \cup {MixxBrackets[i][1] : i \in DOMAIN MixxBrackets}

MCFirst == 100

MCStarts == {MCFirst} \cup {100 * (b - 5) : b \in MCBoundaries \ {0}}

MCComponents == {1, 2, 3}
MCCanteen == (1 :> v1) @@ (2 :> v1) @@ (3 :> v2)
MCStudent == (o1 :> s1) @@ (o2 :> s2)
MCMaker == (o1 :> v1) @@ (o2 :> v2)
MCReferrer == (s1 :> s1) @@ (s2 :> s1)
MCPayee == [w \in Withdrawals |-> v1]

MCTickets == (b1 :> 1) @@ (b2 :> 2)
MCGross == <<2, 3, 0, 0, 0>>
MCRealCost == <<1, 1, 0, 0, 0>>
MCCoveredFee == [w \in Payouts |-> 2]
MCWeekStarts == {-5, 2}
MCMonthStarts == {-29, 1}

MCSymmetry ==
    Permutations(Transactions) \cup Permutations(Editors) \cup Permutations(Canteens)

VARIABLE part

\* Rows of either kind.
FiguresBound ==
    \/ \A o \in Bills : bill[o].status = "none"
    \/ /\ \A p \in TopUps : topUp[p].at = Never
       /\ \A w \in Payouts : payout[w].at = Never
       /\ \A r \in Ratings : rating[r].at = Never

\* Calls overlap while there are only categories or only menus, and an order is
\* created beside one call at most, and beside none where there are categories.
CatalogBound ==
    LET edits == Cardinality({e \in Editors : ~IdleEdit(e)})
        noOrder == \A p \in Creations : creation[p] = NoCreation
        noCategory == \A g \in CategoryIds : category[g].life = "none"
        noMenu == \A m \in MenuIds : menu[m].life = "none"
    IN  \/ edits = 0
        \/ edits = 1 /\ (noOrder \/ noCategory)
        \/ edits > 1 /\ noOrder /\ (noCategory \/ noMenu)

MCInit ==
    /\ part \in {"quotes", "fees", "locks", "catalog", "figures"}
    /\ Init /\ FeesInit /\ LocksInit /\ CatalogInit /\ ReportInit
    /\ part # "fees" => requested = MCFirst /\ operator = "FLOOZ"
    /\ part # "figures" => \A o, p \in Bills : bill[o].canteen = bill[p].canteen

MCNext ==
    /\ UNCHANGED part
    /\ \/ /\ part = "quotes" /\ Next
          /\ UNCHANGED <<feesVars, locksVars, catalogVars, reportVars>>
       \/ /\ part = "fees" /\ AskMore
          /\ UNCHANGED <<asked, locksVars, catalogVars, reportVars>>
       \/ /\ part = "locks" /\ LocksNext
          /\ UNCHANGED <<asked, feesVars, catalogVars, reportVars>>
       \/ /\ part = "catalog" /\ CatalogNext /\ CatalogBound'
          /\ UNCHANGED <<asked, feesVars, locksVars, reportVars>>
       \/ /\ part = "figures" /\ ReportNext /\ FiguresBound'
          /\ UNCHANGED <<asked, feesVars, locksVars, catalogVars>>

MCSpec ==
    MCInit /\ [][MCNext]_<<part, asked, feesVars, locksVars, catalogVars, reportVars>>

=============================================================================
