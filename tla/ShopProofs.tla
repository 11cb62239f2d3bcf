------------------------------ MODULE ShopProofs ------------------------------
(***************************************************************************)
(* Proofs about what surrounds an order: the two quotes of a recharge      *)
(* (RechargePricing), the fees of a withdrawal (WithdrawalFees), the row   *)
(* locks of the transactions (RowLocks), the catalog of a canteen          *)
(* (Catalog) and the figures computed from the tables (Reporting); for     *)
(* every amount, and any number of transactions, editors, rows and days.   *)
(***************************************************************************)
EXTENDS RechargePricing, WithdrawalFees, RowLocks, Catalog, Reporting,
        SumsProofs, TLAPS

-----------------------------------------------------------------------------
(* The quotes of a recharge.                                               *)

(* A number of tickets is in one tier at most, and so is an amount paid:   *)
(* what `find` returns does not depend on the order of the table.          *)
LEMMA OneTier ==
  ASSUME NEW tickets \in Int, NEW a \in Tiers, NEW b \in Tiers,
         InTier(a, tickets), InTier(b, tickets)
  PROVE  a = b
  BY DEF Tiers, InTier

LEMMA OnePrice ==
  ASSUME NEW amount \in Int, NEW a \in Tiers, NEW b \in Tiers,
         PaysFor(a, amount), PaysFor(b, amount)
  PROVE  a = b
  BY DEF Tiers, PaysFor

LEMMA TierFields ==
  ASSUME NEW tier \in Tiers
  PROVE  /\ tier.fee \in Nat
         /\ tier.minTickets \in Nat /\ 500 <= tier.minTickets
         /\ tier.maxTickets \in Nat /\ tier.maxTickets <= 10000
  BY DEF Tiers

(* The price of tickets is theirs plus the fee of their tier. *)
LEMMA AmountOfTier ==
  ASSUME NEW tickets \in Int, NEW tier \in Tiers, InTier(tier, tickets)
  PROVE  AmountFor(tickets) = tickets + tier.fee
  <1>1. (CHOOSE t \in Tiers : InTier(t, tickets)) = tier
    BY OneTier
  <1>2. MinTickets <= tickets /\ tickets <= MaxTickets
    BY TierFields DEF InTier, MinTickets, MaxTickets
  <1> QED
    BY <1>1, <1>2 DEF AmountFor

LEMMA TicketsOfTier ==
  ASSUME NEW amount \in Int, NEW tier \in Tiers, PaysFor(tier, amount)
  PROVE  TicketsFor(amount) = amount - tier.fee
  <1>1. (CHOOSE t \in Tiers : PaysFor(t, amount)) = tier
    BY OnePrice
  <1>2. MinAmount <= amount /\ amount <= MaxAmount
    BY DEF Tiers, PaysFor, MinAmount, MaxAmount
  <1> QED
    BY <1>1, <1>2 DEF TicketsFor

(* Every whole number of tickets within the limits is in a tier. *)
LEMMA NoGap ==
  ASSUME NEW tickets \in MinTickets..MaxTickets
  PROVE  \E tier \in Tiers : InTier(tier, tickets)
  BY DEF Tiers, InTier, MinTickets, MaxTickets

LEMMA AskedTyped == Spec => [](asked \in Nat)
  <1>1. Init => asked \in Nat
    BY DEF Init
  <1>2. asked \in Nat /\ [Next]_asked => (asked \in Nat)'
    BY DEF Next
  <1> QED
    BY <1>1, <1>2, PTL DEF Spec

LEMMA InversesAgree == asked \in Nat => QuotesAgree
  <1> SUFFICES ASSUME asked \in Nat PROVE QuotesAgree
    OBVIOUS
  <1>1. ASSUME AmountFor(asked) # Refused
        PROVE  TicketsFor(AmountFor(asked)) = asked
    <2>1. PICK tier \in Tiers : InTier(tier, asked)
      BY <1>1 DEF AmountFor
    <2>2. AmountFor(asked) = asked + tier.fee
      BY <2>1, AmountOfTier
    <2>3. PaysFor(tier, asked + tier.fee) /\ asked + tier.fee \in Int
      BY <2>1, TierFields DEF InTier, PaysFor
    <2>4. TicketsFor(asked + tier.fee) = (asked + tier.fee) - tier.fee
      BY <2>3, TicketsOfTier
    <2> QED
      BY <2>2, <2>4, TierFields
  <1>2. ASSUME TicketsFor(asked) # Refused
        PROVE  AmountFor(TicketsFor(asked)) = asked
    <2>1. PICK tier \in Tiers : PaysFor(tier, asked)
      BY <1>2 DEF TicketsFor
    <2>2. TicketsFor(asked) = asked - tier.fee
      BY <2>1, TicketsOfTier
    <2>3. InTier(tier, asked - tier.fee) /\ asked - tier.fee \in Int
      BY <2>1, TierFields DEF InTier, PaysFor
    <2>4. AmountFor(asked - tier.fee) = (asked - tier.fee) + tier.fee
      BY <2>3, AmountOfTier
    <2> QED
      BY <2>2, <2>4, TierFields
  <1> QED
    BY <1>1, <1>2 DEF QuotesAgree

(* Whatever a client asks for, tickets or FCFA, the same recharge is       *)
(* quoted: the two functions of the table are inverse of each other.       *)
THEOREM QuotesAlwaysAgree == Spec => []QuotesAgree
  BY AskedTyped, InversesAgree, PTL

(* One ticket more costs at least one FCFA more. *)
LEMMA NextTicketCostsMore ==
  ASSUME NEW tickets \in Nat,
         AmountFor(tickets) # Refused, AmountFor(tickets + 1) # Refused
  PROVE  AmountFor(tickets) < AmountFor(tickets + 1)
  <1>1. PICK a \in Tiers : InTier(a, tickets)
    BY DEF AmountFor
  <1>2. PICK b \in Tiers : InTier(b, tickets + 1)
    BY DEF AmountFor
  <1>3. a.fee <= b.fee
    BY <1>1, <1>2 DEF Tiers, InTier
  <1>4. AmountFor(tickets) = tickets + a.fee
    BY <1>1, AmountOfTier
  <1>5. AmountFor(tickets + 1) = (tickets + 1) + b.fee
    BY <1>2, AmountOfTier
  <1> QED
    BY <1>3, <1>4, <1>5, TierFields

(* No tier boundary makes more tickets cheaper, and no number of tickets   *)
(* between the minimum and the maximum is without a price.                 *)
THEOREM TicketsNeverGetCheaper == Spec => DearerByTheTicket
  <1> DEFINE A == /\ asked' \in MinTickets..MaxTickets => AmountFor(asked') # Refused
                  /\ AmountFor(asked) # Refused /\ AmountFor(asked') # Refused
                        => AmountFor(asked) < AmountFor(asked')
  <1>1. asked \in Nat /\ [Next]_asked => [A]_asked
    <2> SUFFICES ASSUME asked \in Nat, Next PROVE A
      OBVIOUS
    <2>1. asked' = asked + 1
      BY DEF Next
    <2>2. ASSUME asked' \in MinTickets..MaxTickets PROVE AmountFor(asked') # Refused
      <3>1. PICK tier \in Tiers : InTier(tier, asked')
        BY <2>2, NoGap
      <3>2. AmountFor(asked') = asked' + tier.fee
        BY <2>1, <3>1, AmountOfTier
      <3> QED
        BY <2>1, <3>2, TierFields DEF Refused
    <2> QED
      BY <2>1, <2>2, NextTicketCostsMore
  <1> QED
    BY <1>1, AskedTyped, PTL DEF Spec, DearerByTheTicket

-----------------------------------------------------------------------------
(***************************************************************************)
(* Row locks.  Rows are ranked: orders and withdrawals, then canteens,     *)
(* components by id, accounts from the last who joined to the first, and   *)
(* ledger rows.  A transaction that is not out of order waits for a row    *)
(* ranked after all those that it holds in a mode in which others may      *)
(* wait.  In a circle the ranks would go up for ever.                      *)
(***************************************************************************)

(* An order in which everybody joined after those who brought them. *)
Joins(joined) ==
  /\ joined \in [Students -> Nat]
  /\ \A s \in Students : Referrer[s] # s => joined[Referrer[s]] < joined[s]

Level(table) ==
  CASE table = "Order" -> 0 [] table = "Withdrawal" -> 0
    [] table = "Vendor" -> 1 [] table = "Component" -> 2
    [] table = "User" -> 3 [] table = "Transaction" -> 4

Precedes(joined, a, b) ==
  \/ Level(a.table) < Level(b.table)
  \/ a.table = "Component" /\ b.table = "Component" /\ a.id < b.id
  \/ a.table = "User" /\ b.table = "User" /\ joined[b.id] < joined[a.id]

Tables == {"Order", "Withdrawal", "Vendor", "Component", "User", "Transaction"}
Modes == {"UPDATE", "NO_KEY_UPDATE", "KEY_SHARE"}

(* A row of these tables, as far as ranks are concerned. *)
SomeRow(r) ==
  /\ r.table \in Tables
  /\ r.table = "Component" => r.id \in Nat
  /\ r.table = "User" => r.id \in Students

LEMMA RankIsOrder ==
  ASSUME NEW joined, Joins(joined), NEW a, NEW b, NEW c,
         SomeRow(a), SomeRow(b), SomeRow(c)
  PROVE  /\ ~ Precedes(joined, a, a)
         /\ Precedes(joined, a, b) /\ Precedes(joined, b, c) => Precedes(joined, a, c)
  <1>1. \A t \in Tables : Level(t) \in Nat
    BY DEF Tables, Level
  <1>2. \A t \in Tables :
          /\ Level(t) = 2 <=> t = "Component"
          /\ Level(t) = 3 <=> t = "User"
    BY DEF Tables, Level
  <1>3. \A s \in Students : joined[s] \in Nat
    BY DEF Joins
  <1> QED
    BY <1>1, <1>2, <1>3 DEF SomeRow, Precedes

(* The exceptions, told of the lock at j of a script. *)
Exception(todo, j) ==
  \/ /\ todo[j].row.table = "Vendor" /\ todo[j].mode = "KEY_SHARE"
     /\ \E i \in 1..(j - 1) :
           \/ todo[i].row.table = "Component"
           \/ todo[i].row.table = "User" /\ todo[i].mode = "UPDATE"
  \/ todo[j].row.table = "Withdrawal" /\ j > 1

Ids == UNION {Students, Components, Vendors, OrderIds, Withdrawals}
AnyLock == {lock \in [row : [table : Tables, id : Ids], mode : Modes] : SomeRow(lock.row)}

(* A script asks for a row FOR UPDATE at its start only, and for rows in   *)
(* the order of their ranks but for the exceptions.                        *)
Ranked(joined, todo) ==
  /\ todo \in Seq(AnyLock)
  /\ \A j \in 1..Len(todo) :
        /\ todo[j].mode = "UPDATE" => j = 1
        /\ Exception(todo, j) \/ \A i \in 1..(j - 1) :
              todo[i].mode # "KEY_SHARE" => Precedes(joined, todo[i].row, todo[j].row)

LEMMA LockFields ==
  ASSUME NEW table, NEW id, NEW mode
  PROVE  /\ Lock(table, id, mode).mode = mode
         /\ Lock(table, id, mode).row.table = table
         /\ Lock(table, id, mode).row.id = id
  BY DEF Lock, Row

LEMMA LockTyped ==
  ASSUME NEW table \in Tables, NEW id \in Ids, NEW mode \in Modes,
         table = "Component" => id \in Nat, table = "User" => id \in Students
  PROVE  Lock(table, id, mode) \in AnyLock
  BY DEF AnyLock, SomeRow, Lock, Row

LEMMA ThenOne ==
  ASSUME NEW S, NEW a \in S, NEW b \in S
  PROVE  <<a>> \o <<b>> = <<a, b>>
  <1>1. Len(<<a>>) = 1 /\ Len(<<b>>) = 1 /\ <<a>> \in Seq(S) /\ <<b>> \in Seq(S)
    OBVIOUS
  <1> DEFINE p == <<a>> \o <<b>>
             q == <<a, b>>
  <1>2. p \in Seq(S) /\ Len(p) = 2
    BY <1>1
  <1>3. p[1] = a /\ p[2] = b
    BY <1>1
  <1>4. q \in Seq(S) /\ Len(q) = 2 /\ q[1] = a /\ q[2] = b
    OBVIOUS
  <1> HIDE DEF p, q
  <1>5. \A i \in 1..2 : p[i] = q[i]
    <2>1. \A i \in 1..2 : i = 1 \/ i = 2
      OBVIOUS
    <2> QED
      BY <1>3, <1>4, <2>1
  <1>6. p = q
    BY <1>2, <1>4, <1>5
  <1> QED
    BY <1>6 DEF p, q

(* Rows of different tables. *)
LEMMA LevelsPrecede ==
  ASSUME NEW joined, NEW x, NEW y, NEW xid, NEW yid, NEW m, NEW n,
         \/ x = "Order" /\ y \in {"Vendor", "User"}
         \/ x = "Vendor" /\ y \in {"Component", "User", "Transaction"}
         \/ x = "Withdrawal" /\ y = "Transaction"
  PROVE  Precedes(joined, Lock(x, xid, m).row, Lock(y, yid, n).row)
  <1>1. Level(x) < Level(y)
    BY DEF Level
  <1> QED
    BY <1>1, LockFields DEF Precedes

(* Scripts of one, two and three locks. *)
LEMMA RankedOne ==
  ASSUME NEW joined, NEW a \in AnyLock
  PROVE  Ranked(joined, <<a>>)
  <1>1. <<a>> \in Seq(AnyLock) /\ Len(<<a>>) = 1
    OBVIOUS
  <1> QED
    BY <1>1 DEF Ranked

LEMMA RankedTwo ==
  ASSUME NEW joined, NEW a \in AnyLock, NEW b \in AnyLock, b.mode # "UPDATE",
         \/ Precedes(joined, a.row, b.row)
         \/ /\ b.row.table = "Vendor" /\ b.mode = "KEY_SHARE"
            /\ \/ a.row.table = "Component"
               \/ a.row.table = "User" /\ a.mode = "UPDATE"
  PROVE  Ranked(joined, <<a, b>>)
  <1> DEFINE todo == <<a, b>>
  <1>1. todo \in Seq(AnyLock) /\ Len(todo) = 2 /\ todo[1] = a /\ todo[2] = b
    OBVIOUS
  <1> HIDE DEF todo
  <1>2. ASSUME NEW j \in 1..Len(todo)
        PROVE  /\ todo[j].mode = "UPDATE" => j = 1
               /\ Exception(todo, j) \/ \A i \in 1..(j - 1) :
                     todo[i].mode # "KEY_SHARE" => Precedes(joined, todo[i].row, todo[j].row)
    <2>1. CASE j = 1
      BY <2>1
    <2>2. CASE j = 2
      <3>1. \A i \in 1..(j - 1) : i = 1
        BY <2>2
      <3>2. 1 \in 1..(j - 1)
        BY <2>2
      <3> QED
        BY <1>1, <2>2, <3>1, <3>2 DEF Exception
    <2> QED
      BY <1>1, <2>1, <2>2
  <1>3. Ranked(joined, todo)
    BY <1>1, <1>2 DEF Ranked
  <1> QED
    BY <1>3 DEF todo

LEMMA RankedThree ==
  ASSUME NEW joined, NEW a \in AnyLock, NEW b \in AnyLock, NEW c \in AnyLock,
         b.mode # "UPDATE", c.mode # "UPDATE",
         Precedes(joined, a.row, b.row),
         \/ c.row.table = "Withdrawal"
         \/ Precedes(joined, a.row, c.row) /\ b.mode = "KEY_SHARE"
  PROVE  Ranked(joined, <<a, b, c>>)
  <1> DEFINE todo == <<a, b, c>>
  <1>1. todo \in Seq(AnyLock) /\ Len(todo) = 3
        /\ todo[1] = a /\ todo[2] = b /\ todo[3] = c
    OBVIOUS
  <1> HIDE DEF todo
  <1>2. ASSUME NEW j \in 1..Len(todo)
        PROVE  /\ todo[j].mode = "UPDATE" => j = 1
               /\ Exception(todo, j) \/ \A i \in 1..(j - 1) :
                     todo[i].mode # "KEY_SHARE" => Precedes(joined, todo[i].row, todo[j].row)
    <2>1. CASE j = 1
      BY <2>1
    <2>2. CASE j = 2
      <3>1. \A i \in 1..(j - 1) : i = 1
        BY <2>2
      <3> QED
        BY <1>1, <2>2, <3>1
    <2>3. CASE j = 3
      <3>1. \A i \in 1..(j - 1) : i = 1 \/ i = 2
        BY <2>3
      <3> QED
        BY <1>1, <2>3, <3>1 DEF Exception
    <2> QED
      BY <1>1, <2>1, <2>2, <2>3
  <1>3. Ranked(joined, todo)
    BY <1>1, <1>2 DEF Ranked
  <1> QED
    BY <1>3 DEF todo

(* An order: its canteen or itself, components by id, an account. *)
LEMMA RankedOrder ==
  ASSUME NEW joined, NEW first \in AnyLock, NEW last \in AnyLock, NEW n \in Nat,
         NEW ids \in [1..n -> Components], \A i, j \in 1..n : i < j => ids[i] < ids[j],
         first.row.table \in {"Order", "Vendor"},
         last.row.table = "User", last.mode # "UPDATE"
  PROVE  Ranked(joined, <<first>> \o WriteEach(ids) \o <<last>>)
  <1> DEFINE W == WriteEach(ids)
             todo == <<first>> \o W \o <<last>>
  <1>1. /\ W \in Seq(AnyLock) /\ Len(W) = n
        /\ \A i \in 1..n : W[i] = Lock("Component", ids[i], "NO_KEY_UPDATE")
    <2>1. \A i \in 1..n : Lock("Component", ids[i], "NO_KEY_UPDATE") \in AnyLock
      <3> SUFFICES ASSUME NEW i \in 1..n
                   PROVE  Lock("Component", ids[i], "NO_KEY_UPDATE") \in AnyLock
        OBVIOUS
      <3>1. ids[i] \in Ids /\ ids[i] \in Nat
        BY ComponentsAssumption DEF Ids
      <3> QED
        BY <3>1, LockTyped DEF Tables, Modes
    <2> QED
      BY <2>1 DEF WriteEach
  <1> HIDE DEF W
  <1>2. /\ todo \in Seq(AnyLock) /\ Len(todo) = n + 2
        /\ todo[1] = first /\ todo[n + 2] = last
        /\ \A j \in 2..(n + 1) : todo[j] = W[j - 1]
    BY <1>1
  <1> HIDE DEF todo
  <1>3. \A j \in 2..(n + 1) :
            /\ todo[j].row.table = "Component" /\ todo[j].mode = "NO_KEY_UPDATE"
            /\ todo[j].row.id = ids[j - 1]
    BY <1>1, <1>2, LockFields
  <1>4. ASSUME NEW j \in 1..Len(todo)
        PROVE  /\ todo[j].mode = "UPDATE" => j = 1
               /\ \A i \in 1..(j - 1) : Precedes(joined, todo[i].row, todo[j].row)
    <2>1. j = 1 \/ j \in 2..(n + 1) \/ j = n + 2
      BY <1>2
    <2>2. todo[j].mode = "UPDATE" => j = 1
      BY <1>2, <1>3, <2>1
    <2>3. ASSUME NEW i \in 1..(j - 1)
          PROVE  Precedes(joined, todo[i].row, todo[j].row)
      <3>1. i = 1 \/ i \in 2..(n + 1)
        BY <1>2, <2>3
      <3>2. CASE j = n + 2
        BY <1>2, <1>3, <3>1, <3>2 DEF Precedes, Level
      <3>3. CASE j \in 2..(n + 1)
        <4>1. CASE i = 1
          BY <1>2, <1>3, <3>3, <4>1 DEF Precedes, Level
        <4>2. CASE i \in 2..(n + 1)
          <5>1. i - 1 \in 1..n /\ j - 1 \in 1..n /\ i - 1 < j - 1
            BY <2>3, <3>3, <4>2
          <5>2. ids[i - 1] < ids[j - 1]
            BY <5>1
          <5> QED
            BY <1>3, <3>3, <4>2, <5>2 DEF Precedes
        <4> QED
          BY <3>1, <4>1, <4>2
      <3> QED
        BY <2>1, <2>3, <3>2, <3>3
    <2> QED
      BY <2>2, <2>3
  <1>5. Ranked(joined, todo)
    BY <1>2, <1>4 DEF Ranked
  <1> QED
    BY <1>5 DEF todo, W

LEMMA BasketIsList ==
  ASSUME NEW v, NEW ids \in Baskets(v)
  PROVE  \E n \in Nat : ids \in [1..n -> Components] /\ DOMAIN ids = 1..n
  <1>1. ComponentsOf(v) \in SUBSET Components
    BY DEF ComponentsOf
  <1>2. Cardinality(ComponentsOf(v)) \in Nat
    BY <1>1, ComponentsAssumption, FS_Subset, FS_CardinalityType
  <1>3. PICK n \in 1..Cardinality(ComponentsOf(v)) : ids \in [1..n -> ComponentsOf(v)]
    BY DEF Baskets
  <1> QED
    BY <1>1, <1>2, <1>3

LEMMA ScriptsAreRanked ==
  ASSUME NEW joined, Joins(joined), NEW kind \in Kinds, NEW todo \in Scripts(kind)
  PROVE  Ranked(joined, todo)
  <1> USE LockFields, RowsAssumption, ReferrerAssumption, ComponentsAssumption
  <1>1. ASSUME NEW s \in Students, NEW v \in Vendors, NEW ids \in Baskets(v), Sorted(ids)
        PROVE  Ranked(joined, Create(s, v, ids))
    <2>1. PICK n \in Nat : ids \in [1..n -> Components] /\ DOMAIN ids = 1..n
      BY BasketIsList
    <2>2. /\ Lock("Vendor", v, "UPDATE") \in AnyLock
          /\ Lock("User", s, "NO_KEY_UPDATE") \in AnyLock
      BY LockTyped DEF Tables, Modes, Ids
    <2>3. \A i, j \in 1..n : i < j => ids[i] < ids[j]
      BY <1>1, <2>1 DEF Sorted
    <2>4. Ranked(joined, <<Lock("Vendor", v, "UPDATE")>> \o WriteEach(ids)
                             \o <<Lock("User", s, "NO_KEY_UPDATE")>>)
      <3> DEFINE first == Lock("Vendor", v, "UPDATE")
                 last == Lock("User", s, "NO_KEY_UPDATE")
      <3>1. /\ first.row.table \in {"Order", "Vendor"}
            /\ last.row.table = "User" /\ last.mode # "UPDATE"
        OBVIOUS
      <3> HIDE DEF first, last
      <3> QED
        BY <2>1, <2>2, <2>3, <3>1, RankedOrder DEF first, last
    <2> QED
      BY <2>4 DEF Create
  <1>2. ASSUME NEW o \in OrderIds, NEW ids \in Baskets(Maker[o]), ById(ids)
        PROVE  Ranked(joined, Cancel(o, ids))
    <2>1. PICK n \in Nat : ids \in [1..n -> Components] /\ DOMAIN ids = 1..n
      BY BasketIsList
    <2>2. /\ Lock("Order", o, "UPDATE") \in AnyLock
          /\ Lock("User", Student[o], "NO_KEY_UPDATE") \in AnyLock
      BY LockTyped DEF Tables, Modes, Ids
    <2>3. \A i, j \in 1..n : i < j => ids[i] < ids[j]
      BY <1>2, <2>1 DEF ById
    <2>4. Ranked(joined, <<Lock("Order", o, "UPDATE")>> \o WriteEach(ids)
                             \o <<Lock("User", Student[o], "NO_KEY_UPDATE")>>)
      <3> DEFINE first == Lock("Order", o, "UPDATE")
                 last == Lock("User", Student[o], "NO_KEY_UPDATE")
      <3>1. /\ first.row.table \in {"Order", "Vendor"}
            /\ last.row.table = "User" /\ last.mode # "UPDATE"
        OBVIOUS
      <3> HIDE DEF first, last
      <3> QED
        BY <2>1, <2>2, <2>3, <3>1, RankedOrder DEF first, last
    <2> QED
      BY <2>4 DEF Cancel
  <1>3. ASSUME NEW o \in OrderIds
        PROVE  Ranked(joined, Ready(o)) /\ Ranked(joined, Received(o))
                   /\ Ranked(joined, Report(o))
    <2>1. /\ Lock("Order", o, "NO_KEY_UPDATE") \in AnyLock
          /\ Lock("Order", o, "UPDATE") \in AnyLock
          /\ Lock("Vendor", Maker[o], "NO_KEY_UPDATE") \in AnyLock
          /\ Lock("Vendor", Maker[o], "KEY_SHARE") \in AnyLock
          /\ Lock("User", Student[o], "KEY_SHARE") \in AnyLock
      BY LockTyped DEF Tables, Modes, Ids
    <2>2. Ranked(joined, Ready(o))
      <3>1. Precedes(joined, Lock("Order", o, "NO_KEY_UPDATE").row,
                             Lock("Vendor", Maker[o], "NO_KEY_UPDATE").row)
        BY LevelsPrecede
      <3>2. Lock("Vendor", Maker[o], "NO_KEY_UPDATE").mode # "UPDATE"
        OBVIOUS
      <3> QED
        BY ONLY <2>1, <3>1, <3>2, RankedTwo DEF Ready
    <2>3. Ranked(joined, Received(o))
      BY <2>1, RankedOne DEF Received
    <2>4. Ranked(joined, Report(o))
      <3>1. /\ Precedes(joined, Lock("Order", o, "UPDATE").row,
                                Lock("User", Student[o], "KEY_SHARE").row)
            /\ Precedes(joined, Lock("Order", o, "UPDATE").row,
                                Lock("Vendor", Maker[o], "KEY_SHARE").row)
        BY LevelsPrecede
      <3>2. /\ Lock("User", Student[o], "KEY_SHARE").mode = "KEY_SHARE"
            /\ Lock("Vendor", Maker[o], "KEY_SHARE").mode = "KEY_SHARE"
        OBVIOUS
      <3> QED
        BY ONLY <2>1, <3>1, <3>2, RankedThree DEF Report
    <2> QED
      BY <2>2, <2>3, <2>4
  <1>4. ASSUME NEW c \in Components
        PROVE  Ranked(joined, Adjust(c)) /\ Ranked(joined, Empty(c))
    <2>1. /\ Lock("Component", c, "NO_KEY_UPDATE") \in AnyLock
          /\ Lock("Vendor", Canteen[c], "KEY_SHARE") \in AnyLock
      BY LockTyped DEF Tables, Modes, Ids
    <2>2. Empty(c) = <<Lock("Component", c, "NO_KEY_UPDATE"),
                       Lock("Vendor", Canteen[c], "KEY_SHARE")>>
      BY <2>1, ThenOne DEF Empty, Adjust
    <2>3. Ranked(joined, Empty(c))
      BY <2>1, <2>2, RankedTwo
    <2> QED
      BY <2>1, <2>3, RankedOne DEF Adjust
  <1>5. ASSUME NEW s \in Students PROVE Ranked(joined, Recharge(s))
    <2>1. /\ Lock("User", s, "NO_KEY_UPDATE") \in AnyLock
          /\ Lock("User", Referrer[s], "NO_KEY_UPDATE") \in AnyLock
      BY LockTyped DEF Tables, Modes, Ids
    <2>2. CASE Referrer[s] = s
      <3>1. Recharge(s) = <<Lock("User", s, "NO_KEY_UPDATE")>>
        BY <2>2 DEF Recharge
      <3> QED
        BY <2>1, <3>1, RankedOne
    <2>3. CASE Referrer[s] # s
      <3>1. Recharge(s) = <<Lock("User", s, "NO_KEY_UPDATE"),
                            Lock("User", Referrer[s], "NO_KEY_UPDATE")>>
        BY <2>1, <2>3, ThenOne DEF Recharge
      <3>2. Precedes(joined, Lock("User", s, "NO_KEY_UPDATE").row,
                             Lock("User", Referrer[s], "NO_KEY_UPDATE").row)
        BY <2>3 DEF Joins, Precedes
      <3> QED
        BY <2>1, <3>1, <3>2, RankedTwo
    <2> QED
      BY <2>2, <2>3
  <1>6. ASSUME NEW v \in Vendors PROVE Ranked(joined, VendorWrite(v))
    <2>1. Lock("Vendor", v, "NO_KEY_UPDATE") \in AnyLock
      BY LockTyped DEF Tables, Modes, Ids
    <2> QED
      BY <2>1, RankedOne DEF VendorWrite
  <1>7. ASSUME NEW w \in Withdrawals
        PROVE  /\ Ranked(joined, AcceptPayout(w)) /\ Ranked(joined, ConfirmPayout(w))
               /\ Ranked(joined, ClosePayout(w))
    <2>1. /\ Lock("Withdrawal", w, "NO_KEY_UPDATE") \in AnyLock
          /\ Lock("Transaction", w, "NO_KEY_UPDATE") \in AnyLock
          /\ Lock("Vendor", Payee[w], "NO_KEY_UPDATE") \in AnyLock
      BY LockTyped DEF Tables, Modes, Ids
    <2>2. ConfirmPayout(w) = <<Lock("Withdrawal", w, "NO_KEY_UPDATE"),
                               Lock("Transaction", w, "NO_KEY_UPDATE")>>
      BY <2>1, ThenOne DEF ConfirmPayout, AcceptPayout
    <2>3. Ranked(joined, ConfirmPayout(w))
      <3>1. Precedes(joined, Lock("Withdrawal", w, "NO_KEY_UPDATE").row,
                             Lock("Transaction", w, "NO_KEY_UPDATE").row)
        BY LevelsPrecede
      <3>2. Lock("Transaction", w, "NO_KEY_UPDATE").mode # "UPDATE"
        OBVIOUS
      <3> QED
        BY ONLY <2>1, <2>2, <3>1, <3>2, RankedTwo
    <2>4. Ranked(joined, ClosePayout(w))
      <3>1. Precedes(joined, Lock("Vendor", Payee[w], "NO_KEY_UPDATE").row,
                             Lock("Transaction", w, "NO_KEY_UPDATE").row)
        BY LevelsPrecede
      <3>2. /\ Lock("Transaction", w, "NO_KEY_UPDATE").mode # "UPDATE"
            /\ Lock("Withdrawal", w, "NO_KEY_UPDATE").mode # "UPDATE"
            /\ Lock("Withdrawal", w, "NO_KEY_UPDATE").row.table = "Withdrawal"
        OBVIOUS
      <3> QED
        BY ONLY <2>1, <3>1, <3>2, RankedThree DEF ClosePayout
    <2> QED
      BY <2>1, <2>3, <2>4, RankedOne DEF AcceptPayout
  <1>8. ASSUME NEW s \in Students, NEW v \in Vendors PROVE Ranked(joined, Program(s, v))
    <2>1. /\ Lock("User", s, "UPDATE") \in AnyLock
          /\ Lock("Vendor", v, "KEY_SHARE") \in AnyLock
      BY LockTyped DEF Tables, Modes, Ids
    <2> QED
      BY <2>1, RankedTwo DEF Program
  <1>9. kind \in {"create", "cancel", "update", "adjust", "empty", "recharge",
                  "vendor", "payout", "program", "report"}
    BY KindsAssumption
  <1> QED
    BY <1>1, <1>2, <1>3, <1>4, <1>5, <1>6, <1>7, <1>8, <1>9 DEF Scripts

(* A transaction under way has asked for its locks in the order of a script *)
(* of the code, has the first n and still has to ask for the others.        *)
PartWay(left, got) ==
  \/ left = <<>> /\ got = {}
  \/ \E kind \in Kinds : \E todo \in Scripts(kind) : \E n \in 0..Len(todo) :
        /\ left = [i \in 1..(Len(todo) - n) |-> todo[i + n]]
        /\ got = {todo[i] : i \in 1..n}

LocksInv ==
  /\ script \in [Transactions -> Seq(AnyLock)]
  /\ held \in [Transactions -> SUBSET AnyLock]
  /\ \A t \in Transactions : PartWay(script[t], held[t])

(* Who brought whom is an order of arrival. *)
LEMMA SomebodyJoinedFirst ==
  \E joined \in [Students -> Nat] : Joins(joined)
  <1>1. Cardinality(Students) \in Nat
    BY ReferrerAssumption, FS_CardinalityType
  <1>2. PICK joined \in [Students -> 1..Cardinality(Students)] :
          \A s \in Students : Referrer[s] # s => joined[Referrer[s]] < joined[s]
    BY ReferrerAssumption
  <1>3. joined \in [Students -> Nat]
    BY <1>1, <1>2
  <1> QED
    BY <1>2, <1>3 DEF Joins

LEMMA ScriptsTyped ==
  ASSUME NEW kind \in Kinds, NEW todo \in Scripts(kind)
  PROVE  todo \in Seq(AnyLock)
  BY SomebodyJoinedFirst, ScriptsAreRanked DEF Ranked

LEMMA LocksInvInit == LocksInit => LocksInv
  BY DEF LocksInit, LocksInv, PartWay

LEMMA LocksInvStep == LocksInv /\ [LocksNext]_locksVars => LocksInv'
  <1> SUFFICES ASSUME LocksInv, [LocksNext]_locksVars
               PROVE  LocksInv'
    OBVIOUS
  <1>1. CASE UNCHANGED locksVars
    BY <1>1 DEF LocksInv, locksVars
  <1>2. ASSUME NEW t \in Transactions,
               \/ /\ script' = [script EXCEPT ![t] = <<>>]
                  /\ held' = [held EXCEPT ![t] = {}]
               \/ \E kind \in Kinds : \E todo \in Scripts(kind) : \E n \in 0..Len(todo) :
                     /\ script' = [script EXCEPT
                                     ![t] = [i \in 1..(Len(todo) - n) |-> todo[i + n]]]
                     /\ held' = [held EXCEPT ![t] = {todo[i] : i \in 1..n}]
        PROVE  LocksInv'
    <2>1. ASSUME NEW u \in Transactions, u # t PROVE PartWay(script'[u], held'[u])
      <3>1. script'[u] = script[u] /\ held'[u] = held[u]
        BY <1>2, <2>1 DEF LocksInv
      <3> QED
        BY <3>1 DEF LocksInv
    <2>2. CASE /\ script' = [script EXCEPT ![t] = <<>>]
               /\ held' = [held EXCEPT ![t] = {}]
      <3>1. /\ script' \in [Transactions -> Seq(AnyLock)] /\ script'[t] = <<>>
            /\ held' \in [Transactions -> SUBSET AnyLock] /\ held'[t] = {}
        BY <2>2 DEF LocksInv
      <3> QED
        BY <2>1, <3>1 DEF LocksInv, PartWay
    <2>3. ASSUME NEW kind \in Kinds, NEW todo \in Scripts(kind), NEW n \in 0..Len(todo),
                 script' = [script EXCEPT
                              ![t] = [i \in 1..(Len(todo) - n) |-> todo[i + n]]],
                 held' = [held EXCEPT ![t] = {todo[i] : i \in 1..n}]
          PROVE  LocksInv'
      <3>1. todo \in Seq(AnyLock)
        BY ScriptsTyped
      <3>2. /\ [i \in 1..(Len(todo) - n) |-> todo[i + n]] \in Seq(AnyLock)
            /\ {todo[i] : i \in 1..n} \in SUBSET AnyLock
        <4>1. \A i \in 1..(Len(todo) - n) : i + n \in 1..Len(todo)
          BY <3>1
        <4>2. \A i \in 1..n : i \in 1..Len(todo)
          BY <3>1
        <4>3. Len(todo) - n \in Nat
          BY <3>1
        <4>4. [i \in 1..(Len(todo) - n) |-> todo[i + n]] \in Seq(AnyLock)
          BY <3>1, <4>1, <4>3
        <4> QED
          BY <3>1, <4>2, <4>4
      <3>3. /\ script' \in [Transactions -> Seq(AnyLock)]
            /\ script'[t] = [i \in 1..(Len(todo) - n) |-> todo[i + n]]
            /\ held' \in [Transactions -> SUBSET AnyLock]
            /\ held'[t] = {todo[i] : i \in 1..n}
        BY <2>3, <3>2 DEF LocksInv
      <3>4. PartWay(script'[t], held'[t])
        BY <3>3 DEF PartWay
      <3> QED
        BY <2>1, <3>3, <3>4 DEF LocksInv
    <2> QED
      BY <1>2, <2>2, <2>3
  <1>3. ASSUME NEW t \in Transactions, Begin(t) PROVE LocksInv'
    <2>1. held[t] = {} /\ held' = held
      BY <1>3 DEF Begin, Running
    <2>2. PICK kind, todo :
            /\ kind \in Kinds /\ todo \in Scripts(kind)
            /\ script' = [script EXCEPT ![t] = todo]
      BY <1>3 DEF Begin
    <2>3. todo \in Seq(AnyLock)
      BY <2>2, ScriptsTyped
    <2>4. todo = [i \in 1..(Len(todo) - 0) |-> todo[i + 0]]
      BY <2>3
    <2>5. held' = [held EXCEPT ![t] = {todo[i] : i \in 1..0}]
      BY <2>1 DEF LocksInv
    <2>6. 0 \in 0..Len(todo)
      BY <2>3
    <2> QED
      BY <1>2, <2>2, <2>4, <2>5, <2>6
  <1>4. ASSUME NEW t \in Transactions, Acquire(t) PROVE LocksInv'
    <2>1. script[t] # <<>>
      BY <1>4 DEF Acquire
    <2>2. PICK kind, todo, n :
            /\ kind \in Kinds /\ todo \in Scripts(kind) /\ n \in 0..Len(todo)
            /\ script[t] = [i \in 1..(Len(todo) - n) |-> todo[i + n]]
            /\ held[t] = {todo[i] : i \in 1..n}
      BY <2>1 DEF LocksInv, PartWay
    <2>3. todo \in Seq(AnyLock) /\ n \in 0..Len(todo) /\ Len(todo) \in Nat
      BY <2>2, ScriptsTyped
    <2>4. n < Len(todo)
      <3> SUFFICES ASSUME n = Len(todo) PROVE script[t] = <<>>
        BY <2>1, <2>3
      <3>1. 1..(Len(todo) - n) = {}
        BY <2>3
      <3> QED
        BY <2>2, <3>1
    <2>5. Head(script[t]) = todo[n + 1]
      BY <2>2, <2>3, <2>4
    <2>6. Tail(script[t]) = [i \in 1..(Len(todo) - (n + 1)) |-> todo[i + (n + 1)]]
      BY <2>2, <2>3, <2>4, SMTT(30)
    <2>7. held[t] \cup {Head(script[t])} = {todo[i] : i \in 1..(n + 1)}
      BY <2>2, <2>3, <2>4, <2>5
    <2>8. n + 1 \in 0..Len(todo)
      BY <2>3, <2>4
    <2>9. /\ script' = [script EXCEPT ![t] = Tail(script[t])]
          /\ held' = [held EXCEPT ![t] = held[t] \cup {Head(script[t])}]
      BY <1>4 DEF Acquire
    <2>10. \E m \in 0..Len(todo) :
             /\ script' = [script EXCEPT
                             ![t] = [i \in 1..(Len(todo) - m) |-> todo[i + m]]]
             /\ held' = [held EXCEPT ![t] = {todo[i] : i \in 1..m}]
      <3> WITNESS n + 1 \in 0..Len(todo)
      <3> QED
        BY <2>6, <2>7, <2>9
    <2>11. \E k \in Kinds : \E list \in Scripts(k) : \E m \in 0..Len(list) :
             /\ script' = [script EXCEPT
                             ![t] = [i \in 1..(Len(list) - m) |-> list[i + m]]]
             /\ held' = [held EXCEPT ![t] = {list[i] : i \in 1..m}]
      BY <2>2, <2>10, Zenon
    <2> QED
      BY <1>2, <2>11, Zenon
  <1>5. ASSUME NEW t \in Transactions, Commit(t) \/ Rollback(t) PROVE LocksInv'
    <2>1. /\ script' = [script EXCEPT ![t] = <<>>]
          /\ held' = [held EXCEPT ![t] = {}]
      BY <1>5 DEF Commit, Rollback, LocksInv
    <2> QED
      BY <1>2, <2>1
  <1> QED
    BY <1>1, <1>3, <1>4, <1>5 DEF LocksNext

(* What a transaction under way waits for comes after what it holds.       *)
LEMMA Onward ==
  ASSUME NEW joined, Joins(joined), NEW t \in Transactions, LocksInv,
         script[t] # <<>>, held[t] # {}
  PROVE  /\ Head(script[t]).mode # "UPDATE"
         /\ ~ OutOfOrder(t) => \A lock \in held[t] :
               lock.mode # "KEY_SHARE" => Precedes(joined, lock.row, Head(script[t]).row)
  <1> DEFINE OneTodo(todo, n) ==
                 /\ script[t] = [i \in 1..(Len(todo) - n) |-> todo[i + n]]
                 /\ held[t] = {todo[i] : i \in 1..n}
  <1>8. \E kind \in Kinds : \E todo \in Scripts(kind) : \E n \in 0..Len(todo) : OneTodo(todo, n)
    <2>1. PartWay(script[t], held[t]) /\ script[t] # <<>>
      BY DEF LocksInv
    <2> QED
      BY <2>1 DEF PartWay
  <1>9. PICK kind \in Kinds : \E todo \in Scripts(kind) : \E n \in 0..Len(todo) : OneTodo(todo, n)
    BY <1>8
  <1>10. PICK todo \in Scripts(kind) : \E n \in 0..Len(todo) : OneTodo(todo, n)
    BY <1>9
  <1>11. PICK n \in 0..Len(todo) : OneTodo(todo, n)
    BY <1>10
  <1>1. /\ kind \in Kinds /\ todo \in Scripts(kind) /\ n \in 0..Len(todo)
        /\ script[t] = [i \in 1..(Len(todo) - n) |-> todo[i + n]]
        /\ held[t] = {todo[i] : i \in 1..n}
    BY <1>9, <1>10, <1>11
  <1>2. Ranked(joined, todo) /\ todo \in Seq(AnyLock) /\ Len(todo) \in Nat
    BY <1>1, ScriptsAreRanked, ScriptsTyped
  <1>3. n \in Nat /\ 0 < n /\ n < Len(todo)
    <2>1. n # 0 /\ n \in 0..Len(todo)
      BY <1>1
    <2>2. ASSUME n = Len(todo) PROVE FALSE
      <3>1. 1..(Len(todo) - n) = {}
        BY <1>2, <2>2
      <3>2. script[t] = [i \in {} |-> todo[i + n]]
        BY <1>1, <3>1
      <3> QED
        BY <3>2
    <2> QED
      BY <1>2, <2>1, <2>2
  <1>4. Head(script[t]) = todo[n + 1]
    BY <1>1, <1>2, <1>3
  <1>5. n + 1 \in 1..Len(todo) /\ n + 1 # 1 /\ (n + 1) - 1 = n
    BY <1>2, <1>3
  <1>6. todo[n + 1].mode # "UPDATE"
    BY <1>2, <1>5 DEF Ranked
  <1>7. ASSUME ~ OutOfOrder(t), NEW lock \in held[t], lock.mode # "KEY_SHARE"
        PROVE  Precedes(joined, lock.row, todo[n + 1].row)
    <2>1. PICK i \in 1..n : lock = todo[i]
      BY <1>1
    <2>2. ~ Exception(todo, n + 1)
      <3>1. \A k \in 1..n : todo[k] \in held[t]
        BY <1>1
      <3> QED
        BY <1>4, <1>5, <1>7, <3>1 DEF OutOfOrder, Exception
    <2> QED
      BY <1>2, <1>5, <1>7, <2>1, <2>2 DEF Ranked
  <1> QED
    BY <1>4, <1>6, <1>7

LEMMA NoOtherCircle == LocksInv => OnlyKnownCircles
  <1> SUFFICES ASSUME LocksInv,
                      NEW S \in SUBSET {t \in Transactions : ~ OutOfOrder(t)}, Circle(S)
               PROVE  FALSE
    BY DEF OnlyKnownCircles
  <1> PICK joined \in [Students -> Nat] : Joins(joined)
    BY SomebodyJoinedFirst
  <1> DEFINE W == {t \in S : held[t] # {}}
             next(t) == Head(script[t]).row
             R == {e \in W \X W : Precedes(joined, next(e[1]), next(e[2]))}
  <1>1. ASSUME NEW t \in S
        PROVE  /\ t \in Transactions /\ ~ OutOfOrder(t) /\ script[t] # <<>>
               /\ SomeRow(next(t))
               /\ \E u \in W : \E lock \in held[u] :
                     lock.row = next(t) /\ Conflict(lock.mode, Head(script[t]).mode)
    <2>1. PICK u \in S : u \in Blockers(t)
      BY DEF Circle
    <2>2. /\ script[t] # <<>>
          /\ \E lock \in held[u] :
                lock.row = next(t) /\ Conflict(lock.mode, Head(script[t]).mode)
      BY <2>1 DEF Blockers
    <2>3. Head(script[t]) \in AnyLock
      BY <2>2 DEF LocksInv
    <2>4. SomeRow(next(t))
      BY <2>3 DEF AnyLock
    <2> QED
      BY <2>2, <2>4
  <1>2. W # {}
    BY <1>1 DEF Circle
  <1>3. IsFiniteSet(W)
    BY TransactionsAssumption, FS_Subset
  <1>4. ASSUME NEW t \in W PROVE \E u \in W : <<t, u>> \in R
    <2>1. PICK u, lock :
            /\ u \in W /\ lock \in held[u] /\ lock.row = next(t)
            /\ Conflict(lock.mode, Head(script[t]).mode)
      BY <1>1
    <2>2. Head(script[t]).mode # "UPDATE"
      BY <1>1, Onward
    <2>3. lock.mode # "KEY_SHARE"
      BY <2>1, <2>2 DEF Conflict
    <2>4. Precedes(joined, lock.row, next(u))
      BY <1>1, <2>1, <2>3, Onward
    <2> QED
      BY <2>1, <2>4
  <1>5. \A x \in W : <<x, x>> \notin R
    BY <1>1, RankIsOrder
  <1>6. \A x, y, z \in W : <<x, y>> \in R /\ <<y, z>> \in R => <<x, z>> \in R
    <2> SUFFICES ASSUME NEW x \in W, NEW y \in W, NEW z \in W,
                        Precedes(joined, next(x), next(y)), Precedes(joined, next(y), next(z))
                 PROVE  Precedes(joined, next(x), next(z))
      OBVIOUS
    <2> QED
      BY <1>1, RankIsOrder
  <1>7. \E x \in W : \A y \in W : <<x, y>> \notin R
    <2> HIDE DEF W, R
    <2> QED
      BY <1>2, <1>3, <1>5, <1>6, FiniteHasMaximal
  <1> QED
    BY <1>4, <1>7

(* Whatever the components, the canteens, the accounts and the number of   *)
(* transactions: creations, cancellations and progress of orders, reports, *)
(* recharges with their bonus, stock by hand, requests and confirmations   *)
(* of withdrawals never wait for each other in a circle.                   *)
THEOREM OnlyTheKnownCircles == LocksSpec => []OnlyKnownCircles
  <1>1. LocksSpec => []LocksInv
    BY LocksInvInit, LocksInvStep, PTL DEF LocksSpec
  <1> QED
    BY <1>1, NoOtherCircle, PTL

-----------------------------------------------------------------------------
(***************************************************************************)
(* The catalog.  A call that no other has overtaken since it read writes   *)
(* what it read: its category is alive, its components are, and what it    *)
(* deletes is used by nothing alive.  Whoever is overtaken is late, and    *)
(* what it writes is recorded as stray where it may dangle.                *)
(***************************************************************************)

(* What the editors write.                                                 *)
TablesOK ==
  /\ category \in [CategoryIds -> Category]
  /\ component \in [ComponentIds -> Component]
  /\ menu \in [MenuIds -> Menu]
  /\ edit \in [Editors -> Edit]
  /\ lastSave \in [MenuIds -> [lines : SUBSET ComponentIds, late : BOOLEAN]]

(* The rows that a call in flight is about. *)
Named(x) ==
  /\ x.at = "dropCategory" => x.on \in CategoryIds
  /\ x.at \in {"updateComponent", "dropComponent"} => x.on \in ComponentIds
  /\ x.at \in {"updateMenu", "replaceMenu"} => x.on \in MenuIds

ReadStands(e) ==
  /\ edit[e].at = "dropCategory" => ~ UsedCategory(edit[e].on)
  /\ edit[e].at \in {"createComponent", "updateComponent"} =>
        edit[e].category \in LiveCategories \cup {None}
  /\ edit[e].at = "dropComponent" => ~ UsedComponent(edit[e].on)
  /\ edit[e].at \in {"createMenu", "updateMenu", "replaceMenu"} =>
        edit[e].lines \subseteq LiveComponents
  /\ edit[e].at = "replaceMenu" => edit[e].fresh

ReadsStand ==
  \A e \in Editors : Named(edit[e]) /\ (edit[e].late \/ ReadStands(e))

NoLinesYet == \A m \in MenuIds : menu[m].life = "none" => menu[m].lines = {}

CatalogInv == TablesOK /\ ReadsStand /\ NoLinesYet /\ WholeButForOverlaps

LEMMA CatalogInvInit == CatalogInit => CatalogInv
  <1> SUFFICES ASSUME CatalogInit PROVE CatalogInv
    OBVIOUS
  <1>1. TablesOK
    BY DEF CatalogInit, TablesOK, Category, Component, Menu, Edit, NoEdit, Lives
  <1>2. ReadsStand
    BY DEF CatalogInit, ReadsStand, ReadStands, Named, NoEdit
  <1>3. NoLinesYet
    BY DEF CatalogInit, NoLinesYet
  <1>4. WholeButForOverlaps
    BY DEF CatalogInit, WholeButForOverlaps, DanglingOnlyByOverlap, LinesOfTheLastSave,
           LiveMenus, LiveComponents
  <1> QED
    BY <1>1, <1>2, <1>3, <1>4 DEF CatalogInv

(* A call that reads, or that ends without writing.                        *)
LEMMA ReadingKeeps ==
  ASSUME CatalogInv, NEW e \in Editors, NEW what \in Edit, Reads(e, what), Named(what),
         \/ what.late
         \/ /\ what.at = "dropCategory" => ~ UsedCategory(what.on)
            /\ what.at \in {"createComponent", "updateComponent"} =>
                  what.category \in LiveCategories \cup {None}
            /\ what.at = "dropComponent" => ~ UsedComponent(what.on)
            /\ what.at \in {"createMenu", "updateMenu", "replaceMenu"} =>
                  what.lines \subseteq LiveComponents
            /\ what.at = "replaceMenu" => what.fresh
  PROVE  CatalogInv'
  <1>1. /\ edit' = [edit EXCEPT ![e] = what]
        /\ UNCHANGED <<category, component, menu, lastSave, stray>>
    BY DEF Reads
  <1>2. TablesOK'
    BY <1>1 DEF CatalogInv, TablesOK
  <1>3. NoLinesYet' /\ WholeButForOverlaps'
    BY <1>1 DEF CatalogInv, NoLinesYet, WholeButForOverlaps, DanglingOnlyByOverlap, LinesOfTheLastSave,
                LiveMenus, LiveComponents, LiveCategories
  <1>4. ASSUME NEW f \in Editors
        PROVE  Named(edit'[f]) /\ (edit'[f].late \/ ReadStands(f)')
    <2>1. CASE f = e
      <3>1. edit'[f] = what
        BY <1>1, <2>1 DEF CatalogInv, TablesOK
      <3> QED
        BY <1>1, <3>1 DEF ReadStands, UsedCategory, UsedComponent, LiveCategories,
                          LiveComponents, LiveMenus
    <2>2. CASE f # e
      <3>1. edit'[f] = edit[f]
        BY <1>1, <2>2 DEF CatalogInv, TablesOK
      <3>2. Named(edit[f]) /\ (edit[f].late \/ ReadStands(f))
        BY DEF CatalogInv, ReadsStand
      <3> QED
        BY <1>1, <3>1, <3>2 DEF ReadStands, UsedCategory, UsedComponent, LiveCategories,
                                LiveComponents, LiveMenus
    <2> QED
      BY <2>1, <2>2
  <1> QED
    BY <1>2, <1>3, <1>4 DEF CatalogInv, ReadsStand

(* Whoever writes ends, and makes the others late.                         *)
LEMMA WritingMakesLate ==
  ASSUME CatalogInv, NEW e \in Editors, NEW fresh \in [Editors -> BOOLEAN],
         edit' = [f \in Editors |->
                    IF f = e \/ IdleEdit(f) THEN NoEdit
                    ELSE [edit[f] EXCEPT !.late = TRUE, !.fresh = fresh[f]]]
  PROVE  edit' \in [Editors -> Edit] /\ ReadsStand'
  <1>1. ASSUME NEW f \in Editors
        PROVE  /\ edit'[f] \in Edit /\ Named(edit'[f])
               /\ edit'[f].late \/ edit'[f] = NoEdit
    <2>1. edit[f] \in Edit /\ Named(edit[f])
      BY DEF CatalogInv, TablesOK, ReadsStand
    <2>2. NoEdit \in Edit /\ Named(NoEdit)
      BY DEF NoEdit, Edit, Named
    <2>3. CASE f = e \/ IdleEdit(f)
      BY <2>2, <2>3
    <2>4. CASE ~ (f = e \/ IdleEdit(f))
      <3>1. edit'[f] = [edit[f] EXCEPT !.late = TRUE, !.fresh = fresh[f]]
        BY <2>4
      <3>2. fresh[f] \in BOOLEAN
        OBVIOUS
      <3> QED
        BY <2>1, <3>1, <3>2 DEF Edit, Named
    <2> QED
      BY <2>3, <2>4
  <1>2. ASSUME NEW f \in Editors, edit'[f] = NoEdit PROVE ReadStands(f)'
    BY <1>2 DEF ReadStands, NoEdit
  <1>3. ReadsStand'
    BY <1>1, <1>2 DEF ReadsStand
  <1>4. edit' \in [Editors -> Edit]
    BY <1>1, ZenonT(30)
  <1> QED
    BY <1>3, <1>4

LEMMA WroteMakesLate ==
  ASSUME CatalogInv, NEW e \in Editors, Wrote(e)
  PROVE  edit' \in [Editors -> Edit] /\ ReadsStand'
  <1> DEFINE fresh == [f \in Editors |-> edit[f].fresh]
  <1>1. \A f \in Editors : edit[f] \in Edit
    BY DEF CatalogInv, TablesOK
  <1>2. fresh \in [Editors -> BOOLEAN]
    BY <1>1 DEF Edit
  <1>3. \A f \in Editors : [edit[f] EXCEPT !.late = TRUE]
                             = [edit[f] EXCEPT !.late = TRUE, !.fresh = fresh[f]]
    BY <1>1 DEF Edit
  <1>4. edit' = [f \in Editors |->
                   IF f = e \/ IdleEdit(f) THEN NoEdit
                   ELSE [edit[f] EXCEPT !.late = TRUE, !.fresh = fresh[f]]]
    BY <1>3 DEF Wrote
  <1> HIDE DEF fresh
  <1> QED
    BY <1>2, <1>4, WritingMakesLate

(* Writes that take nothing away from what others have read: a category    *)
(* more, a name, a menu less.                                              *)
LEMMA HarmlessKeeps ==
  ASSUME CatalogInv, UNCHANGED <<component, edit, lastSave, stray>>,
         category' \in [CategoryIds -> Category], menu' \in [MenuIds -> Menu],
         LiveCategories \subseteq LiveCategories', LiveMenus' \subseteq LiveMenus,
         \A m \in MenuIds :
            /\ menu'[m].lines = menu[m].lines
            /\ menu'[m].life = "none" => menu[m].life = "none"
  PROVE  CatalogInv'
  <1>1. TablesOK'
    BY DEF CatalogInv, TablesOK
  <1>2. LiveComponents' = LiveComponents
    BY DEF LiveComponents
  <1>3. LiveMenus \subseteq MenuIds
    BY DEF LiveMenus
  <1>4. NoLinesYet' /\ WholeButForOverlaps'
    BY <1>2, <1>3 DEF CatalogInv, NoLinesYet, WholeButForOverlaps, DanglingOnlyByOverlap, LinesOfTheLastSave
  <1>5. ASSUME NEW f \in Editors, ReadStands(f) PROVE ReadStands(f)'
    <2>1. \A g : UsedCategory(g)' => UsedCategory(g)
      BY <1>2 DEF UsedCategory
    <2>2. \A c : UsedComponent(c)' => UsedComponent(c)
      BY <1>3 DEF UsedComponent
    <2> QED
      BY <1>2, <1>5, <2>1, <2>2 DEF ReadStands
  <1>6. ReadsStand'
    BY <1>5 DEF CatalogInv, ReadsStand
  <1> QED
    BY <1>1, <1>4, <1>6 DEF CatalogInv

LEMMA RemoveCategoryKeeps ==
  ASSUME CatalogInv, NEW e \in Editors, RemoveCategory(e) PROVE CatalogInv'
  <1> DEFINE g == edit[e].on
  <1>1. /\ edit[e].at = "dropCategory" /\ g \in CategoryIds
        /\ edit[e].late \/ ~ UsedCategory(g)
    BY DEF RemoveCategory, CatalogInv, ReadsStand, Named, ReadStands
  <1>2. /\ category' = [category EXCEPT ![g].life = "deleted"]
        /\ UNCHANGED <<component, menu, lastSave>>
        /\ stray \subseteq stray'
        /\ edit[e].late =>
              \A c \in ComponentIds : component[c].category = g => <<c, g>> \in stray'
    BY DEF RemoveCategory
  <1>3. edit' \in [Editors -> Edit] /\ ReadsStand'
    BY WroteMakesLate DEF RemoveCategory
  <1>4. TablesOK'
    BY <1>1, <1>2, <1>3, SMTT(30) DEF CatalogInv, TablesOK, Category, Lives
  <1>5. /\ LiveComponents' = LiveComponents /\ LiveMenus' = LiveMenus
        /\ LiveCategories' = LiveCategories \ {g}
    BY <1>1, <1>2 DEF LiveComponents, LiveMenus, LiveCategories, CatalogInv, TablesOK,
                      Category
  <1>6. ASSUME NEW c \in LiveComponents, component[c].category \in CategoryIds \ LiveCategories'
        PROVE  <<c, component[c].category>> \in stray'
    <2>1. CASE component[c].category = g
      BY <1>1, <1>2, <2>1 DEF UsedCategory, LiveComponents
    <2>2. CASE component[c].category # g
      BY <1>2, <1>5, <1>6, <2>2 DEF CatalogInv, WholeButForOverlaps, DanglingOnlyByOverlap
    <2> QED
      BY <2>1, <2>2
  <1>7. DanglingOnlyByOverlap'
    BY <1>2, <1>5, <1>6 DEF CatalogInv, WholeButForOverlaps, DanglingOnlyByOverlap
  <1>8. LinesOfTheLastSave'
    BY <1>2, <1>5 DEF CatalogInv, WholeButForOverlaps, LinesOfTheLastSave
  <1> QED
    BY <1>2, <1>3, <1>4, <1>7, <1>8 DEF CatalogInv, NoLinesYet, WholeButForOverlaps

LEMMA ClassifiedKeeps ==
  ASSUME CatalogInv, NEW e \in Editors, NEW c \in ComponentIds, Classified(e, c),
         edit[e].at \in {"createComponent", "updateComponent"}
  PROVE  CatalogInv'
  <1> DEFINE g == edit[e].category
  <1>1. g \in CategoryIds \cup {None} /\ (edit[e].late \/ g \in LiveCategories \cup {None})
    BY DEF CatalogInv, TablesOK, Edit, ReadsStand, ReadStands
  <1>2. /\ component' = [component EXCEPT ![c].life = IF @ = "none" THEN "live" ELSE @,
                                          ![c].category = g]
        /\ stray' = {p \in stray : p[1] # c}
                       \cup (IF edit[e].late /\ g # None THEN {<<c, g>>} ELSE {})
        /\ UNCHANGED <<category, menu, lastSave>>
    BY DEF Classified
  <1>3. edit' \in [Editors -> Edit] /\ ReadsStand'
    BY WroteMakesLate DEF Classified
  <1>4. /\ component' \in [ComponentIds -> Component]
        /\ component'[c].category = g
        /\ \A d \in ComponentIds \ {c} : component'[d] = component[d]
        /\ component[c].life = "live" => component'[c].life = "live"
    BY <1>1, <1>2 DEF CatalogInv, TablesOK, Component, Lives
  <1>5. TablesOK'
    BY <1>2, <1>3, <1>4 DEF CatalogInv, TablesOK
  <1>6. /\ LiveMenus' = LiveMenus /\ LiveCategories' = LiveCategories
        /\ LiveComponents \subseteq LiveComponents'
        /\ LiveComponents' \subseteq LiveComponents \cup {c}
    BY <1>2, <1>4 DEF LiveComponents, LiveMenus, LiveCategories
  <1>7. ASSUME NEW m \in LiveMenus, NEW d \in menu[m].lines \ LiveComponents'
        PROVE  <<m, d>> \in stray'
    <2>1. <<m, d>> \in stray
      BY <1>6 DEF CatalogInv, WholeButForOverlaps, DanglingOnlyByOverlap
    <2>2. m # c
      BY RowIdsAssumption DEF LiveMenus
    <2> QED
      BY <1>2, <2>1, <2>2
  <1>8. ASSUME NEW d \in LiveComponents',
               component'[d].category \in CategoryIds \ LiveCategories
        PROVE  <<d, component'[d].category>> \in stray'
    <2>1. CASE d = c
      <3>1. g # None
        BY <1>4, <1>8, <2>1, NoneAssumption
      <3> QED
        BY <1>1, <1>2, <1>4, <1>8, <2>1, <3>1
    <2>2. CASE d # c
      <3>1. d \in LiveComponents /\ component'[d] = component[d]
        BY <1>4, <1>6, <2>2 DEF LiveComponents
      <3>2. <<d, component[d].category>> \in stray
        BY <1>8, <3>1 DEF CatalogInv, WholeButForOverlaps, DanglingOnlyByOverlap
      <3> QED
        BY <1>2, <2>2, <3>1, <3>2
    <2> QED
      BY <2>1, <2>2
  <1>9. DanglingOnlyByOverlap'
    BY <1>2, <1>6, <1>7, <1>8 DEF DanglingOnlyByOverlap
  <1>10. LinesOfTheLastSave'
    BY <1>2, <1>6 DEF CatalogInv, WholeButForOverlaps, LinesOfTheLastSave
  <1> QED
    BY <1>2, <1>3, <1>5, <1>9, <1>10 DEF CatalogInv, NoLinesYet, WholeButForOverlaps

LEMMA RemoveComponentKeeps ==
  ASSUME CatalogInv, NEW e \in Editors, RemoveComponent(e) PROVE CatalogInv'
  <1> DEFINE c == edit[e].on
  <1>1. /\ edit[e].at = "dropComponent" /\ c \in ComponentIds
        /\ edit[e].late \/ ~ UsedComponent(c)
    BY DEF RemoveComponent, CatalogInv, ReadsStand, Named, ReadStands
  <1>2. /\ component' = [component EXCEPT ![c].life = "deleted"]
        /\ UNCHANGED <<category, menu, lastSave>>
        /\ stray \subseteq stray'
        /\ edit[e].late => \A m \in MenuIds : c \in menu[m].lines => <<m, c>> \in stray'
    BY DEF RemoveComponent
  <1>3. edit' \in [Editors -> Edit] /\ ReadsStand'
    BY WroteMakesLate DEF RemoveComponent
  <1>4. TablesOK'
    BY <1>1, <1>2, <1>3 DEF CatalogInv, TablesOK, Component, Lives
  <1>5. /\ LiveCategories' = LiveCategories /\ LiveMenus' = LiveMenus
        /\ LiveComponents' = LiveComponents \ {c}
        /\ \A d \in ComponentIds : component'[d].category = component[d].category
    BY <1>1, <1>2 DEF LiveComponents, LiveMenus, LiveCategories, CatalogInv, TablesOK,
                      Component
  <1>6. ASSUME NEW m \in LiveMenus, NEW d \in menu[m].lines \ LiveComponents'
        PROVE  <<m, d>> \in stray'
    <2>1. CASE d = c
      BY <1>1, <1>2, <2>1 DEF UsedComponent, LiveMenus
    <2>2. CASE d # c
      BY <1>2, <1>5, <2>2 DEF CatalogInv, WholeButForOverlaps, DanglingOnlyByOverlap
    <2> QED
      BY <2>1, <2>2
  <1>7. ASSUME NEW d \in LiveComponents',
               component'[d].category \in CategoryIds \ LiveCategories
        PROVE  <<d, component'[d].category>> \in stray'
    <2>1. d \in LiveComponents /\ d \in ComponentIds
      BY <1>5 DEF LiveComponents
    <2> QED
      BY <1>2, <1>5, <1>7, <2>1 DEF CatalogInv, WholeButForOverlaps, DanglingOnlyByOverlap
  <1>8. DanglingOnlyByOverlap'
    BY <1>2, <1>5, <1>6, <1>7 DEF DanglingOnlyByOverlap
  <1>9. LinesOfTheLastSave'
    BY <1>2, <1>5 DEF CatalogInv, WholeButForOverlaps, LinesOfTheLastSave
  <1> QED
    BY <1>2, <1>3, <1>4, <1>8, <1>9 DEF CatalogInv, NoLinesYet, WholeButForOverlaps

(* A menu is saved: what its rows keep of another save was already stray.  *)
LEMMA SavedKeeps ==
  ASSUME CatalogInv, NEW e \in Editors, NEW m \in MenuIds, NEW L, NEW rows,
         Saved(e, m, L, rows), L = edit[e].lines, L \subseteq rows,
         edit[e].at \in {"createMenu", "replaceMenu"},
         rows \subseteq L \cup menu[m].lines,
         rows = L \/ edit[e].late,
         edit' \in [Editors -> Edit], ReadsStand'
  PROVE  CatalogInv'
  <1>1. /\ L \subseteq ComponentIds /\ edit[e].late \in BOOLEAN
        /\ edit[e].late \/ L \subseteq LiveComponents
    BY DEF CatalogInv, TablesOK, Edit, ReadsStand, ReadStands
  <1>2. /\ menu' = [menu EXCEPT ![m].life = IF @ = "none" THEN "live" ELSE @,
                                ![m].lines = rows]
        /\ lastSave' = [lastSave EXCEPT ![m] = [lines |-> L, late |-> edit[e].late]]
        /\ stray' = {p \in stray : p[1] # m \/ p[2] \in rows \ L}
                       \cup (IF edit[e].late THEN {m} \X L ELSE {})
        /\ UNCHANGED <<category, component>>
    BY DEF Saved
  <1>3. rows \subseteq ComponentIds
    BY <1>1 DEF CatalogInv, TablesOK, Menu
  <1>4. /\ menu' \in [MenuIds -> Menu] /\ menu'[m].lines = rows
        /\ menu[m].life # "none" => menu'[m].life = menu[m].life
        /\ menu'[m].life # "none"
        /\ \A n \in MenuIds \ {m} : menu'[n] = menu[n]
    <2> DEFINE life == IF menu[m].life = "none" THEN "live" ELSE menu[m].life
    <2>1. menu \in [MenuIds -> Menu] /\ menu[m] \in Menu
      BY DEF CatalogInv, TablesOK
    <2>2. menu' = [menu EXCEPT ![m] = [menu[m] EXCEPT !.life = life, !.lines = rows]]
      BY <1>2, <2>1 DEF Menu
    <2>3. life \in Lives \ {"none"} /\ (menu[m].life # "none" => life = menu[m].life)
      BY <2>1 DEF Menu, Lives
    <2> HIDE DEF life
    <2>4. menu'[m] = [menu[m] EXCEPT !.life = life, !.lines = rows]
      BY <2>1, <2>2
    <2>5. /\ menu'[m] \in Menu /\ menu'[m].life = life /\ menu'[m].lines = rows
      BY <1>3, <2>1, <2>3, <2>4 DEF Menu
    <2> QED
      BY <2>1, <2>2, <2>3, <2>5 DEF Lives
  <1>5. /\ lastSave' \in [MenuIds -> [lines : SUBSET ComponentIds, late : BOOLEAN]]
        /\ lastSave'[m] = [lines |-> L, late |-> edit[e].late]
        /\ \A n \in MenuIds \ {m} : lastSave'[n] = lastSave[n]
    BY <1>1, <1>2 DEF CatalogInv, TablesOK
  <1>6. TablesOK'
    BY <1>2, <1>4, <1>5 DEF CatalogInv, TablesOK
  <1>7. /\ LiveCategories' = LiveCategories /\ LiveComponents' = LiveComponents
        /\ \A n \in LiveMenus' : n \in MenuIds /\ (n # m => n \in LiveMenus)
    BY <1>2, <1>4 DEF LiveComponents, LiveMenus, LiveCategories
  <1>8. ASSUME NEW n \in LiveMenus', NEW c \in menu'[n].lines \ LiveComponents
        PROVE  <<n, c>> \in stray'
    <2>1. CASE n # m
      <3>1. <<n, c>> \in stray
        BY <1>4, <1>7, <2>1 DEF CatalogInv, WholeButForOverlaps, DanglingOnlyByOverlap
      <3> QED
        BY <1>2, <2>1, <3>1
    <2>2. CASE n = m /\ c \in L
      BY <1>1, <1>2, <2>2
    <2>3. CASE n = m /\ c \notin L
      <3>1. c \in rows \ L /\ c \in menu[m].lines /\ menu[m].life # "none"
        BY <1>4, <2>3 DEF CatalogInv, NoLinesYet
      <3>2. m \in LiveMenus
        BY <1>4, <2>3, <3>1 DEF LiveMenus
      <3>3. <<m, c>> \in stray
        BY <3>1, <3>2 DEF CatalogInv, WholeButForOverlaps, DanglingOnlyByOverlap
      <3> QED
        BY <1>2, <2>3, <3>1, <3>3
    <2> QED
      BY <2>1, <2>2, <2>3
  <1>9. ASSUME NEW c \in LiveComponents,
               component[c].category \in CategoryIds \ LiveCategories
        PROVE  <<c, component[c].category>> \in stray'
    <2>1. <<c, component[c].category>> \in stray
      BY <1>9 DEF CatalogInv, WholeButForOverlaps, DanglingOnlyByOverlap
    <2>2. c # m
      BY RowIdsAssumption DEF LiveComponents
    <2> QED
      BY <1>2, <2>1, <2>2
  <1>10. DanglingOnlyByOverlap'
    BY <1>2, <1>7, <1>8, <1>9 DEF DanglingOnlyByOverlap
  <1>11. ASSUME NEW n \in LiveMenus'
         PROVE  /\ lastSave'[n].lines \subseteq menu'[n].lines
                /\ lastSave'[n].late \/ menu'[n].lines \subseteq lastSave'[n].lines
    <2>1. CASE n = m
      BY <1>4, <1>5, <2>1
    <2>2. CASE n # m
      BY <1>4, <1>5, <1>7, <2>2 DEF CatalogInv, WholeButForOverlaps, LinesOfTheLastSave
    <2> QED
      BY <2>1, <2>2
  <1>12. LinesOfTheLastSave'
    BY <1>11 DEF LinesOfTheLastSave
  <1>13. NoLinesYet'
    BY <1>4 DEF CatalogInv, NoLinesYet
  <1> QED
    BY <1>6, <1>10, <1>12, <1>13 DEF CatalogInv, WholeButForOverlaps

LEMMA CatalogInvStep == CatalogInv /\ [EditNext]_editVars => CatalogInv'
  <1> SUFFICES ASSUME CatalogInv, [EditNext]_editVars
               PROVE  CatalogInv'
    OBVIOUS
  <1>1. CASE UNCHANGED editVars
    <2>1. UNCHANGED <<category, component, menu, edit, lastSave, stray>>
      BY <1>1 DEF editVars
    <2>2. TablesOK' /\ NoLinesYet' /\ WholeButForOverlaps'
      BY <2>1 DEF CatalogInv, TablesOK, NoLinesYet, WholeButForOverlaps,
                  DanglingOnlyByOverlap, LinesOfTheLastSave, LiveMenus, LiveComponents,
                  LiveCategories
    <2>3. ReadsStand'
      BY <2>1 DEF CatalogInv, ReadsStand, ReadStands, UsedCategory, UsedComponent,
                  LiveMenus, LiveComponents, LiveCategories
    <2> QED
      BY <2>2, <2>3 DEF CatalogInv
  <1>2. ASSUME NEW e \in Editors, IdleEdit(e),
               CreateCategory(e) \/ UpdateCategory(e) \/ SwitchMenu(e) \/ RemoveMenu(e)
        PROVE  CatalogInv'
    <2>1. CASE CreateCategory(e) \/ UpdateCategory(e)
      <3>1. UNCHANGED <<component, menu, edit, lastSave, stray>>
        BY <2>1 DEF CreateCategory, UpdateCategory
      <3>2. /\ category' \in [CategoryIds -> Category]
            /\ LiveCategories \subseteq LiveCategories'
        <4>1. category \in [CategoryIds -> Category]
          BY DEF CatalogInv, TablesOK
        <4>2. CASE CreateCategory(e)
          <5>1. PICK g \in CategoryIds, base \in BOOLEAN :
                  /\ category[g].life = "none"
                  /\ category' = [category EXCEPT ![g] = [life |-> "live", base |-> base]]
            BY <4>2 DEF CreateCategory
          <5>2. [life |-> "live", base |-> base] \in Category
            BY DEF Category, Lives
          <5> QED
            BY <4>1, <5>1, <5>2 DEF LiveCategories
        <4>3. CASE UpdateCategory(e)
          <5>1. PICK g \in LiveCategories :
                  category' = [category EXCEPT ![g] = [category[g] EXCEPT !.base = ~ @]]
            BY <4>3 DEF UpdateCategory
          <5>2. /\ [category[g] EXCEPT !.base = ~ @] \in Category
                /\ [category[g] EXCEPT !.base = ~ @].life = category[g].life
            BY <4>1, <5>1 DEF Category, LiveCategories
          <5> QED
            BY <4>1, <5>1, <5>2 DEF LiveCategories
        <4> QED
          BY <2>1, <4>2, <4>3
      <3>3. menu' \in [MenuIds -> Menu] /\ LiveMenus' \subseteq LiveMenus
        BY <3>1 DEF CatalogInv, TablesOK, LiveMenus
      <3> QED
        BY <3>1, <3>2, <3>3, HarmlessKeeps
    <2>2. CASE SwitchMenu(e) \/ RemoveMenu(e)
      <3>1. UNCHANGED <<category, component, edit, lastSave, stray>>
        BY <2>2 DEF SwitchMenu, RemoveMenu
      <3>2. /\ menu' \in [MenuIds -> Menu] /\ LiveMenus' \subseteq LiveMenus
            /\ \A m \in MenuIds :
                  /\ menu'[m].lines = menu[m].lines
                  /\ menu'[m].life = "none" => menu[m].life = "none"
        <4>1. menu \in [MenuIds -> Menu]
          BY DEF CatalogInv, TablesOK
        <4>2. CASE SwitchMenu(e)
          <5>1. PICK m \in LiveMenus :
                  menu' = [menu EXCEPT ![m] = [menu[m] EXCEPT !.active = ~ @]]
            BY <4>2 DEF SwitchMenu
          <5> DEFINE after == [menu[m] EXCEPT !.active = ~ @]
          <5>2. after \in Menu /\ after.life = menu[m].life /\ after.lines = menu[m].lines
            BY <4>1, <5>1 DEF Menu, LiveMenus
          <5> HIDE DEF after
          <5> QED
            BY <4>1, <5>1, <5>2 DEF after, LiveMenus
        <4>3. CASE RemoveMenu(e)
          <5>1. PICK m \in LiveMenus :
                  menu' = [menu EXCEPT ![m] = [menu[m] EXCEPT !.life = "deleted"]]
            BY <4>3 DEF RemoveMenu
          <5> DEFINE after == [menu[m] EXCEPT !.life = "deleted"]
          <5>2. after \in Menu /\ after.life = "deleted" /\ after.lines = menu[m].lines
            BY <4>1, <5>1 DEF Menu, LiveMenus, Lives
          <5> HIDE DEF after
          <5> QED
            BY <4>1, <5>1, <5>2 DEF after, LiveMenus
        <4> QED
          BY <2>2, <4>2, <4>3
      <3>3. /\ category' \in [CategoryIds -> Category]
            /\ LiveCategories \subseteq LiveCategories'
        BY <3>1 DEF CatalogInv, TablesOK, LiveCategories
      <3> QED
        BY <3>1, <3>2, <3>3, HarmlessKeeps
    <2> QED
      BY <1>2, <2>1, <2>2
  <1>3. ASSUME NEW e \in Editors, IdleEdit(e),
               \/ ReadForRemoveCategory(e) \/ ReadForCreateComponent(e)
               \/ ReadForUpdateComponent(e) \/ ReadForRemoveComponent(e)
               \/ ReadForCreateMenu(e) \/ ReadForUpdateMenu(e)
        PROVE  CatalogInv'
    <2> USE DEF NoEdit, Edit, Named
    <2>1. ASSUME ReadForRemoveCategory(e) PROVE CatalogInv'
      <3>1. PICK g \in LiveCategories :
              ~ UsedCategory(g) /\ Reads(e, [NoEdit EXCEPT !.at = "dropCategory", !.on = g])
        BY <2>1 DEF ReadForRemoveCategory
      <3>2. g \in CategoryIds
        BY DEF LiveCategories
      <3> QED
        BY <3>1, <3>2, ReadingKeeps
    <2>2. ASSUME ReadForCreateComponent(e) PROVE CatalogInv'
      <3>1. PICK g \in LiveCategories \cup {None} :
              Reads(e, [NoEdit EXCEPT !.at = "createComponent", !.category = g])
        BY <2>2 DEF ReadForCreateComponent
      <3>2. g \in CategoryIds \cup {None}
        BY DEF LiveCategories
      <3> QED
        BY <3>1, <3>2, ReadingKeeps
    <2>3. ASSUME ReadForUpdateComponent(e) PROVE CatalogInv'
      <3>1. PICK c \in LiveComponents, g \in LiveCategories \cup {None} :
              Reads(e, [NoEdit EXCEPT !.at = "updateComponent", !.on = c, !.category = g])
        BY <2>3 DEF ReadForUpdateComponent
      <3>2. c \in ComponentIds /\ g \in CategoryIds \cup {None}
        BY DEF LiveCategories, LiveComponents
      <3> QED
        BY <3>1, <3>2, ReadingKeeps
    <2>4. ASSUME ReadForRemoveComponent(e) PROVE CatalogInv'
      <3>1. PICK c \in LiveComponents :
              ~ UsedComponent(c) /\ Reads(e, [NoEdit EXCEPT !.at = "dropComponent", !.on = c])
        BY <2>4 DEF ReadForRemoveComponent
      <3>2. c \in ComponentIds
        BY DEF LiveComponents
      <3> QED
        BY <3>1, <3>2, ReadingKeeps
    <2>5. ASSUME ReadForCreateMenu(e) PROVE CatalogInv'
      <3>1. PICK L \in ValidLines :
              Reads(e, [NoEdit EXCEPT !.at = "createMenu", !.lines = L])
        BY <2>5 DEF ReadForCreateMenu
      <3>2. L \subseteq LiveComponents /\ L \in SUBSET ComponentIds
        BY DEF ValidLines, LiveComponents
      <3> QED
        BY <3>1, <3>2, ReadingKeeps
    <2>6. ASSUME ReadForUpdateMenu(e) PROVE CatalogInv'
      <3>1. PICK m \in LiveMenus, L \in ValidLines :
              Reads(e, [NoEdit EXCEPT !.at = "updateMenu", !.on = m, !.lines = L])
        BY <2>6 DEF ReadForUpdateMenu
      <3>2. m \in MenuIds /\ L \subseteq LiveComponents /\ L \in SUBSET ComponentIds
        BY DEF ValidLines, LiveComponents, LiveMenus
      <3> QED
        BY <3>1, <3>2, ReadingKeeps
    <2> QED
      BY <1>3, <2>1, <2>2, <2>3, <2>4, <2>5, <2>6
  <1>4. ASSUME NEW e \in Editors, StartReplace(e) PROVE CatalogInv'
    <2> DEFINE what == [edit[e] EXCEPT !.at = "replaceMenu", !.fresh = TRUE]
    <2>1. edit[e].at = "updateMenu" /\ Reads(e, what)
      BY <1>4 DEF StartReplace
    <2>2. edit[e] \in Edit /\ Named(edit[e]) /\ (edit[e].late \/ ReadStands(e))
      BY DEF CatalogInv, TablesOK, ReadsStand
    <2>3. /\ what \in Edit /\ what.at = "replaceMenu" /\ what.on = edit[e].on
          /\ what.lines = edit[e].lines /\ what.fresh /\ what.late = edit[e].late
      BY <2>2 DEF Edit
    <2>4. Named(what) /\ (what.late \/ what.lines \subseteq LiveComponents)
      BY <2>1, <2>2, <2>3 DEF Named, ReadStands
    <2> HIDE DEF what
    <2> QED
      BY <2>1, <2>3, <2>4, ReadingKeeps
  <1>5. ASSUME NEW e \in Editors, Reads(e, NoEdit) PROVE CatalogInv'
    BY <1>5, ReadingKeeps DEF NoEdit, Edit, Named
  <1>6. ASSUME NEW e \in Editors, CreateComponent(e) PROVE CatalogInv'
    BY <1>6, ClassifiedKeeps DEF CreateComponent
  <1>7. ASSUME NEW e \in Editors, UpdateComponent(e) PROVE CatalogInv'
    <2>1. edit[e].at = "updateComponent" /\ edit[e].on \in ComponentIds
      BY <1>7 DEF UpdateComponent, CatalogInv, ReadsStand, Named
    <2> QED
      BY <1>7, <2>1, ClassifiedKeeps DEF UpdateComponent
  <1>8. ASSUME NEW e \in Editors, CreateMenu(e) PROVE CatalogInv'
    <2>1. PICK m \in MenuIds : Saved(e, m, edit[e].lines, edit[e].lines)
      BY <1>8 DEF CreateMenu
    <2>2. edit' \in [Editors -> Edit] /\ ReadsStand'
      BY <1>8, WroteMakesLate DEF CreateMenu
    <2> QED
      BY <1>8, <2>1, <2>2, SavedKeeps DEF CreateMenu
  <1>9. ASSUME NEW e \in Editors, CommitReplace(e) PROVE CatalogInv'
    <2> DEFINE m == edit[e].on
               L == edit[e].lines
    <2>1. /\ edit[e].at = "replaceMenu" /\ m \in MenuIds
          /\ edit[e].late \/ edit[e].fresh
      BY <1>9 DEF CommitReplace, CatalogInv, ReadsStand, Named, ReadStands
    <2>2. CASE L \cap Left(e) # {}
      BY <1>5, <1>9, <2>2 DEF CommitReplace
    <2>3. CASE L \cap Left(e) = {}
      <3> DEFINE fresh == [f \in Editors |-> edit[f].fresh /\ edit[f].on # m]
      <3>1. Saved(e, m, L, Left(e) \cup L)
        BY <1>9, <2>3 DEF CommitReplace
      <3>2. edit' = [f \in Editors |->
                       IF f = e \/ IdleEdit(f) THEN NoEdit
                       ELSE [edit[f] EXCEPT !.late = TRUE, !.fresh = @ /\ edit[f].on # m]]
        BY <1>9, <2>3 DEF CommitReplace
      <3>3. edit' = [f \in Editors |->
                       IF f = e \/ IdleEdit(f) THEN NoEdit
                       ELSE [edit[f] EXCEPT !.late = TRUE, !.fresh = fresh[f]]]
        BY <3>2
      <3>4. fresh \in [Editors -> BOOLEAN]
        BY SMTT(30)
      <3> HIDE DEF fresh
      <3>5. edit' \in [Editors -> Edit] /\ ReadsStand'
        BY <3>3, <3>4, WritingMakesLate
      <3>6. Left(e) \cup L \subseteq L \cup menu[m].lines
        BY DEF Left
      <3>7. Left(e) \cup L = L \/ edit[e].late
        BY <2>1 DEF Left
      <3> QED
        BY <2>1, <3>1, <3>5, <3>6, <3>7, SavedKeeps
    <2> QED
      BY <2>2, <2>3
  <1>10. ASSUME NEW e \in Editors, DropEdit(e) PROVE CatalogInv'
    BY <1>5, <1>10 DEF DropEdit
  <1> QED
    <2>1. CASE EditNext
      <3>1. PICK e \in Editors :
              \/ CreateCategory(e) \/ UpdateCategory(e) \/ ReadForRemoveCategory(e)
              \/ RemoveCategory(e) \/ ReadForCreateComponent(e) \/ CreateComponent(e)
              \/ ReadForUpdateComponent(e) \/ UpdateComponent(e)
              \/ ReadForRemoveComponent(e) \/ RemoveComponent(e) \/ ReadForCreateMenu(e)
              \/ CreateMenu(e) \/ ReadForUpdateMenu(e) \/ StartReplace(e)
              \/ CommitReplace(e) \/ SwitchMenu(e) \/ RemoveMenu(e) \/ DropEdit(e)
        BY <2>1, SMTT(30) DEF EditNext
      <3>2. \/ CreateCategory(e) \/ UpdateCategory(e) \/ SwitchMenu(e) \/ RemoveMenu(e)
            \/ ReadForRemoveCategory(e) \/ ReadForCreateComponent(e)
            \/ ReadForUpdateComponent(e) \/ ReadForRemoveComponent(e)
            \/ ReadForCreateMenu(e) \/ ReadForUpdateMenu(e)
            => IdleEdit(e)
        BY DEF CreateCategory, UpdateCategory, SwitchMenu, RemoveMenu, ReadForRemoveCategory,
               ReadForCreateComponent, ReadForUpdateComponent, ReadForRemoveComponent,
               ReadForCreateMenu, ReadForUpdateMenu
      <3> QED
        BY <1>2, <1>3, <1>4, <1>6, <1>7, <1>8, <1>9, <1>10, <3>1, <3>2,
           RemoveCategoryKeeps, RemoveComponentKeeps
    <2> QED
      BY <1>1, <2>1

(* What the creations of orders hold: a component that is deducted is one  *)
(* that the order needs, and no editor deletes it before the order ends.   *)
CreationsInv ==
  /\ creation \in [Creations -> Creation]
  /\ \A p \in Creations :
        creation[p].deducted \subseteq creation[p].needed \cap LiveComponents

LEMMA CreationsInvInit == CatalogInit => CreationsInv
  BY DEF CatalogInit, CreationsInv, NoCreation, Creation

(* An edit leaves alive whatever a creation has deducted.                  *)
LEMMA DeductedStaysAlive ==
  ASSUME CatalogInv, CreationsInv, EditNext
  PROVE  Deducted \subseteq LiveComponents'
  <1>1. Deducted \subseteq LiveComponents
    BY DEF Deducted, CreationsInv
  <1>2. component \in [ComponentIds -> Component]
    BY DEF CatalogInv, TablesOK
  <1>3. ASSUME NEW e \in Editors, NEW c \in ComponentIds, Classified(e, c)
        PROVE  LiveComponents \subseteq LiveComponents'
    BY <1>2, <1>3 DEF Classified, LiveComponents, Component
  <1>4. ASSUME NEW e \in Editors, RemoveComponent(e)
        PROVE  LiveComponents \ {edit[e].on} \subseteq LiveComponents'
               /\ edit[e].on \notin Deducted
    BY <1>2, <1>4 DEF RemoveComponent, LiveComponents, Component
  <1>5. ASSUME NEW e \in Editors, CreateComponent(e) \/ UpdateComponent(e)
        PROVE  LiveComponents \subseteq LiveComponents'
    <2>1. CASE CreateComponent(e)
      BY <1>3, <2>1 DEF CreateComponent
    <2>2. CASE UpdateComponent(e)
      <3>1. edit[e].on \in ComponentIds
        BY <2>2 DEF UpdateComponent, CatalogInv, ReadsStand, Named
      <3> QED
        BY <1>3, <2>2, <3>1 DEF UpdateComponent
    <2> QED
      BY <1>5, <2>1, <2>2
  <1>6. ASSUME NEW m, NEW L, NEW rows, NEW e \in Editors, Saved(e, m, L, rows)
        PROVE  UNCHANGED component
    BY <1>6 DEF Saved
  <1>7. ASSUME NEW e \in Editors, NEW what, Reads(e, what)
        PROVE  UNCHANGED component
    BY <1>7, SMTT(30) DEF Reads
  <1>8. ASSUME NEW e \in Editors,
               \/ CreateCategory(e) \/ UpdateCategory(e) \/ ReadForRemoveCategory(e)
               \/ RemoveCategory(e) \/ ReadForCreateComponent(e)
               \/ ReadForUpdateComponent(e) \/ ReadForRemoveComponent(e)
               \/ ReadForCreateMenu(e) \/ ReadForUpdateMenu(e) \/ StartReplace(e)
               \/ SwitchMenu(e) \/ RemoveMenu(e) \/ DropEdit(e)
        PROVE  UNCHANGED component
    BY <1>7, <1>8 DEF CreateCategory, UpdateCategory, ReadForRemoveCategory, RemoveCategory,
           ReadForCreateComponent, ReadForUpdateComponent, ReadForRemoveComponent,
           ReadForCreateMenu, ReadForUpdateMenu, StartReplace, SwitchMenu, RemoveMenu, DropEdit
  <1>9. ASSUME NEW e \in Editors, CreateMenu(e) \/ CommitReplace(e)
        PROVE  UNCHANGED component
    BY <1>6, <1>7, <1>9 DEF CreateMenu, CommitReplace
  <1>10. UNCHANGED component => LiveComponents' = LiveComponents
    BY DEF LiveComponents
  <1>11. PICK e \in Editors :
           \/ CreateCategory(e) \/ UpdateCategory(e) \/ ReadForRemoveCategory(e)
           \/ RemoveCategory(e) \/ ReadForCreateComponent(e) \/ CreateComponent(e)
           \/ ReadForUpdateComponent(e) \/ UpdateComponent(e)
           \/ ReadForRemoveComponent(e) \/ RemoveComponent(e) \/ ReadForCreateMenu(e)
           \/ CreateMenu(e) \/ ReadForUpdateMenu(e) \/ StartReplace(e)
           \/ CommitReplace(e) \/ SwitchMenu(e) \/ RemoveMenu(e) \/ DropEdit(e)
    BY SMTT(30) DEF EditNext
  <1> QED
    BY <1>1, <1>4, <1>5, <1>8, <1>9, <1>10, <1>11

LEMMA CreationsInvStep ==
  CatalogInv /\ CreationsInv /\ [CatalogNext]_catalogVars => CreationsInv'
  <1> SUFFICES ASSUME CatalogInv, CreationsInv, [CatalogNext]_catalogVars
               PROVE  CreationsInv'
    OBVIOUS
  <1>1. CASE EditNext /\ UNCHANGED creation
    <2>1. Deducted \subseteq LiveComponents'
      BY <1>1, DeductedStaysAlive
    <2> QED
      BY <1>1, <2>1 DEF CreationsInv, Deducted
  <1>2. ASSUME NEW p \in Creations, UNCHANGED editVars,
               ReadForOrder(p) \/ Deduct(p) \/ InsertOrder(p) \/ UndoOrder(p)
        PROVE  CreationsInv'
    <2>1. LiveComponents' = LiveComponents
      BY <1>2 DEF editVars, LiveComponents
    <2>2. creation[p] \in Creation /\ NoCreation \in Creation
          /\ NoCreation.deducted = {}
      BY DEF CreationsInv, Creation, NoCreation
    <2>3. ASSUME NEW became \in Creation, became.deducted \subseteq became.needed \cap LiveComponents,
                 creation' = [creation EXCEPT ![p] = became]
          PROVE  CreationsInv'
      BY <2>1, <2>3 DEF CreationsInv
    <2>4. CASE ReadForOrder(p)
      <3>1. PICK free \in SUBSET ComponentIds : \E menus \in SUBSET MenuIds :
              creation' = [creation EXCEPT ![p].needed = Needed(free, menus)]
        BY <2>4 DEF ReadForOrder
      <3>2. PICK menus \in SUBSET MenuIds :
              creation' = [creation EXCEPT ![p].needed = Needed(free, menus)]
        BY <3>1
      <3>3. Needed(free, menus) \subseteq ComponentIds
        BY DEF Needed, CatalogInv, TablesOK, Menu
      <3>4. creation[p].deducted = {}
        BY <2>2, <2>4 DEF ReadForOrder
      <3> DEFINE became == [creation[p] EXCEPT !.needed = Needed(free, menus)]
      <3>5. became \in Creation /\ became.deducted = {}
        BY <2>2, <3>3, <3>4 DEF Creation
      <3>6. creation' = [creation EXCEPT ![p] = became]
        BY <3>2
      <3> HIDE DEF became
      <3> QED
        BY <2>3, <3>5, <3>6
    <2>5. CASE Deduct(p)
      <3>1. PICK c \in creation[p].needed \ Deducted :
              creation' = IF Deductible(c) THEN [creation EXCEPT ![p].deducted = @ \cup {c}]
                                           ELSE [creation EXCEPT ![p] = NoCreation]
        BY <2>5 DEF Deduct
      <3>2. CASE Deductible(c)
        <4> DEFINE became == [creation[p] EXCEPT !.deducted = @ \cup {c}]
        <4>1. c \in LiveComponents /\ c \in creation[p].needed
          BY <2>2, <3>1, <3>2 DEF Deductible, Sellable, LiveComponents, Creation
        <4>2. became \in Creation /\ became.deducted \subseteq became.needed \cap LiveComponents
          BY <2>2, <4>1 DEF Creation, CreationsInv
        <4>3. creation' = [creation EXCEPT ![p] = became]
          BY <3>1, <3>2
        <4> HIDE DEF became
        <4> QED
          BY <2>3, <4>2, <4>3
      <3>3. CASE ~ Deductible(c)
        BY <2>2, <2>3, <3>1, <3>3
      <3> QED
        BY <3>2, <3>3
    <2>6. CASE InsertOrder(p) \/ UndoOrder(p)
      BY <2>2, <2>3, <2>6 DEF InsertOrder, UndoOrder
    <2> QED
      BY <1>2, <2>4, <2>5, <2>6
  <1>3. CASE UNCHANGED catalogVars
    BY <1>3 DEF catalogVars, editVars, CreationsInv, LiveComponents
  <1> QED
    BY <1>1, <1>2, <1>3 DEF CatalogNext, CreationNext

(* Editors move only while the creations stand still, and conversely.      *)
LEMMA EditorsMove == [CatalogNext]_catalogVars => [EditNext]_editVars
  BY DEF CatalogNext, catalogVars

LEMMA CatalogHolds == CatalogSpec => [](CatalogInv /\ CreationsInv)
  BY CatalogInvInit, CatalogInvStep, CreationsInvInit, CreationsInvStep, EditorsMove, PTL
  DEF CatalogSpec

(* However many editors, whatever they do to a catalog and in whatever     *)
(* order: a menu keeps a deleted component, or a component a deleted       *)
(* category, only where two calls overlapped, and a menu has the lines of  *)
(* its last save.                                                          *)
THEOREM CatalogStaysWhole == CatalogSpec => []WholeButForOverlaps
  <1>1. CatalogInv => WholeButForOverlaps
    BY DEF CatalogInv
  <1> QED
    BY <1>1, CatalogHolds, PTL

(* Whatever the editors do between the reading of an order and its         *)
(* insertion, and whatever their overlaps left in the menus it was         *)
(* composed from, an order that is inserted takes only components that are *)
(* alive (orders.service.ts:317).                                          *)
THEOREM OrdersTakeWhatIsAlive == CatalogSpec => []PlacedOrdersStand
  <1>1. CreationsInv => PlacedOrdersStand
    BY DEF CreationsInv, PlacedOrdersStand, ReadyToInsert
  <1> QED
    BY <1>1, CatalogHolds, PTL

-----------------------------------------------------------------------------
(***************************************************************************)
(* The fees of a withdrawal.  The fees of a table never go down from one   *)
(* bracket to the next, and a greater amount finds the same bracket or a   *)
(* later one: what it is sent with can only grow.                          *)
(***************************************************************************)

LEMMA LowestIndex ==
  ASSUME NEW n \in Nat, NEW I \in SUBSET (1..n), I # {}
  PROVE  Min(I) \in I /\ \A i \in I : Min(I) <= i
  <1> DEFINE R == {e \in I \X I : e[2] < e[1]}
  <1>1. IsFiniteSet(I) /\ I \subseteq Nat
    <2>1. IsFiniteSet(1..n)
      BY FS_Interval
    <2>2. IsFiniteSet(I)
      BY <2>1, FS_Subset, Zenon
    <2> QED
      BY <2>2
  <1>2. \A x \in I : <<x, x>> \notin R
    BY <1>1
  <1>3. \A x, y, z \in I : <<x, y>> \in R /\ <<y, z>> \in R => <<x, z>> \in R
    BY <1>1
  <1>4. PICK x \in I : \A y \in I : <<x, y>> \notin R
    <2> HIDE DEF R
    <2> QED
      BY <1>1, <1>2, <1>3, FiniteHasMaximal
  <1>5. ASSUME NEW y \in I PROVE x <= y
    <2>1. <<x, y>> \notin R
      BY <1>4
    <2>2. ~ (y < x)
      BY <2>1
    <2> QED
      BY <1>1, <2>2
  <1> QED
    BY <1>5 DEF Min

(* A table of at least one bracket. *)
Table(brackets) ==
  /\ Len(brackets) \in Nat \ {0}
  /\ \A i \in 1..Len(brackets) : brackets[i][1] \in Nat /\ brackets[i][2] \in Nat

Reaching(amount, brackets) == {i \in 1..Len(brackets) : amount <= brackets[i][1]}

LEMMA FeeOfABracket ==
  ASSUME NEW brackets, Table(brackets), NEW amount \in Nat
  PROVE  LET I == Reaching(amount, brackets)
             k == IF I = {} THEN Len(brackets) ELSE Min(I)
         IN  k \in 1..Len(brackets) /\ FeeFromBrackets(amount, brackets) = brackets[k][2]
  <1> DEFINE I == Reaching(amount, brackets)
  <1>1. PICK found :
          /\ found = IF I # {} THEN Min(I) ELSE 0
          /\ FeeFromBrackets(amount, brackets)
               = IF found = 0 THEN Last(brackets)[2] ELSE brackets[found][2]
    <2>1. SelectInSeq(brackets, LAMBDA b : amount <= b[1]) = IF I # {} THEN Min(I) ELSE 0
      BY DEF SelectInSeq, Reaching
    <2> QED
      BY <2>1, Zenon DEF FeeFromBrackets
  <1>2. I \in SUBSET (1..Len(brackets)) /\ Len(brackets) \in Nat \ {0}
    BY DEF Reaching, Table
  <1>3. Last(brackets) = brackets[Len(brackets)]
    BY DEF Last
  <1> HIDE DEF I
  <1>4. LET k == IF I = {} THEN Len(brackets) ELSE Min(I)
        IN  k \in 1..Len(brackets) /\ FeeFromBrackets(amount, brackets) = brackets[k][2]
    <2>1. CASE I = {}
      BY <1>1, <1>2, <1>3, <2>1
    <2>2. CASE I # {}
      <3>1. Min(I) \in 1..Len(brackets)
        BY <1>2, <2>2, LowestIndex
      <3>2. found = Min(I)
        BY <1>1, <2>2
      <3>3. found # 0
        BY <1>2, <3>1, <3>2
      <3>4. FeeFromBrackets(amount, brackets) = brackets[found][2]
        BY <1>1, <3>3
      <3> QED
        BY <2>2, <3>1, <3>2, <3>4
    <2> QED
      BY <2>1, <2>2
  <1> QED
    BY <1>4 DEF I

LEMMA FeeIsNat ==
  ASSUME NEW brackets, Table(brackets), NEW amount \in Nat
  PROVE  FeeFromBrackets(amount, brackets) \in Nat
  BY FeeOfABracket, ZenonT(30) DEF Table

LEMMA LaterBracket ==
  ASSUME NEW brackets, Table(brackets), NEW amount \in Nat, NEW more \in Nat, amount <= more,
         Reaching(more, brackets) # {}
  PROVE  /\ Reaching(amount, brackets) # {}
         /\ Min(Reaching(amount, brackets)) <= Min(Reaching(more, brackets))
  <1>1. /\ Reaching(more, brackets) \in SUBSET (1..Len(brackets))
        /\ Reaching(amount, brackets) \in SUBSET (1..Len(brackets))
        /\ Len(brackets) \in Nat
    BY DEF Reaching, Table
  <1>2. Reaching(more, brackets) \subseteq Reaching(amount, brackets)
    BY DEF Reaching, Table
  <1> QED
    BY <1>1, <1>2, LowestIndex

LEMMA FeesRise ==
  ASSUME NEW brackets, Table(brackets),
         \A i, j \in 1..Len(brackets) : i <= j => brackets[i][2] <= brackets[j][2],
         NEW amount \in Nat, NEW more \in Nat, amount <= more
  PROVE  FeeFromBrackets(amount, brackets) <= FeeFromBrackets(more, brackets)
  <1> DEFINE I == Reaching(amount, brackets)
             J == Reaching(more, brackets)
             k == IF I = {} THEN Len(brackets) ELSE Min(I)
             l == IF J = {} THEN Len(brackets) ELSE Min(J)
  <1>1. /\ k \in 1..Len(brackets) /\ FeeFromBrackets(amount, brackets) = brackets[k][2]
        /\ l \in 1..Len(brackets) /\ FeeFromBrackets(more, brackets) = brackets[l][2]
    BY FeeOfABracket
  <1>2. k <= l
    <2>1. J # {} => I # {} /\ Min(I) <= Min(J)
      BY LaterBracket
    <2> QED
      BY <1>1, <2>1
  <1> HIDE DEF k, l
  <1> QED
    BY <1>1, <1>2

LEMMA PayoutTable == Table(PayoutBrackets)
  <1>1. Len(PayoutBrackets) = 5
    BY DEF PayoutBrackets
  <1>2. \A i \in 1..5 : i = 1 \/ i = 2 \/ i = 3 \/ i = 4 \/ i = 5
    OBVIOUS
  <1> QED
    BY <1>1, <1>2 DEF Table, PayoutBrackets

LEMMA FloozTable ==
  /\ Table(FloozBrackets)
  /\ \A i, j \in 1..Len(FloozBrackets) : i <= j => FloozBrackets[i][2] <= FloozBrackets[j][2]
  <1>1. Len(FloozBrackets) = 7
    BY DEF FloozBrackets
  <1>2. \A i \in 1..7 : i = 1 \/ i = 2 \/ i = 3 \/ i = 4 \/ i = 5 \/ i = 6 \/ i = 7
    BY SMTT(30)
  <1> QED
    BY <1>1, <1>2 DEF Table, FloozBrackets

LEMMA MixxTable ==
  /\ Table(MixxBrackets)
  /\ \A i, j \in 1..Len(MixxBrackets) : i <= j => MixxBrackets[i][2] <= MixxBrackets[j][2]
  <1>1. Len(MixxBrackets) = 23
    BY DEF MixxBrackets
  <1>2. \A i \in 1..23 :
          \/ i = 1 \/ i = 2 \/ i = 3 \/ i = 4 \/ i = 5 \/ i = 6 \/ i = 7 \/ i = 8
          \/ i = 9 \/ i = 10 \/ i = 11 \/ i = 12 \/ i = 13 \/ i = 14 \/ i = 15
          \/ i = 16 \/ i = 17 \/ i = 18 \/ i = 19 \/ i = 20 \/ i = 21 \/ i = 22 \/ i = 23
    OBVIOUS
  <1>3. Table(MixxBrackets)
    BY <1>1, <1>2 DEF Table, MixxBrackets
  <1>4. \A i, j \in 1..23 : i <= j => MixxBrackets[i][2] <= MixxBrackets[j][2]
    BY <1>2, SMTT(60) DEF MixxBrackets
  <1> QED
    BY <1>1, <1>3, <1>4

(* A range of Flooz goes up from its first fee to its last. *)
LEMMA RangeRises ==
  ASSUME NEW k \in 1..7, NEW amount \in Nat, NEW more \in Nat, amount <= more
  PROVE  LET band == FloozRanges[k] IN
         /\ FeeInRange(amount, band) \in Nat /\ FeeInRange(more, band) \in Nat
         /\ band[3] <= FeeInRange(amount, band)
         /\ FeeInRange(amount, band) <= FeeInRange(more, band)
         /\ FeeInRange(more, band) <= band[4]
  <1>1. CASE k = 1
    BY <1>1 DEF FloozRanges, FeeInRange, Rounded
  <1>2. CASE k = 2
    BY <1>2 DEF FloozRanges, FeeInRange, Rounded
  <1>3. CASE k = 3
    BY <1>3 DEF FloozRanges, FeeInRange, Rounded
  <1>4. CASE k = 4
    BY <1>4 DEF FloozRanges, FeeInRange, Rounded
  <1>5. CASE k = 5
    BY <1>5 DEF FloozRanges, FeeInRange, Rounded
  <1>6. CASE k = 6
    BY <1>6 DEF FloozRanges, FeeInRange, Rounded
  <1>7. CASE k = 7
    BY <1>7 DEF FloozRanges, FeeInRange, Rounded
  <1> QED
    BY <1>1, <1>2, <1>3, <1>4, <1>5, <1>6, <1>7

LEMMA RangesJoin ==
  /\ Len(FloozRanges) = 7 /\ FloozRanges[7][4] = 9788
  /\ \A i \in 1..7 :
        /\ FloozRanges[i][3] \in Nat /\ FloozRanges[i][4] \in Nat
        /\ 1000 <= FloozRanges[i][3] /\ FloozRanges[i][4] <= 9788
  /\ \A i, j \in 1..7 : i < j => FloozRanges[i][4] <= FloozRanges[j][3]
  <1>1. \A i \in 1..7 : i = 1 \/ i = 2 \/ i = 3 \/ i = 4 \/ i = 5 \/ i = 6 \/ i = 7
    OBVIOUS
  <1> QED
    BY <1>1 DEF FloozRanges

LEMMA FloozUpTo ==
  ASSUME NEW amount \in Nat, amount <= FloozBracketsUpTo
  PROVE  FloozCashFee(amount) \in Nat /\ FloozCashFee(amount) <= 1000
  <1>1. 7 \in Reaching(amount, FloozBrackets) /\ Len(FloozBrackets) = 7
        /\ FloozBrackets[7][2] = 1000
    BY DEF Reaching, FloozBrackets, FloozBracketsUpTo
  <1>2. FeeFromBrackets(amount, FloozBrackets)
          = FloozBrackets[Min(Reaching(amount, FloozBrackets))][2]
    BY <1>1, FloozTable, FeeOfABracket
  <1>3. Min(Reaching(amount, FloozBrackets)) \in 1..7
    BY <1>1, FloozTable, FeeOfABracket
  <1>4. FeeFromBrackets(amount, FloozBrackets) <= 1000
    BY <1>1, <1>2, <1>3, FloozTable
  <1>5. FloozCashFee(amount) = FeeFromBrackets(amount, FloozBrackets)
    BY Zenon DEF FloozCashFee
  <1> QED
    BY <1>4, <1>5, FeeIsNat, FloozTable

InRange(amount) == {i \in 1..7 : amount <= FloozRanges[i][2]}

LEMMA FloozBeyond ==
  ASSUME NEW amount \in Nat, amount > FloozBracketsUpTo
  PROVE  LET I == InRange(amount) IN
         FloozCashFee(amount)
           = IF I = {} THEN 9788 ELSE FeeInRange(amount, FloozRanges[Min(I)])
  <1> DEFINE I == InRange(amount)
  <1>1. PICK found :
          /\ found = IF I # {} THEN Min(I) ELSE 0
          /\ FloozCashFee(amount)
               = IF found = 0 THEN Last(FloozRanges)[4]
                 ELSE FeeInRange(amount, FloozRanges[found])
    <2>1. SelectInSeq(FloozRanges, LAMBDA b : amount <= b[2])
            = IF I # {} THEN Min(I) ELSE 0
      BY RangesJoin DEF SelectInSeq, InRange
    <2>2. ~ (amount <= FloozBracketsUpTo)
      BY DEF FloozBracketsUpTo
    <2> QED
      BY <2>1, <2>2, Zenon DEF FloozCashFee
  <1>2. Last(FloozRanges)[4] = 9788
    BY RangesJoin DEF Last
  <1>3. I \in SUBSET (1..7)
    BY DEF InRange
  <1> HIDE DEF I
  <1>4. I # {} => Min(I) \in 1..7
    <2>1. 7 \in Nat
      OBVIOUS
    <2> QED
      BY ONLY <1>3, <2>1, LowestIndex
  <1>5. FloozCashFee(amount) = IF I = {} THEN 9788 ELSE FeeInRange(amount, FloozRanges[Min(I)])
    <2>1. CASE I = {}
      BY <1>1, <1>2, <2>1
    <2>2. CASE I # {}
      <3>1. found = Min(I) /\ found # 0
        BY <1>1, <1>4, <2>2
      <3> QED
        BY <1>1, <2>2, <3>1
    <2> QED
      BY <2>1, <2>2
  <1> QED
    BY <1>5 DEF I

LEMMA FloozBeyondBounds ==
  ASSUME NEW amount \in Nat, amount > FloozBracketsUpTo
  PROVE  FloozCashFee(amount) \in Nat /\ 1000 <= FloozCashFee(amount)
           /\ FloozCashFee(amount) <= 9788
  <1> DEFINE k == Min(InRange(amount))
  <1>1. CASE InRange(amount) = {}
    BY <1>1, FloozBeyond
  <1>2. CASE InRange(amount) # {}
    <2>1. k \in 1..7
      BY <1>2, LowestIndex DEF InRange
    <2>2. FloozCashFee(amount) = FeeInRange(amount, FloozRanges[k])
      BY <1>2, FloozBeyond
    <2> HIDE DEF k
    <2>3. /\ FeeInRange(amount, FloozRanges[k]) \in Nat
          /\ FloozRanges[k][3] <= FeeInRange(amount, FloozRanges[k])
          /\ FeeInRange(amount, FloozRanges[k]) <= FloozRanges[k][4]
      <3>1. amount <= amount
        OBVIOUS
      <3> QED
        BY ONLY <2>1, <3>1, amount \in Nat, RangeRises
    <2>4. /\ FloozRanges[k][3] \in Nat /\ FloozRanges[k][4] \in Nat
          /\ 1000 <= FloozRanges[k][3] /\ FloozRanges[k][4] <= 9788
      BY <2>1, RangesJoin
    <2> QED
      BY <2>2, <2>3, <2>4
  <1> QED
    BY <1>1, <1>2

LEMMA FloozRises ==
  ASSUME NEW amount \in Nat, NEW more \in Nat, amount <= more
  PROVE  FloozCashFee(amount) <= FloozCashFee(more)
  <1>0. FloozBracketsUpTo \in Nat
    BY DEF FloozBracketsUpTo
  <1>1. CASE more <= FloozBracketsUpTo
    <2>1. amount <= FloozBracketsUpTo
      BY <1>0, <1>1
    <2>2. /\ FloozCashFee(amount) = FeeFromBrackets(amount, FloozBrackets)
          /\ FloozCashFee(more) = FeeFromBrackets(more, FloozBrackets)
      BY <1>1, <2>1, Zenon DEF FloozCashFee
    <2> QED
      BY <2>2, FeesRise, FloozTable
  <1>2. CASE amount <= FloozBracketsUpTo /\ more > FloozBracketsUpTo
    BY <1>2, FloozUpTo, FloozBeyondBounds
  <1>3. CASE amount > FloozBracketsUpTo
    <2> DEFINE I == InRange(amount)
               J == InRange(more)
    <2>1. more > FloozBracketsUpTo
      BY <1>0, <1>3
    <2>2. J \subseteq I /\ I \in SUBSET (1..7) /\ J \in SUBSET (1..7)
      <3>1. \A i \in 1..7 : FloozRanges[i][2] \in Nat
        <4>1. \A i \in 1..7 : i = 1 \/ i = 2 \/ i = 3 \/ i = 4 \/ i = 5 \/ i = 6 \/ i = 7
          OBVIOUS
        <4> QED
          BY <4>1 DEF FloozRanges
      <3> QED
        BY <3>1 DEF InRange
    <2>3. CASE J = {}
      BY <1>3, <2>1, <2>3, FloozBeyond, FloozBeyondBounds
    <2>4. CASE J # {}
      <3> DEFINE k == Min(I)
                 l == Min(J)
      <3> HIDE DEF I, J
      <3>1. I # {} /\ k \in 1..7 /\ l \in 1..7 /\ k <= l
        BY <2>2, <2>4, LowestIndex
      <3>2. /\ FloozCashFee(amount) = FeeInRange(amount, FloozRanges[k])
            /\ FloozCashFee(more) = FeeInRange(more, FloozRanges[l])
        BY <1>3, <2>1, <2>4, <3>1, FloozBeyond DEF I, J
      <3> HIDE DEF k, l
      <3>3. CASE k = l
        BY <3>1, <3>2, <3>3, RangeRises
      <3>4. CASE k < l
        <4>1. /\ FeeInRange(amount, FloozRanges[k]) \in Nat
              /\ FeeInRange(amount, FloozRanges[k]) <= FloozRanges[k][4]
              /\ FeeInRange(more, FloozRanges[l]) \in Nat
              /\ FloozRanges[l][3] <= FeeInRange(more, FloozRanges[l])
          <5>1. amount <= amount /\ more <= more
            OBVIOUS
          <5> QED
            BY ONLY <3>1, <5>1, amount \in Nat, more \in Nat, RangeRises
        <4>2. /\ FloozRanges[k][4] <= FloozRanges[l][3]
              /\ FloozRanges[k][4] \in Nat /\ FloozRanges[l][3] \in Nat
          BY <3>1, <3>4, RangesJoin
        <4> QED
          BY <3>2, <4>1, <4>2
      <3> QED
        BY <3>1, <3>3, <3>4
    <2> QED
      BY <2>3, <2>4
  <1> QED
    BY <1>0, <1>1, <1>2, <1>3

LEMMA CashFeeRises ==
  ASSUME NEW op \in Operators, NEW amount \in Nat, NEW more \in Nat, amount <= more
  PROVE  /\ CashOutFee(amount, op) \in Nat /\ CashOutFee(more, op) \in Nat
         /\ CashOutFee(amount, op) <= CashOutFee(more, op)
  <1>1. CASE op = "FLOOZ"
    <2>1. \A a \in Nat : FloozCashFee(a) \in Nat
      <3> SUFFICES ASSUME NEW a \in Nat PROVE FloozCashFee(a) \in Nat
        OBVIOUS
      <3>1. a <= FloozBracketsUpTo \/ a > FloozBracketsUpTo
        BY DEF FloozBracketsUpTo
      <3> QED
        BY <3>1, FloozUpTo, FloozBeyondBounds
    <2> QED
      BY <1>1, <2>1, FloozRises DEF CashOutFee
  <1>2. CASE op # "FLOOZ"
    BY <1>2, FeesRise, FeeIsNat, MixxTable DEF CashOutFee
  <1> QED
    BY <1>1, <1>2

FeesInv ==
  requested \in Nat /\ operator \in Operators /\ row = RowFor(requested, operator)

LEMMA FeesInvInit == FeesInit => FeesInv
  BY FeesAssumption DEF FeesInit, FeesInv

LEMMA FeesInvStep == FeesInv /\ [AskMore]_feesVars => FeesInv'
  BY FeesAssumption DEF FeesInv, AskMore, feesVars

LEMMA FeesHavePayers == FeesInv => FeesAddUp
  <1> SUFFICES ASSUME FeesInv PROVE EveryFeeHasAPayer /\ DebitWithinAFranc
    BY DEF FeesAddUp
  <1> DEFINE amount == requested \div 100
             transfer == FeeFromBrackets(amount, PayoutBrackets)
             cash == CashOutFee(amount, operator)
             fees == Compute(requested, operator)
  <1>1. /\ requested \in Nat /\ amount \in Nat
        /\ 100 * amount <= requested /\ requested < 100 * amount + 100
    BY DEF FeesInv
  <1>2. transfer \in Nat /\ cash \in Nat
    <2>1. operator \in Operators
      BY DEF FeesInv
    <2> HIDE DEF amount
    <2> QED
      BY <1>1, <2>1, PayoutTable, FeeIsNat, CashFeeRises
  <1>3. /\ fees.payoutFee = transfer
        /\ \/ /\ fees.send = amount /\ fees.debit = amount + transfer
              /\ fees.retained = transfer /\ fees.platformCost = 0
           \/ /\ fees.send = amount /\ fees.debit = amount
              /\ fees.retained = 0 /\ fees.platformCost = transfer
           \/ /\ fees.send = amount + cash /\ fees.debit = amount
              /\ fees.retained = 0 /\ fees.platformCost = transfer + cash
    BY DEF Compute
  <1>4. /\ row.amount = requested /\ row.debitedAmount = 100 * fees.debit
        /\ row.feeRetained = 100 * fees.retained
    BY DEF FeesInv, RowFor
  <1> HIDE DEF transfer, cash, fees
  <1>5. DebitWithinAFranc
    <2> HIDE DEF amount
    <2> QED
      BY <1>1, <1>2, <1>3, <1>4 DEF DebitWithinAFranc
  <1>6. /\ fees.debit + fees.platformCost = fees.send + fees.payoutFee
        /\ fees.retained = fees.debit - amount /\ fees.send >= amount
    <2> HIDE DEF amount
    <2> QED
      BY <1>1, <1>2, <1>3
  <1> QED
    BY <1>5, <1>6 DEF EveryFeeHasAPayer, fees

(* Whatever is asked for: each fee is paid once, by the canteen or by the  *)
(* platform, and the canteen is debited what it asked for and its fees but *)
(* for a fraction of a franc.                                              *)
THEOREM FeesAreShared == FeesSpec => []FeesAddUp
  BY FeesInvInit, FeesInvStep, FeesHavePayers, PTL DEF FeesSpec

(* Whoever asks for more is never sent less, whatever the amounts.         *)
THEOREM AskingMoreSendsMore == FeesSpec => MoreSendsMore
  <1>1. FeesInv /\ [AskMore]_feesVars
          => [row'.payoutAmount >= row.payoutAmount]_feesVars
    <2> SUFFICES ASSUME FeesInv, AskMore PROVE row'.payoutAmount >= row.payoutAmount
      BY DEF feesVars
    <2> DEFINE amount == requested \div 100
               more == requested' \div 100
    <2>1. /\ requested \in Nat /\ requested' = requested + Step /\ Step \in Nat
          /\ operator \in Operators /\ operator' = operator
          /\ row = RowFor(requested, operator) /\ row' = RowFor(requested', operator)
      BY FeesAssumption DEF FeesInv, AskMore
    <2>2. amount \in Nat /\ more \in Nat /\ amount <= more
      BY <2>1
    <2>3. /\ row.payoutAmount =
               IF amount < 19900 THEN amount ELSE amount + CashOutFee(amount, operator)
          /\ row'.payoutAmount =
               IF more < 19900 THEN more ELSE more + CashOutFee(more, operator)
      <3>1. \A h : Compute(h, operator).send =
               IF h \div 100 < 10000 THEN h \div 100
               ELSE IF h \div 100 < 19900 THEN h \div 100
               ELSE h \div 100 + CashOutFee(h \div 100, operator)
        BY DEF Compute, TierLow, NetworkCashFrom
      <3>2. /\ row.payoutAmount = Compute(requested, operator).send
            /\ row'.payoutAmount = Compute(requested', operator).send
        BY <2>1 DEF RowFor
      <3>3. \A a \in Nat : a < 10000 => a < 19900
        OBVIOUS
      <3> QED
        BY <2>2, <3>1, <3>2, <3>3
    <2>4. /\ CashOutFee(amount, operator) \in Nat /\ CashOutFee(more, operator) \in Nat
          /\ CashOutFee(amount, operator) <= CashOutFee(more, operator)
      <3> HIDE DEF amount, more
      <3> QED
        BY <2>1, <2>2, CashFeeRises
    <2> HIDE DEF amount, more
    <2> QED
      BY <2>2, <2>3, <2>4
  <1> QED
    BY <1>1, FeesInvInit, FeesInvStep, PTL DEF FeesSpec, MoreSendsMore

-----------------------------------------------------------------------------
(* The figures.                                                            *)

(* Whole days and half days. *)
LEMMA DaysOfInstants ==
  /\ \A i \in Int : DayOf(i) \in Int /\ 2 * DayOf(i) <= i /\ i <= 2 * DayOf(i) + 1
  /\ \A d \in Int : DayOf(StartOf(d)) = d /\ DayOf(EndOf(d)) = d
  /\ \A i, j \in Int : i <= j => DayOf(i) <= DayOf(j)
  BY DEF DayOf, StartOf, EndOf

LEMMA IntervalIsFinite ==
  ASSUME NEW a \in Int, NEW b \in Int, NEW S, S \subseteq a .. b
  PROVE  IsFiniteSet(S)
  <1>1. IsFiniteSet(a .. b)
    BY FS_Interval
  <1> QED
    BY <1>1, FS_Subset

LEMMA DaysOfRanges ==
  ASSUME NEW range, range.since \in Int, range.until \in Int
  PROVE  /\ IsFiniteSet(DayKeys(range))
         /\ \A i \in Int : Within(i, range) => DayOf(i) \in DayKeys(range)
  <1>1. DayOf(range.since) \in Int /\ DayOf(range.until) \in Int
    BY DaysOfInstants
  <1>2. IsFiniteSet(DayKeys(range))
    BY <1>1, IntervalIsFinite DEF DayKeys
  <1>3. ASSUME NEW i \in Int, Within(i, range)
        PROVE  DayOf(i) \in DayKeys(range)
    <2>1. range.since <= i /\ i <= range.until
      BY <1>3 DEF Within
    <2>2. DayOf(range.since) <= DayOf(i) /\ DayOf(i) <= DayOf(range.until) /\ DayOf(i) \in Int
      BY <2>1, DaysOfInstants
    <2> QED
      BY <1>1, <2>2 DEF DayKeys
  <1> QED
    BY <1>2, <1>3

(* The calendar: every day from the first on is in a period, and a later   *)
(* day is not in an earlier one.                                           *)
StartsOf(groupBy) == IF groupBy = "week" THEN WeekStarts ELSE MonthStarts

LEMMA PeriodOfDay ==
  ASSUME NEW groupBy \in {"week", "month"}, NEW d \in Nat
  PROVE  /\ PeriodOf(groupBy, d) \in StartsOf(groupBy)
         /\ PeriodOf(groupBy, d) \in Int
         /\ PeriodOf(groupBy, d) <= d
         /\ \A s \in StartsOf(groupBy) : s <= d => s <= PeriodOf(groupBy, d)
  <1> DEFINE W == StartsOf(groupBy)
             B == {s \in W : s <= d}
  <1>1. W \subseteq Int /\ \E s \in W : s <= 0
    BY CalendarAssumption DEF StartsOf
  <1>2. PICK s0 \in W : s0 <= 0
    BY <1>1
  <1>3. PICK m \in B : \A s \in B : s <= m
    <2> DEFINE N == {s \in B : s0 <= s}
               R == {p \in Int \X Int : p[1] < p[2]}
    <2>1. s0 \in N /\ N \subseteq s0 .. d /\ s0 \in Int
      BY <1>1, <1>2
    <2>2. IsFiniteSet(N)
      <3>1. s0 \in Int /\ d \in Int /\ N \subseteq s0 .. d
        BY <2>1
      <3> HIDE DEF N, W, B
      <3> QED
        BY ONLY <3>1, IntervalIsFinite
    <2>3. \A x, y \in Int : <<x, y>> \in R <=> x < y
      OBVIOUS
    <2>4. \A x \in N : x \in Int
      BY <2>1
    <2>5. \E x \in N : \A y \in N : <<x, y>> \notin R
      <3>1. \A x \in N : <<x, x>> \notin R
        BY <2>3, <2>4
      <3>2. \A x, y, z \in N : <<x, y>> \in R /\ <<y, z>> \in R => <<x, z>> \in R
        <4> HIDE DEF R, N
        <4> QED
          BY <2>3, <2>4
      <3> HIDE DEF R, N
      <3> QED
        BY <2>1, <2>2, <3>1, <3>2, FiniteHasMaximal
    <2>6. PICK x \in N : \A y \in N : <<x, y>> \notin R
      BY <2>5
    <2>7. ASSUME NEW s \in B
          PROVE  s <= x
      <3>1. s \in Int /\ x \in Int /\ s0 \in Int /\ s0 <= x
        BY <1>1, <2>1
      <3>2. CASE s0 <= s
        <4>1. s \in N
          BY <3>2
        <4>2. ~(x < s)
          <5> HIDE DEF R, N
          <5> QED
            BY <2>3, <2>6, <3>1, <4>1
        <4> QED
          BY <3>1, <4>2
      <3>3. CASE ~(s0 <= s)
        BY <3>1, <3>3
      <3> QED
        BY <3>2, <3>3
    <2> QED
      BY <2>6, <2>7
  <1>4. B \subseteq Int
    BY <1>1
  <1>5. Max(B) \in B /\ \A s \in B : Max(B) >= s
    <2>1. \E x \in B : \A y \in B : x >= y
      BY <1>3, <1>4
    <2> HIDE DEF B
    <2> QED
      BY <2>1 DEF Max
  <1>6. PeriodOf(groupBy, d) = Max(B)
    BY DEF PeriodOf, StartsOf
  <1> QED
    BY <1>1, <1>4, <1>5, <1>6

(* What the tables always keep: a row that counts has its date, and no date *)
(* is in the future.                                                        *)
DatesKept ==
    \A o \in Bills :
        /\ Credited(o) => bill[o].readyAt \in 0 .. now
        /\ bill[o].status = "CANCELLED" => bill[o].cancelledAt \in 0 .. now

ReportInv == ReportTypeOK /\ DatesKept

LEMMA BillFields ==
  ASSUME ReportTypeOK, NEW o \in Bills
  PROVE  /\ bill[o].canteen \in Canteens
         /\ bill[o].status \in {"none", "CONFIRMED", "IN_PREPARATION", "READY",
                                "RECEIVED", "CANCELLED"}
         /\ bill[o].createdAt \in Instants \cup {Never}
         /\ bill[o].readyAt \in Instants \cup {Never}
         /\ bill[o].cancelledAt \in Instants \cup {Never}
  BY DEF ReportTypeOK, Bill

LEMMA InstantsAreInts ==
  /\ Instants \subseteq Nat /\ Never \in Int
  /\ \A i \in Instants \cup {Never} : i \in Int
  BY CalendarAssumption DEF Instants, Never

LEMMA ReportInvInit == ReportInit => ReportInv
  <1> SUFFICES ASSUME ReportInit PROVE ReportInv
    OBVIOUS
  <1> USE DEF ReportInit
  <1>1. now \in Instants
    BY CalendarAssumption DEF Instants
  <1>2. \A o \in Bills : bill[o].status = "none" /\ bill[o] \in Bill
    OBVIOUS
  <1>3. bill \in [Bills -> Bill]
    OBVIOUS
  <1>4. /\ topUp \in [TopUps -> Dated] /\ payout \in [Payouts -> Dated]
        /\ rating \in [Ratings -> Dated]
    BY DEF Dated
  <1>5. DatesKept
    BY <1>2 DEF DatesKept, Credited
  <1> QED
    BY <1>1, <1>3, <1>4, <1>5 DEF ReportInv, ReportTypeOK

LEMMA ReportInvStep == ReportInv /\ [ReportNext]_reportVars => ReportInv'
  <1> SUFFICES ASSUME ReportInv, [ReportNext]_reportVars
               PROVE  ReportInv'
    OBVIOUS
  <1>0. ReportTypeOK /\ DatesKept /\ now \in Nat /\ now \in Instants
    BY InstantsAreInts DEF ReportInv, ReportTypeOK
  <1>1. CASE Place
    <2>1. PICK o \in Bills :
              /\ bill[o].status = "none"
              /\ bill' = [bill EXCEPT ![o].status = "CONFIRMED", ![o].createdAt = now]
      BY <1>1 DEF Place
    <2>2. UNCHANGED <<now, topUp, payout, rating>>
      BY <1>1 DEF Place
    <2>3. bill[o] \in Bill /\ bill \in [Bills -> Bill]
      BY <1>0 DEF ReportTypeOK
    <2>4. bill' = [bill EXCEPT ![o] = [bill[o] EXCEPT !.status = "CONFIRMED", !.createdAt = now]]
      BY <2>1, <2>3 DEF Bill
    <2>5. bill' \in [Bills -> Bill]
      BY <1>0, <2>3, <2>4 DEF Bill
    <2>6. DatesKept'
      BY <1>0, <2>2, <2>3, <2>4 DEF DatesKept, Credited, Bill
    <2> QED
      BY <1>0, <2>2, <2>5, <2>6 DEF ReportInv, ReportTypeOK
  <1>2. CASE GoOn
    <2>2. UNCHANGED <<now, topUp, payout, rating>>
      BY <1>2 DEF GoOn
    <2>1. PICK o \in Bills :
             \/ /\ bill[o].status = "CONFIRMED"
                /\ bill' = [bill EXCEPT ![o].status = "IN_PREPARATION"]
             \/ /\ bill[o].status = "IN_PREPARATION"
                /\ bill' = [bill EXCEPT ![o].status = "READY", ![o].readyAt = now]
             \/ /\ bill[o].status = "READY"
                /\ bill' = [bill EXCEPT ![o].status = "RECEIVED"]
             \/ /\ bill[o].status \in {"CONFIRMED", "IN_PREPARATION"}
                /\ bill' = [bill EXCEPT ![o].status = "CANCELLED", ![o].cancelledAt = now]
      BY <1>2 DEF GoOn
    <2>3. bill[o] \in Bill /\ bill \in [Bills -> Bill]
      BY <1>0 DEF ReportTypeOK
    <2>4. PICK b : /\ bill' = [bill EXCEPT ![o] = b] /\ b \in Bill
                   /\ b.status \in {"READY", "RECEIVED"} =>
                          b.readyAt = now \/ (Credited(o) /\ b.readyAt = bill[o].readyAt)
                   /\ b.status = "CANCELLED" => b.cancelledAt = now
      <3>1. CASE /\ bill[o].status = "CONFIRMED"
                 /\ bill' = [bill EXCEPT ![o].status = "IN_PREPARATION"]
        <4> DEFINE b == [bill[o] EXCEPT !.status = "IN_PREPARATION"]
        <4>1. bill' = [bill EXCEPT ![o] = b] /\ b \in Bill /\ b.status = "IN_PREPARATION"
          BY <2>3, <3>1 DEF Bill
        <4> QED
          BY <4>1
      <3>2. CASE /\ bill[o].status = "IN_PREPARATION"
                 /\ bill' = [bill EXCEPT ![o].status = "READY", ![o].readyAt = now]
        <4> DEFINE b == [bill[o] EXCEPT !.status = "READY", !.readyAt = now]
        <4>1. /\ bill' = [bill EXCEPT ![o] = b] /\ b \in Bill
              /\ b.status = "READY" /\ b.readyAt = now
          BY <1>0, <2>3, <3>2 DEF Bill
        <4> QED
          BY <4>1
      <3>3. CASE /\ bill[o].status = "READY"
                 /\ bill' = [bill EXCEPT ![o].status = "RECEIVED"]
        <4> DEFINE b == [bill[o] EXCEPT !.status = "RECEIVED"]
        <4>1. /\ bill' = [bill EXCEPT ![o] = b] /\ b \in Bill
              /\ b.status = "RECEIVED" /\ b.readyAt = bill[o].readyAt /\ Credited(o)
          BY <2>3, <3>3 DEF Bill, Credited
        <4> QED
          BY <4>1
      <3>4. CASE /\ bill[o].status \in {"CONFIRMED", "IN_PREPARATION"}
                 /\ bill' = [bill EXCEPT ![o].status = "CANCELLED", ![o].cancelledAt = now]
        <4> DEFINE b == [bill[o] EXCEPT !.status = "CANCELLED", !.cancelledAt = now]
        <4>1. /\ bill' = [bill EXCEPT ![o] = b] /\ b \in Bill
              /\ b.status = "CANCELLED" /\ b.cancelledAt = now
          BY <1>0, <2>3, <3>4 DEF Bill
        <4> QED
          BY <4>1
      <3> QED
        BY <2>1, <3>1, <3>2, <3>3, <3>4
    <2>5. bill' \in [Bills -> Bill]
      BY <2>3, <2>4
    <2>6. DatesKept'
      <3>1. now \in 0 .. now
        BY <1>0
      <3> QED
        BY <1>0, <2>2, <2>3, <2>4, <3>1 DEF DatesKept, Credited
    <2> QED
      BY <1>0, <2>2, <2>5, <2>6 DEF ReportInv, ReportTypeOK
  <1>3. CASE Move
    <2>1. UNCHANGED <<now, bill>>
      BY <1>3 DEF Move
    <2>2. DatesKept'
      BY <1>0, <2>1 DEF DatesKept, Credited
    <2>3. /\ topUp' \in [TopUps -> Dated] /\ payout' \in [Payouts -> Dated]
          /\ rating' \in [Ratings -> Dated]
      <3>1. CASE \E p \in TopUps, k \in 1 .. 2 :
                    /\ topUp[p].at = Never
                    /\ topUp' = [topUp EXCEPT ![p] = [at |-> now, kind |-> k]]
                    /\ UNCHANGED <<payout, rating>>
        BY <1>0, <3>1 DEF ReportTypeOK, Dated
      <3>2. CASE \E w \in Payouts :
                    /\ payout[w].at = Never /\ payout' = [payout EXCEPT ![w].at = now]
                    /\ UNCHANGED <<topUp, rating>>
        BY <1>0, <3>2 DEF ReportTypeOK, Dated
      <3>3. CASE \E r \in Ratings, k \in {2, 5} :
                    /\ rating[r].at = Never
                    /\ rating' = [rating EXCEPT ![r] = [at |-> now, kind |-> k]]
                    /\ UNCHANGED <<topUp, payout>>
        BY <1>0, <3>3 DEF ReportTypeOK, Dated
      <3> QED
        BY <1>3, <3>1, <3>2, <3>3 DEF Move
    <2> QED
      BY <1>0, <2>1, <2>2, <2>3 DEF ReportInv, ReportTypeOK
  <1>4. CASE Tick
    <2>1. now' \in Instants /\ now' = now + 1
      BY <1>0, <1>4, CalendarAssumption DEF Tick, Instants
    <2>2. DatesKept'
      BY <1>0, <1>4, <2>1 DEF DatesKept, Credited, Tick
    <2> QED
      BY <1>0, <1>4, <2>1, <2>2 DEF ReportInv, ReportTypeOK, Tick
  <1>5. CASE UNCHANGED reportVars
    BY <1>0, <1>5 DEF ReportInv, ReportTypeOK, DatesKept, Credited, reportVars
  <1> QED
    BY <1>1, <1>2, <1>3, <1>4, <1>5 DEF ReportNext

(* The orders that a range counts as sold, and as given back. *)
Sold(range) == {o \in Bills : Credited(o) /\ Within(bill[o].readyAt, range)}
SoldBy(v, range) == {o \in Sold(range) : bill[o].canteen = v}
Back(range) == {o \in Bills : /\ bill[o].status = "CANCELLED"
                              /\ Within(bill[o].cancelledAt, range)}
BackBy(v, range) == {o \in Back(range) : bill[o].canteen = v}

LEMMA RowsAreFinite ==
  ASSUME NEW R \in SUBSET Bills
  PROVE  IsFiniteSet(R)
  BY FS_Subset, TablesAssumption

LEMMA TicketsAreOver ==
  ASSUME NEW R
  PROVE  TicketsOf(R) = SumOver(Tickets, R)
  BY DEF TicketsOf, SumOver

(* Orders are shared among the canteens. *)
LEMMA TicketsByCanteen ==
  ASSUME ReportTypeOK, NEW R \in SUBSET Bills
  PROVE  SumOf([v \in Canteens |-> TicketsOf({o \in R : bill[o].canteen = v})]) = TicketsOf(R)
  <1> DEFINE F == [v \in Canteens |-> {o \in R : bill[o].canteen = v}]
  <1>1. Splits(F, Canteens, R)
    BY BillFields DEF Splits
  <1>2. \A v \in Canteens : F[v] = {o \in R : bill[o].canteen = v}
    OBVIOUS
  <1> HIDE DEF F
  <1>3. SumOver(Tickets, R) = SumOf([v \in Canteens |-> SumOver(Tickets, F[v])])
    BY <1>1, RowsAreFinite, SumOfFamily, TablesAssumption
  <1>4. [v \in Canteens |-> SumOver(Tickets, F[v])]
            = [v \in Canteens |-> TicketsOf({o \in R : bill[o].canteen = v})]
    BY <1>2, TicketsAreOver
  <1> QED
    BY <1>3, <1>4, TicketsAreOver

(* Every instant of a range of days is in one of the periods of the range. *)
LEMMA PeriodsCover ==
  ASSUME NEW groupBy \in Grouping, NEW f \in Nat, NEW t \in Nat, t <= LastDay,
         NEW i \in Int, Within(i, UtcRange(f, t))
  PROVE  PeriodOf(groupBy, DayOf(i)) \in Periods(groupBy, UtcRange(f, t))
  <1> DEFINE range == UtcRange(f, t)
             d == DayOf(i)
  <1>1. StartOf(f) \in Int /\ EndOf(t) \in Int /\ StartOf(f) <= i /\ i <= EndOf(t)
    BY DEF Within, UtcRange, StartOf, EndOf
  <1>2. DayOf(range.since) = f /\ DayOf(range.until) = t
    BY DaysOfInstants DEF UtcRange
  <1>3. f <= d /\ d <= t /\ d \in Nat
    <2>1. DayOf(StartOf(f)) = f /\ DayOf(EndOf(t)) = t
      BY DaysOfInstants
    <2>2. d \in Int /\ f <= d /\ d <= t
      BY <1>1, <2>1, DaysOfInstants
    <2> QED
      BY <2>2
  <1> HIDE DEF range, d
  <1>4. CASE groupBy = "day"
    <2>1. d \in Days
      BY <1>3, CalendarAssumption DEF Days
    <2> QED
      BY <1>2, <1>3, <1>4, <2>1 DEF Periods, PeriodOf, range, d
  <1>5. CASE groupBy # "day"
    <2>1. groupBy \in {"week", "month"}
      BY <1>5 DEF Grouping
    <2>2. /\ PeriodOf(groupBy, d) \in StartsOf(groupBy) /\ PeriodOf(groupBy, d) \in Int
          /\ PeriodOf(groupBy, f) \in StartsOf(groupBy) /\ PeriodOf(groupBy, f) \in Int
          /\ PeriodOf(groupBy, t) \in StartsOf(groupBy) /\ PeriodOf(groupBy, t) \in Int
          /\ PeriodOf(groupBy, f) <= f /\ PeriodOf(groupBy, d) <= d
      BY <1>3, <2>1, PeriodOfDay
    <2>3. /\ \A s \in StartsOf(groupBy) : s <= d => s <= PeriodOf(groupBy, d)
          /\ \A s \in StartsOf(groupBy) : s <= t => s <= PeriodOf(groupBy, t)
      BY <1>3, <2>1, PeriodOfDay
    <2>4. PeriodOf(groupBy, f) <= d /\ PeriodOf(groupBy, d) <= t
      BY <1>3, <2>2
    <2>5. /\ PeriodOf(groupBy, f) <= PeriodOf(groupBy, d)
          /\ PeriodOf(groupBy, d) <= PeriodOf(groupBy, t)
      BY <2>2, <2>3, <2>4
    <2>6. Periods(groupBy, range)
            = {p \in StartsOf(groupBy) : PeriodOf(groupBy, f) <= p /\ p <= PeriodOf(groupBy, t)}
      BY <1>2, <2>1 DEF Periods, StartsOf
    <2> QED
      BY <2>2, <2>5, <2>6 DEF range, d
  <1> QED
    BY <1>4, <1>5

LEMMA PeriodsAreFinite ==
  ASSUME NEW groupBy \in Grouping, NEW f \in Nat, NEW t \in Nat
  PROVE  IsFiniteSet(Periods(groupBy, UtcRange(f, t)))
  <1> DEFINE P == Periods(groupBy, UtcRange(f, t))
             a == PeriodOf(groupBy, f)
             b == PeriodOf(groupBy, t)
  <1>1. DayOf(UtcRange(f, t).since) = f /\ DayOf(UtcRange(f, t).until) = t
    BY DaysOfInstants DEF UtcRange
  <1>2. a \in Int /\ b \in Int
    <2>1. CASE groupBy = "day"
      BY <2>1 DEF PeriodOf
    <2>2. CASE groupBy # "day"
      <3>1. groupBy \in {"week", "month"}
        BY <2>2 DEF Grouping
      <3> QED
        BY <3>1, PeriodOfDay
    <2> QED
      BY <2>1, <2>2
  <1>3. P \subseteq a .. b
    <2>1. Days \subseteq Int /\ WeekStarts \subseteq Int /\ MonthStarts \subseteq Int
      BY CalendarAssumption DEF Days
    <2>2. \A p \in P : p \in Int /\ a <= p /\ p <= b
      BY <1>1, <2>1 DEF Periods
    <2> HIDE DEF a, b, P
    <2> QED
      BY <1>2, <2>2
  <1> HIDE DEF a, b, P
  <1>4. IsFiniteSet(P)
    BY <1>2, <1>3, IntervalIsFinite
  <1> QED
    BY <1>4 DEF P

(* What a canteen sees in a range is what its periods add up to. *)
LEMMA SalesOfRange ==
  ASSUME ReportTypeOK, NEW v \in Canteens, NEW groupBy \in Grouping,
         NEW f \in Nat, NEW t \in Nat, t <= LastDay
  PROVE  LET range == UtcRange(f, t) IN
         /\ Sales(v, groupBy, range).collectedTickets = TicketsOf(SoldBy(v, range))
         /\ Sales(v, groupBy, range).refundedTickets = TicketsOf(BackBy(v, range))
  <1> DEFINE range == UtcRange(f, t)
             P == Periods(groupBy, range)
             F == CollectedIn(v, groupBy, range)
             G == CancelledIn(v, groupBy, range)
  <1>1. IsFiniteSet(P)
    BY PeriodsAreFinite
  <1>2. \A i \in Int : Within(i, range) => PeriodOf(groupBy, DayOf(i)) \in P
    BY PeriodsCover
  <1> HIDE DEF range, P
  <1>3. ASSUME NEW o \in Bills
        PROVE  bill[o].readyAt \in Int /\ bill[o].cancelledAt \in Int
    <2>1. /\ bill[o].readyAt \in Instants \cup {Never}
          /\ bill[o].cancelledAt \in Instants \cup {Never}
      BY BillFields
    <2> QED
      BY <2>1, InstantsAreInts
  <1>4. Splits(F, P, SoldBy(v, range))
    BY <1>2, <1>3 DEF Splits, CollectedIn, SoldBy, Sold, P
  <1>5. Splits(G, P, BackBy(v, range))
    BY <1>2, <1>3 DEF Splits, CancelledIn, BackBy, Back, P
  <1>6. SoldBy(v, range) \in SUBSET Bills /\ BackBy(v, range) \in SUBSET Bills
    BY DEF SoldBy, Sold, BackBy, Back
  <1>7. DOMAIN F = P /\ DOMAIN G = P
    BY DEF CollectedIn, CancelledIn, P
  <1>8. /\ Sales(v, groupBy, range).collectedTickets
              = SumOf([p \in DOMAIN F |-> TicketsOf(F[p])])
        /\ Sales(v, groupBy, range).refundedTickets
              = SumOf([p \in DOMAIN G |-> TicketsOf(G[p])])
    BY DEF Sales
  <1> HIDE DEF F, G
  <1>9. TicketsOf(SoldBy(v, range)) = SumOf([p \in P |-> SumOver(Tickets, F[p])])
    BY <1>1, <1>4, <1>6, RowsAreFinite, SumOfFamily, TablesAssumption, TicketsAreOver
  <1>10. TicketsOf(BackBy(v, range)) = SumOf([p \in P |-> SumOver(Tickets, G[p])])
    BY <1>1, <1>5, <1>6, RowsAreFinite, SumOfFamily, TablesAssumption, TicketsAreOver
  <1>11. /\ [p \in DOMAIN F |-> TicketsOf(F[p])] = [p \in P |-> SumOver(Tickets, F[p])]
         /\ [p \in DOMAIN G |-> TicketsOf(G[p])] = [p \in P |-> SumOver(Tickets, G[p])]
    BY <1>7, TicketsAreOver
  <1>12. /\ Sales(v, groupBy, range).collectedTickets = TicketsOf(SoldBy(v, range))
         /\ Sales(v, groupBy, range).refundedTickets = TicketsOf(BackBy(v, range))
    BY <1>8, <1>9, <1>10, <1>11
  <1> QED
    BY <1>12 DEF range

(* What the administration sees in the same range. *)
LEMMA RevenueOfRange ==
  ASSUME ReportTypeOK, NEW range, range.since \in Int, range.until \in Int
  PROVE  OrdersSummary(range).revenueTickets = TicketsOf(Sold(range))
  <1> DEFINE F == [d \in DayKeys(range) |-> CreditedOn(d, range)]
  <1>1. \A o \in Bills : bill[o].readyAt \in Int
    <2> TAKE o \in Bills
    <2>1. bill[o].readyAt \in Instants \cup {Never}
      BY BillFields
    <2> QED
      BY <2>1, InstantsAreInts
  <1>2. IsFiniteSet(DayKeys(range))
    BY DaysOfRanges
  <1>3. \A i \in Int : Within(i, range) => DayOf(i) \in DayKeys(range)
    BY DaysOfRanges
  <1>4. Splits(F, DayKeys(range), Sold(range))
    BY <1>1, <1>3 DEF Splits, CreditedOn, Sold
  <1>5. Sold(range) \in SUBSET Bills
    BY DEF Sold
  <1>6. OrdersSummary(range).revenueTickets
            = SumOf([d \in DayKeys(range) |-> TicketsOf(CreditedOn(d, range))])
    BY DEF OrdersSummary
  <1>7. \A d \in DayKeys(range) : F[d] = CreditedOn(d, range)
    OBVIOUS
  <1> HIDE DEF F
  <1>8. TicketsOf(Sold(range)) = SumOf([d \in DayKeys(range) |-> SumOver(Tickets, F[d])])
    BY <1>2, <1>4, <1>5, RowsAreFinite, SumOfFamily, TablesAssumption, TicketsAreOver
  <1>9. [d \in DayKeys(range) |-> SumOver(Tickets, F[d])]
            = [d \in DayKeys(range) |-> TicketsOf(CreditedOn(d, range))]
    BY <1>7, TicketsAreOver
  <1> QED
    BY <1>6, <1>8, <1>9

LEMMA TodayIsADay ==
  ASSUME ReportTypeOK
  PROVE  Today \in Nat /\ Today <= LastDay /\ now \in Nat /\ now <= EndOf(Today)
  <1>1. now \in 0 .. 2 * LastDay + 1 /\ LastDay \in Nat
    BY CalendarAssumption DEF ReportTypeOK, Instants
  <1> QED
    BY <1>1 DEF Today, DayOf, EndOf

LEMMA SalesAreRevenue ==
  ASSUME ReportTypeOK, NEW range \in DayRanges, NEW groupBy \in Grouping
  PROVE  SumOf([v \in Canteens |-> Sales(v, groupBy, range).collectedTickets])
             = OrdersSummary(range).revenueTickets
  <1>1. PICK f \in 0 .. Today : \E t \in f .. Today : range = UtcRange(f, t)
    BY DEF DayRanges
  <1>2. PICK t \in f .. Today : range = UtcRange(f, t)
    BY <1>1
  <1>3. Today \in Nat /\ Today <= LastDay /\ LastDay \in Nat
    BY TodayIsADay, CalendarAssumption
  <1>4. f \in Nat /\ t \in Nat /\ t <= LastDay
    BY <1>3
  <1>5. \A v \in Canteens : Sales(v, groupBy, range).collectedTickets
                                = TicketsOf(SoldBy(v, range))
    BY <1>2, <1>4, SalesOfRange
  <1>6. SumOf([v \in Canteens |-> Sales(v, groupBy, range).collectedTickets])
            = SumOf([v \in Canteens |-> TicketsOf(SoldBy(v, range))])
    BY <1>5
  <1>7. Sold(range) \in SUBSET Bills
    BY DEF Sold
  <1>8. SumOf([v \in Canteens |-> TicketsOf(SoldBy(v, range))]) = TicketsOf(Sold(range))
    BY <1>7, TicketsByCanteen DEF SoldBy
  <1>9. range.since \in Int /\ range.until \in Int
    BY <1>2, <1>4 DEF UtcRange, StartOf, EndOf
  <1> QED
    BY <1>6, <1>8, <1>9, RevenueOfRange

LEMMA SalesAgreeLemma ==
  ASSUME ReportInv
  PROVE  SalesAgree
  <1> DEFINE all == UtcRange(0, Today)
  <1>1. ReportTypeOK /\ DatesKept
    BY DEF ReportInv
  <1>2. /\ Today \in Nat /\ Today <= LastDay /\ LastDay \in Nat
        /\ now \in Nat /\ now <= EndOf(Today)
    BY <1>1, TodayIsADay, CalendarAssumption
  <1>3. all.since = 0 /\ all.until = EndOf(Today) /\ EndOf(Today) \in Int
    BY <1>2 DEF UtcRange, StartOf, EndOf
  <1>4. \A i \in 0 .. now : Within(i, all)
    <2> TAKE i \in 0 .. now
    <2>1. i # Never /\ 0 <= i /\ i <= EndOf(Today)
      BY <1>2, <1>3 DEF Never
    <2> HIDE DEF all
    <2> QED
      BY <1>3, <2>1 DEF Within
  <1> HIDE DEF all
  <1>5. Sold(all) = {o \in Bills : Credited(o)}
    BY <1>1, <1>4 DEF Sold, DatesKept
  <1>6. Back(all) = {o \in Bills : bill[o].status = "CANCELLED"}
    BY <1>1, <1>4 DEF Back, DatesKept
  <1>7. \A range \in DayRanges, groupBy \in Grouping :
           SumOf([v \in Canteens |-> Sales(v, groupBy, range).collectedTickets])
               = OrdersSummary(range).revenueTickets
    BY <1>1, SalesAreRevenue
  <1>8. OrdersSummary(all).revenueTickets = SupervisionRevenue
    BY <1>1, <1>3, <1>5, RevenueOfRange DEF SupervisionRevenue
  <1>9. SupervisionRevenue = LedgerStats.debitsCompleted
    BY DEF SupervisionRevenue, LedgerStats
  <1>10. SumOf([v \in Canteens |-> Sales(v, "month", all).refundedTickets])
              = LedgerStats.refunds
    <2>1. \A v \in Canteens : Sales(v, "month", all).refundedTickets = TicketsOf(BackBy(v, all))
      BY <1>1, <1>2, SalesOfRange DEF Grouping, all
    <2>2. SumOf([v \in Canteens |-> Sales(v, "month", all).refundedTickets])
              = SumOf([v \in Canteens |-> TicketsOf(BackBy(v, all))])
      BY <2>1
    <2>3. Back(all) \in SUBSET Bills
      BY DEF Back
    <2>4. SumOf([v \in Canteens |-> TicketsOf(BackBy(v, all))]) = TicketsOf(Back(all))
      BY <1>1, <2>3, TicketsByCanteen DEF BackBy
    <2>5. LedgerStats.refunds = TicketsOf(Back(all))
      BY <1>6 DEF LedgerStats
    <2> QED
      BY <2>2, <2>4, <2>5
  <1>11. SumOf([v \in Canteens |-> PendingOf(v)]) = LedgerStats.pending
    <2> DEFINE W == {o \in Bills : bill[o].status \in {"CONFIRMED", "IN_PREPARATION"}}
    <2>1. W \in SUBSET Bills /\ LedgerStats.pending = TicketsOf(W)
      BY DEF LedgerStats
    <2>2. \A v \in Canteens : PendingOf(v) = TicketsOf({o \in W : bill[o].canteen = v})
      <3> TAKE v \in Canteens
      <3>1. {o \in W : bill[o].canteen = v}
              = {o \in Bills :
                    bill[o].canteen = v /\ bill[o].status \in {"CONFIRMED", "IN_PREPARATION"}}
        OBVIOUS
      <3> HIDE DEF W
      <3> QED
        BY <3>1 DEF PendingOf
    <2> HIDE DEF W
    <2>3. SumOf([v \in Canteens |-> TicketsOf({o \in W : bill[o].canteen = v})]) = TicketsOf(W)
      BY <1>1, <2>1, TicketsByCanteen
    <2>4. [v \in Canteens |-> PendingOf(v)]
              = [v \in Canteens |-> TicketsOf({o \in W : bill[o].canteen = v})]
      BY <2>2
    <2> QED
      BY <2>1, <2>3, <2>4
  <1> QED
    BY <1>7, <1>8, <1>9, <1>10, <1>11 DEF SalesAgree, all

(* The money of some recharges and withdrawals, in columns of naturals. *)
GrossColumn == [p \in TopUps |-> Gross[topUp[p].kind]]
CostColumn == [p \in TopUps |-> RealCost[topUp[p].kind]]

LEMMA MoneyColumns ==
  ASSUME ReportTypeOK
  PROVE  /\ GrossColumn \in [TopUps -> Nat] /\ CostColumn \in [TopUps -> Nat]
         /\ CoveredFee \in [Payouts -> Nat]
         /\ \A p \in TopUps : topUp[p].kind \in 1 .. 5 /\ topUp[p].at \in Int
         /\ \A w \in Payouts : payout[w].at \in Int
         /\ \A r \in Ratings : rating[r].kind \in 1 .. 5 /\ rating[r].at \in Int
  <1>1. /\ \A p \in TopUps : topUp[p].kind \in 1 .. 5 /\ topUp[p].at \in Instants \cup {Never}
        /\ \A w \in Payouts : payout[w].at \in Instants \cup {Never}
        /\ \A r \in Ratings : rating[r].kind \in 1 .. 5 /\ rating[r].at \in Instants \cup {Never}
    BY DEF ReportTypeOK, Dated
  <1>2. GrossColumn \in [TopUps -> Nat] /\ CostColumn \in [TopUps -> Nat]
    BY <1>1, TablesAssumption DEF GrossColumn, CostColumn
  <1> QED
    BY <1>1, <1>2, InstantsAreInts, TablesAssumption

LEMMA GrossOfRows ==
  ASSUME NEW R \in SUBSET TopUps
  PROVE  GrossOf(R) = SumOver(GrossColumn, R)
  <1>1. [p \in R |-> Gross[topUp[p].kind]] = [p \in R |-> GrossColumn[p]]
    BY DEF GrossColumn
  <1> QED
    BY <1>1 DEF GrossOf, SumOver

LEMMA NetOfRows ==
  ASSUME ReportTypeOK, NEW R \in SUBSET TopUps, NEW W \in SUBSET Payouts
  PROVE  /\ NetOf(R, W) = SumOver(GrossColumn, R)
                              - (SumOver(CostColumn, R) + SumOver(CoveredFee, W))
         /\ SumOver(GrossColumn, R) \in Nat /\ SumOver(CostColumn, R) \in Nat
         /\ SumOver(CoveredFee, W) \in Nat
  <1> DEFINE s == [p \in R |-> Surplus(p)]
             a == [p \in R |-> GrossColumn[p]]
             b == [p \in R |-> CostColumn[p]]
  <1>1. IsFiniteSet(R) /\ IsFiniteSet(W)
    BY FS_Subset, TablesAssumption
  <1>2. a \in [R -> Nat] /\ b \in [R -> Nat]
    BY MoneyColumns
  <1>3. \A p \in R : /\ a[p] = Gross[topUp[p].kind] /\ b[p] = RealCost[topUp[p].kind]
                     /\ s[p] = Gross[topUp[p].kind] - RealCost[topUp[p].kind]
    BY DEF GrossColumn, CostColumn, Surplus
  <1>4. s = [p \in R |-> s[p]]
    OBVIOUS
  <1>5. NetOf(R, W) = Total(s) - SumOver(CoveredFee, W)
    BY DEF NetOf, SumOver
  <1>6. SumOver(GrossColumn, R) = SumOf(a) /\ SumOver(CostColumn, R) = SumOf(b)
    BY DEF SumOver
  <1> HIDE DEF s, a, b
  <1>7. \A p \in R : s[p] = a[p] - b[p] /\ a[p] \in Nat /\ b[p] \in Nat
    BY <1>2, <1>3
  <1>8. s \in [R -> Int]
    BY <1>4, <1>7
  <1>9. Total(s) = SumOf(a) - SumOf(b)
    BY <1>1, <1>2, <1>7, <1>8, TotalOfDifferences
  <1>10. /\ SumOver(GrossColumn, R) \in Nat /\ SumOver(CostColumn, R) \in Nat
         /\ SumOver(CoveredFee, W) \in Nat
    BY <1>1, MoneyColumns, SumOverType
  <1> QED
    BY <1>5, <1>6, <1>9, <1>10

(* A table of dated rows is split by the days of a range. *)
LEMMA RowsByDay ==
  ASSUME NEW range, range.since \in Int, range.until \in Int,
         NEW T, NEW at, \A x \in T : at[x] \in Int
  PROVE  LET R == {x \in T : Within(at[x], range)} IN
         Splits([d \in DayKeys(range) |-> {x \in R : DayOf(at[x]) = d}], DayKeys(range), R)
  <1> DEFINE R == {x \in T : Within(at[x], range)}
             D == DayKeys(range)
             F == [d \in D |-> {x \in R : DayOf(at[x]) = d}]
  <1>1. \A x \in R : DayOf(at[x]) \in D
    BY DaysOfRanges
  <1> HIDE DEF D
  <1>2. \A p, q \in D : p # q => F[p] \cap F[q] = {}
    OBVIOUS
  <1>3. \A p \in D : F[p] \subseteq R
    OBVIOUS
  <1>4. \A x \in R : \E p \in D : x \in F[p]
    BY <1>1
  <1>5. Splits(F, D, R)
    <2> HIDE DEF F, R
    <2> QED
      BY <1>2, <1>3, <1>4 DEF Splits
  <1> QED
    BY <1>5 DEF D

(* What the days bring adds up, for the recharges of a range as for its    *)
(* withdrawals.                                                            *)
RechargesOn(d, range) == {p \in ToppedUp(range) : DayOf(topUp[p].at) = d}
PayoutsOn(d, range) == {w \in PaidOut(range) : DayOf(payout[w].at) = d}

LEMMA MoneyByDay ==
  ASSUME ReportTypeOK, NEW range, range.since \in Int, range.until \in Int
  PROVE  LET D == DayKeys(range) IN
         /\ \A c \in [TopUps -> Nat] :
               SumOver(c, ToppedUp(range)) = SumOf([d \in D |-> SumOver(c, RechargesOn(d, range))])
         /\ SumOver(CoveredFee, PaidOut(range))
               = SumOf([d \in D |-> SumOver(CoveredFee, PayoutsOn(d, range))])
  <1> DEFINE D == DayKeys(range)
             tAt == [p \in TopUps |-> topUp[p].at]
             wAt == [w \in Payouts |-> payout[w].at]
             T == {p \in TopUps : Within(tAt[p], range)}
             W == {w \in Payouts : Within(wAt[w], range)}
             F == [d \in D |-> {p \in T : DayOf(tAt[p]) = d}]
             G == [d \in D |-> {w \in W : DayOf(wAt[w]) = d}]
  <1>1. (\A p \in TopUps : tAt[p] \in Int) /\ (\A w \in Payouts : wAt[w] \in Int)
    BY MoneyColumns
  <1>2. /\ T = ToppedUp(range) /\ W = PaidOut(range)
        /\ \A d \in D : F[d] = RechargesOn(d, range) /\ G[d] = PayoutsOn(d, range)
    BY DEF ToppedUp, PaidOut, RechargesOn, PayoutsOn
  <1>3. T \in SUBSET TopUps /\ W \in SUBSET Payouts /\ IsFiniteSet(D)
    BY DaysOfRanges
  <1>4. IsFiniteSet(T) /\ IsFiniteSet(W)
    <2> HIDE DEF T, W
    <2> QED
      BY <1>3, FS_Subset, TablesAssumption
  <1>5. Splits(F, D, T)
    <2> HIDE DEF tAt
    <2> QED
      BY <1>1, RowsByDay
  <1>6. Splits(G, D, W)
    <2> HIDE DEF wAt
    <2> QED
      BY <1>1, RowsByDay
  <1> HIDE DEF D, F, G, T, W
  <1>7. ASSUME NEW c \in [TopUps -> Nat]
        PROVE  SumOver(c, ToppedUp(range)) = SumOf([d \in D |-> SumOver(c, RechargesOn(d, range))])
    <2>1. SumOver(c, T) = SumOf([d \in D |-> SumOver(c, F[d])])
      BY <1>3, <1>4, <1>5, SumOfFamily
    <2>2. [d \in D |-> SumOver(c, F[d])] = [d \in D |-> SumOver(c, RechargesOn(d, range))]
      BY <1>2
    <2> QED
      BY <1>2, <2>1, <2>2
  <1>8. SumOver(CoveredFee, PaidOut(range))
            = SumOf([d \in D |-> SumOver(CoveredFee, PayoutsOn(d, range))])
    <2>1. SumOver(CoveredFee, W) = SumOf([d \in D |-> SumOver(CoveredFee, G[d])])
      BY <1>3, <1>4, <1>6, SumOfFamily, TablesAssumption
    <2>2. [d \in D |-> SumOver(CoveredFee, G[d])]
              = [d \in D |-> SumOver(CoveredFee, PayoutsOn(d, range))]
      BY <1>2
    <2> QED
      BY <1>2, <2>1, <2>2
  <1> QED
    BY <1>7, <1>8 DEF D

LEMMA MoneyChartsAddUp ==
  ASSUME ReportTypeOK, NEW range, range.since \in Int, range.until \in Int,
         Shown(range) = DayKeys(range)
  PROVE  /\ Total(RevenueBreakdown(range).dailyNet) = RevenueBreakdown(range).net
         /\ Total(DailyRecharges(range)) = RevenueBreakdown(range).rechargesGross
  <1> DEFINE D == DayKeys(range)
             T == ToppedUp(range)
             W == PaidOut(range)
             net == RevenueBreakdown(range).dailyNet
             a == [d \in D |-> SumOver(GrossColumn, RechargesOn(d, range))]
             c == [d \in D |-> SumOver(CostColumn, RechargesOn(d, range))]
             e == [d \in D |-> SumOver(CoveredFee, PayoutsOn(d, range))]
             b == [d \in D |-> c[d] + e[d]]
  <1>1. IsFiniteSet(D)
    BY DaysOfRanges
  <1>2. T \in SUBSET TopUps /\ W \in SUBSET Payouts
    BY DEF ToppedUp, PaidOut
  <1>3. \A d : RechargesOn(d, range) \in SUBSET TopUps /\ PayoutsOn(d, range) \in SUBSET Payouts
    BY DEF RechargesOn, PayoutsOn, ToppedUp, PaidOut
  <1>4. \A d \in D : /\ NetOf(RechargesOn(d, range), PayoutsOn(d, range)) = a[d] - (c[d] + e[d])
                     /\ a[d] \in Nat /\ c[d] \in Nat /\ e[d] \in Nat
    BY <1>3, NetOfRows
  <1>5. net = [d \in D |-> NetOf(RechargesOn(d, range), PayoutsOn(d, range))]
    BY DEF RevenueBreakdown, RechargesOn, PayoutsOn
  <1>6. a = [d \in D |-> a[d]] /\ c = [d \in D |-> c[d]] /\ e = [d \in D |-> e[d]]
    OBVIOUS
  <1>7. /\ SumOver(GrossColumn, T) = SumOf(a) /\ SumOver(CostColumn, T) = SumOf(c)
        /\ SumOver(CoveredFee, W) = SumOf(e)
    BY MoneyByDay, MoneyColumns
  <1>8. RevenueBreakdown(range).net = NetOf(T, W)
    BY DEF RevenueBreakdown
  <1>9. RevenueBreakdown(range).rechargesGross = SumOver(GrossColumn, T)
    BY <1>2, GrossOfRows DEF RevenueBreakdown
  <1>10. DailyRecharges(range) = a
    <2>1. \A d : GrossOf(RechargesOn(d, range)) = SumOver(GrossColumn, RechargesOn(d, range))
      BY <1>3, GrossOfRows
    <2>2. DailyRecharges(range) = [d \in D |-> GrossOf(RechargesOn(d, range))]
      BY DEF DailyRecharges, RechargesOn
    <2> QED
      BY <2>1, <2>2
  <1> HIDE DEF D, T, W, net, a, c, e
  <1>11. a \in [D -> Nat] /\ c \in [D -> Nat] /\ e \in [D -> Nat]
    BY <1>4, <1>6
  <1>12. b \in [D -> Nat] /\ \A d \in D : b[d] = c[d] + e[d]
    BY <1>11
  <1>13. SumOf(b) = SumOf(c) + SumOf(e)
    BY <1>1, <1>11, SumPlus
  <1> HIDE DEF b
  <1>14. net \in [D -> Int] /\ \A d \in D : net[d] = a[d] - b[d]
    BY <1>4, <1>5, <1>12
  <1>15. Total(net) = SumOf(a) - SumOf(b)
    BY <1>1, <1>11, <1>12, <1>14, TotalOfDifferences
  <1>16. NetOf(T, W) = SumOf(a) - (SumOf(c) + SumOf(e))
    BY <1>2, <1>7, NetOfRows
  <1>17. Total(net) = RevenueBreakdown(range).net
    BY <1>8, <1>13, <1>15, <1>16
  <1>18. Total(DailyRecharges(range)) = RevenueBreakdown(range).rechargesGross
    BY <1>1, <1>7, <1>9, <1>10, <1>11, TotalOfNats
  <1> QED
    BY <1>17, <1>18 DEF net

(* A chart that counts the members of disjoint sets adds up to the count   *)
(* of their union.                                                         *)
LEMMA CountsAddUp ==
  ASSUME NEW R, IsFiniteSet(R), NEW P, IsFiniteSet(P), NEW F, Splits(F, P, R),
         NEW c, c = [p \in P |-> Cardinality(F[p])]
  PROVE  Total(c) = Cardinality(R)
  <1>1. \A p \in P : F[p] \subseteq R
    BY DEF Splits
  <1>2. \A p \in P : Cardinality(F[p]) \in Nat
    BY <1>1, FS_Subset, FS_CardinalityType
  <1>3. c \in [P -> Nat]
    BY <1>2
  <1>4. Cardinality(R) = SumOf(c)
    BY CountOfFamily
  <1> QED
    BY <1>3, <1>4, TotalOfNats

LEMMA ReviewChartsAddUp ==
  ASSUME ReportTypeOK, NEW range, range.since \in Int, range.until \in Int,
         Shown(range) = DayKeys(range)
  PROVE  LET reviews == ReviewsQuality(range) IN
         /\ Total(reviews.dailyCount) = reviews.totalReviews
         /\ Total(reviews.distribution) = reviews.totalReviews
  <1> DEFINE D == DayKeys(range)
             R == {r \in Ratings : Within(rating[r].at, range)}
             at == [r \in Ratings |-> rating[r].at]
             S == {r \in Ratings : Within(at[r], range)}
             F == [d \in D |-> {r \in S : DayOf(at[r]) = d}]
             G == [k \in 1 .. 5 |-> {r \in R : rating[r].kind = k}]
             daily == ReviewsQuality(range).dailyCount
             stars == ReviewsQuality(range).distribution
  <1>1. \A r \in Ratings : at[r] \in Int /\ rating[r].kind \in 1 .. 5
    BY MoneyColumns
  <1>2. R = S /\ R \subseteq Ratings
    OBVIOUS
  <1>3. IsFiniteSet(D)
    BY DaysOfRanges
  <1>4. IsFiniteSet(R)
    <2> HIDE DEF R
    <2> QED
      BY <1>2, FS_Subset, TablesAssumption
  <1>5. Splits(F, D, S)
    <2> HIDE DEF at
    <2> QED
      BY <1>1, RowsByDay
  <1>6. Splits(G, 1 .. 5, R)
    BY <1>1 DEF Splits
  <1>7. \A d \in D : F[d] = {r \in R : DayOf(rating[r].at) = d}
    OBVIOUS
  <1>8. ReviewsQuality(range).totalReviews = Cardinality(R)
    BY DEF ReviewsQuality
  <1>9. daily = [d \in D |-> Cardinality(F[d])]
    <2>1. daily = [d \in D |-> Cardinality({r \in R : DayOf(rating[r].at) = d})]
      BY DEF ReviewsQuality
    <2> HIDE DEF F, R, daily
    <2> QED
      BY <1>7, <2>1
  <1>10. stars = [k \in 1 .. 5 |-> Cardinality(G[k])]
    <2>1. stars = [k \in 1 .. 5 |-> Cardinality({r \in R : rating[r].kind = k})]
      BY DEF ReviewsQuality
    <2>2. \A k \in 1 .. 5 : G[k] = {r \in R : rating[r].kind = k}
      OBVIOUS
    <2> HIDE DEF G, R, stars
    <2> QED
      BY <2>1, <2>2
  <1>11. IsFiniteSet(1 .. 5)
    <2>1. 1 \in Int /\ 5 \in Int /\ 1 .. 5 \subseteq 1 .. 5
      OBVIOUS
    <2> QED
      BY ONLY <2>1, IntervalIsFinite
  <1> HIDE DEF D, R, S, F, G, daily, stars
  <1>12. Total(daily) = Cardinality(R)
    BY <1>2, <1>3, <1>4, <1>5, <1>9, CountsAddUp
  <1>13. Total(stars) = Cardinality(R)
    BY <1>4, <1>6, <1>10, <1>11, CountsAddUp
  <1> QED
    BY <1>8, <1>12, <1>13 DEF daily, stars

LEMMA ChartsAddUpLemma ==
  ASSUME ReportInv
  PROVE  ChartsAddUp
  <1>1. ReportTypeOK
    BY DEF ReportInv
  <1>2. ASSUME NEW range \in AnalyticsRanges
        PROVE  range.since \in Int /\ range.until \in Int
    <2>1. now \in Nat /\ Today \in Nat
      BY <1>1, TodayIsADay
    <2>2. CASE \E n \in 1 .. Today + 1 : range = RangeOfDays(n)
      BY <2>1, <2>2 DEF RangeOfDays, StartOf
    <2>3. CASE \E f \in 0 .. now : \E t \in {u \in 0 .. Today : f <= EndOf(u)} :
                  range = RangeFrom(f, t)
      BY <2>1, <2>3 DEF RangeFrom, EndOf
    <2>4. \/ \E n \in 1 .. Today + 1 : range = RangeOfDays(n)
          \/ \E f \in 0 .. now : \E t \in {u \in 0 .. Today : f <= EndOf(u)} :
                range = RangeFrom(f, t)
      BY <1>2 DEF AnalyticsRanges
    <2> QED
      BY <2>2, <2>3, <2>4
  <1>3. ASSUME NEW range \in AnalyticsRanges, Shown(range) = DayKeys(range)
        PROVE  /\ Total(RevenueBreakdown(range).dailyNet) = RevenueBreakdown(range).net
               /\ Total(DailyRecharges(range)) = RevenueBreakdown(range).rechargesGross
               /\ LET reviews == ReviewsQuality(range) IN
                  /\ Total(reviews.dailyCount) = reviews.totalReviews
                  /\ Total(reviews.distribution) = reviews.totalReviews
    <2>1. range.since \in Int /\ range.until \in Int
      BY <1>2
    <2>2. /\ Total(RevenueBreakdown(range).dailyNet) = RevenueBreakdown(range).net
          /\ Total(DailyRecharges(range)) = RevenueBreakdown(range).rechargesGross
      BY <1>1, <1>3, <2>1, MoneyChartsAddUp
    <2>3. LET reviews == ReviewsQuality(range) IN
          /\ Total(reviews.dailyCount) = reviews.totalReviews
          /\ Total(reviews.distribution) = reviews.totalReviews
      BY <1>1, <1>3, <2>1, ReviewChartsAddUp
    <2> QED
      BY <2>2, <2>3
  <1> QED
    BY <1>3 DEF ChartsAddUp

(* The orders placed in a range, and those among some orders that are      *)
(* decided.                                                                *)
PlacedIn(range) == {o \in Bills : Within(bill[o].createdAt, range)}
DecidedOf(rows) == {o \in rows : bill[o].status \in {"RECEIVED", "CANCELLED"}}

(* The summary counts the orders of its days, each once. *)
LEMMA SummaryCounts ==
  ASSUME ReportTypeOK, NEW range, range.since \in Int, range.until \in Int
  PROVE  /\ OrdersSummary(range).orders = Cardinality(PlacedIn(range))
         /\ OrdersSummary(range).received + OrdersSummary(range).cancelled
                = Cardinality(DecidedOf(PlacedIn(range)))
  <1> DEFINE U == UNION {CreatedOn(d, range) : d \in DayKeys(range)}
             R == PlacedIn(range)
             A == {o \in R : bill[o].status = "RECEIVED"}
             B == {o \in R : bill[o].status = "CANCELLED"}
  <1>1. \A o \in R : DayOf(bill[o].createdAt) \in DayKeys(range)
    <2> TAKE o \in R
    <2>1. bill[o].createdAt \in Instants \cup {Never} /\ Within(bill[o].createdAt, range)
      BY BillFields DEF PlacedIn
    <2>2. bill[o].createdAt \in Int
      BY <2>1, InstantsAreInts
    <2> QED
      BY <2>1, <2>2, DaysOfRanges
  <1>2. U = R
    <2>1. \A o \in U : o \in R
      BY DEF CreatedOn, PlacedIn
    <2>2. \A o \in R : o \in U
      BY <1>1 DEF CreatedOn, PlacedIn
    <2> HIDE DEF U, R
    <2> QED
      BY <2>1, <2>2
  <1>3. /\ OrdersSummary(range).orders = Cardinality(R)
        /\ OrdersSummary(range).received = Cardinality(A)
        /\ OrdersSummary(range).cancelled = Cardinality(B)
    <2>1. /\ OrdersSummary(range).orders = Cardinality(U)
          /\ OrdersSummary(range).received = Cardinality({o \in U : bill[o].status = "RECEIVED"})
          /\ OrdersSummary(range).cancelled = Cardinality({o \in U : bill[o].status = "CANCELLED"})
      BY DEF OrdersSummary
    <2> HIDE DEF U, R
    <2> QED
      BY <1>2, <2>1
  <1>4. A \in SUBSET Bills /\ B \in SUBSET Bills
    BY DEF PlacedIn
  <1>5. DecidedOf(R) = A \cup B /\ A \cap B = {}
    BY DEF DecidedOf
  <1> HIDE DEF U, R, A, B
  <1>6. IsFiniteSet(A) /\ IsFiniteSet(B)
    BY <1>4, RowsAreFinite
  <1>7. Cardinality(A \cup B) = Cardinality(A) + Cardinality(B) - Cardinality(A \cap B)
    BY <1>6, FS_Union
  <1>8. Cardinality(A) \in Nat /\ Cardinality(B) \in Nat /\ Cardinality(A \cap B) = 0
    BY <1>5, <1>6, FS_CardinalityType, FS_EmptySet
  <1> QED
    BY <1>3, <1>5, <1>7, <1>8 DEF R

(* The tables of the canteens share out the orders of a range. *)
LEMMA CanteenTablesAddUp ==
  ASSUME ReportTypeOK, NEW range
  PROVE  LET canteens == VendorPerformance(range) IN
         /\ Total([v \in DOMAIN canteens |-> canteens[v].orders])
                = Cardinality(PlacedIn(range))
         /\ Total([v \in DOMAIN canteens |-> canteens[v].decided])
                = Cardinality(DecidedOf(PlacedIn(range)))
  <1> DEFINE R == PlacedIn(range)
             Q == DecidedOf(R)
             V == {u \in Canteens : OrdersOf(u, range) # {}}
             F == [v \in V |-> OrdersOf(v, range)]
             G == [v \in V |-> DecidedOf(OrdersOf(v, range))]
             orders == [v \in V |-> VendorPerformance(range)[v].orders]
             decided == [v \in V |-> VendorPerformance(range)[v].decided]
  <1>1. \A v : OrdersOf(v, range) = {o \in R : bill[o].canteen = v}
    BY DEF OrdersOf, PlacedIn
  <1>2. \A o \in R : bill[o].canteen \in V
    BY <1>1, BillFields DEF PlacedIn
  <1>3. Splits(F, V, R)
    <2>1. \A v \in V : F[v] = {o \in R : bill[o].canteen = v}
      BY <1>1
    <2> HIDE DEF F, V, R
    <2> QED
      BY <1>2, <2>1 DEF Splits
  <1>4. Splits(G, V, Q)
    <2>1. \A v \in V : G[v] = {o \in Q : bill[o].canteen = v}
      <3> TAKE v \in V
      <3>1. G[v] = DecidedOf(OrdersOf(v, range))
        OBVIOUS
      <3> HIDE DEF G, V, R
      <3> QED
        BY <1>1, <3>1 DEF DecidedOf
    <2>2. \A o \in Q : bill[o].canteen \in V
      <3> HIDE DEF V, R
      <3> QED
        BY <1>2 DEF DecidedOf
    <2> HIDE DEF G, V, Q
    <2> QED
      BY <2>1, <2>2 DEF Splits
  <1>5. IsFiniteSet(V)
    <2>1. V \subseteq Canteens
      OBVIOUS
    <2> HIDE DEF V
    <2> QED
      BY <2>1, FS_Subset, TablesAssumption
  <1>6. IsFiniteSet(R) /\ IsFiniteSet(Q)
    <2>1. R \in SUBSET Bills /\ Q \in SUBSET Bills
      BY DEF PlacedIn, DecidedOf
    <2> HIDE DEF R, Q
    <2> QED
      BY <2>1, RowsAreFinite
  <1>7. DOMAIN VendorPerformance(range) = V
    BY DEF VendorPerformance
  <1>8. /\ orders = [v \in V |-> Cardinality(F[v])]
        /\ decided = [v \in V |-> Cardinality(G[v])]
    <2>1. \A v \in V : /\ VendorPerformance(range)[v].orders = Cardinality(OrdersOf(v, range))
                       /\ VendorPerformance(range)[v].decided
                              = Cardinality(DecidedOf(OrdersOf(v, range)))
      BY DEF VendorPerformance, DecidedOf
    <2>2. \A v \in V : F[v] = OrdersOf(v, range) /\ G[v] = DecidedOf(OrdersOf(v, range))
      OBVIOUS
    <2> HIDE DEF F, G, V
    <2> QED
      BY <2>1, <2>2
  <1> HIDE DEF R, V, F, Q, G, orders, decided
  <1>9. Total(orders) = Cardinality(R) /\ Total(decided) = Cardinality(Q)
    BY <1>3, <1>4, <1>5, <1>6, <1>8, CountsAddUp
  <1> QED
    BY <1>7, <1>9 DEF orders, decided, R, Q

(* The day of an instant is the rest of that day and what came before. *)
LEMMA EarlierIsTheRest ==
  ASSUME ReportTypeOK, NEW f \in Nat, NEW t \in Nat, f <= EndOf(t)
  PROVE  /\ PlacedIn(UtcRange(DayOf(f), t)) = PlacedIn(RangeFrom(f, t)) \cup EarlierThatDay(f)
         /\ PlacedIn(RangeFrom(f, t)) \cap EarlierThatDay(f) = {}
  <1>1. DayOf(f) \in Nat /\ StartOf(DayOf(f)) \in Nat /\ StartOf(DayOf(f)) <= f
    BY DEF DayOf, StartOf
  <1>2. EndOf(t) \in Nat
    BY DEF EndOf
  <1>3. \A o \in Bills : bill[o].createdAt \in Int
    BY BillFields, InstantsAreInts
  <1>4. ASSUME NEW i \in Int
        PROVE  /\ Within(i, UtcRange(DayOf(f), t))
                    <=> Within(i, RangeFrom(f, t)) \/ i \in StartOf(DayOf(f)) .. f - 1
               /\ ~ (Within(i, RangeFrom(f, t)) /\ i \in StartOf(DayOf(f)) .. f - 1)
    BY <1>1, <1>2 DEF Within, UtcRange, RangeFrom, Never
  <1> QED
    BY <1>3, <1>4 DEF PlacedIn, EarlierThatDay

(* Two sets of orders that share none are counted side by side. *)
LEMMA CountsOfParts ==
  ASSUME NEW R, NEW E, NEW W \in SUBSET Bills, W = R \cup E, R \cap E = {}
  PROVE  Cardinality(R) + Cardinality(E) = Cardinality(W)
  <1>1. IsFiniteSet(R) /\ IsFiniteSet(E)
    <2>1. R \in SUBSET Bills /\ E \in SUBSET Bills
      OBVIOUS
    <2> QED
      BY <2>1, RowsAreFinite
  <1>2. Cardinality(R \cup E) = Cardinality(R) + Cardinality(E) - Cardinality(R \cap E)
    BY <1>1, FS_Union
  <1>3. Cardinality(R) \in Nat /\ Cardinality(E) \in Nat /\ Cardinality(R \cap E) = 0
    BY <1>1, FS_CardinalityType, FS_EmptySet
  <1> QED
    BY <1>2, <1>3

(* A ranking lists what the tables list, and leaves out none that has more. *)
LEMMA RankingListsTheFirst ==
  ASSUME ReportTypeOK, NEW range, NEW limit, NEW top \in TopCanteens(limit, range)
  PROVE  LET canteens == VendorPerformance(range)
             orders == [v \in DOMAIN canteens |-> canteens[v].orders] IN
         /\ Cardinality(DOMAIN canteens) <= limit => top = orders
         /\ \A v \in DOMAIN top, u \in DOMAIN canteens \ DOMAIN top : top[v] >= orders[u]
  <1> DEFINE V == {u \in Canteens : OrdersOf(u, range) # {}}
             all == [v \in V |-> Cardinality(OrdersOf(v, range))]
             canteens == VendorPerformance(range)
             orders == [v \in DOMAIN canteens |-> canteens[v].orders]
  <1>1. DOMAIN canteens = V /\ DOMAIN all = V
    BY DEF VendorPerformance
  <1>2. orders = all
    <2>1. \A v \in V : canteens[v].orders = Cardinality(OrdersOf(v, range))
      BY DEF VendorPerformance
    <2> HIDE DEF V, canteens
    <2> QED
      BY <1>1, <2>1
  <1>3. PICK K \in SUBSET V :
          /\ top = [v \in K |-> all[v]]
          /\ IF Cardinality(DOMAIN all) <= limit THEN K = DOMAIN all
             ELSE /\ Cardinality(K) = limit
                  /\ \A v \in K, u \in DOMAIN all \ K : all[v] >= all[u]
    BY DEF TopCanteens
  <1> HIDE DEF V, canteens, orders
  <1>4. DOMAIN top = K /\ \A v \in K : top[v] = all[v]
    BY <1>3
  <1>5. CASE Cardinality(V) <= limit
    <2>1. K = V
      BY <1>1, <1>3, <1>5
    <2>2. top = all
      BY <1>3, <2>1
    <2> QED
      BY <1>1, <1>2, <1>4, <2>1, <2>2 DEF canteens, orders
  <1>6. CASE ~ (Cardinality(V) <= limit)
    <2> HIDE DEF all
    <2>1. \A v \in K, u \in V \ K : all[v] >= all[u]
      BY <1>1, <1>3, <1>6
    <2>2. /\ ~ (Cardinality(DOMAIN canteens) <= limit)
          /\ \A v \in DOMAIN top, u \in DOMAIN canteens \ DOMAIN top : top[v] >= orders[u]
      BY <1>1, <1>2, <1>4, <1>6, <2>1
    <2> QED
      BY <2>2 DEF canteens, orders
  <1> QED
    BY <1>5, <1>6

LEMMA RankingsAgreeLemma ==
  ASSUME ReportInv
  PROVE  RankingsAgree
  <1>1. ReportTypeOK
    BY DEF ReportInv
  <1>2. now \in Nat /\ Today \in Nat
    BY <1>1, TodayIsADay
  <1> SUFFICES ASSUME NEW f \in 0 .. now, NEW t \in {u \in 0 .. Today : f <= EndOf(u)}
               PROVE  LET placed == OrdersSummary(UtcRange(DayOf(f), t))
                          canteens == VendorPerformance(RangeFrom(f, t))
                          orders == [v \in DOMAIN canteens |-> canteens[v].orders]
                          decided == {o \in EarlierThatDay(f) :
                                         bill[o].status \in {"RECEIVED", "CANCELLED"}}
                      IN  /\ Total(orders) + Cardinality(EarlierThatDay(f)) = placed.orders
                          /\ Total([v \in DOMAIN canteens |-> canteens[v].decided])
                                 + Cardinality(decided) = placed.received + placed.cancelled
                          /\ \A limit \in 1 .. Cardinality(Canteens) :
                                 \A top \in TopCanteens(limit, RangeFrom(f, t)) :
                                     /\ Cardinality(DOMAIN canteens) <= limit =>
                                            Total(top) = Total(orders)
                                     /\ \A v \in DOMAIN top, u \in DOMAIN canteens \ DOMAIN top :
                                            top[v] >= orders[u]
    BY DEF RankingsAgree
  <1>3. f \in Nat /\ t \in Nat /\ f <= EndOf(t)
    BY <1>2
  <1> DEFINE whole == UtcRange(DayOf(f), t)
             range == RangeFrom(f, t)
             placed == OrdersSummary(whole)
             canteens == VendorPerformance(range)
             orders == [v \in DOMAIN canteens |-> canteens[v].orders]
             decided == [v \in DOMAIN canteens |-> canteens[v].decided]
             early == EarlierThatDay(f)
  <1>4. whole.since \in Int /\ whole.until \in Int
    BY <1>3 DEF UtcRange, StartOf, EndOf, DayOf
  <1>5. /\ placed.orders = Cardinality(PlacedIn(whole))
        /\ placed.received + placed.cancelled = Cardinality(DecidedOf(PlacedIn(whole)))
    <2> HIDE DEF whole
    <2> QED
      BY <1>1, <1>4, SummaryCounts
  <1>6. /\ Total(orders) = Cardinality(PlacedIn(range))
        /\ Total(decided) = Cardinality(DecidedOf(PlacedIn(range)))
    BY <1>1, CanteenTablesAddUp
  <1>7. PlacedIn(whole) = PlacedIn(range) \cup early /\ PlacedIn(range) \cap early = {}
    BY <1>1, <1>3, EarlierIsTheRest
  <1>8. \A limit \in 1 .. Cardinality(Canteens) : \A top \in TopCanteens(limit, range) :
          /\ Cardinality(DOMAIN canteens) <= limit => top = orders
          /\ \A v \in DOMAIN top, u \in DOMAIN canteens \ DOMAIN top : top[v] >= orders[u]
    <2> TAKE limit \in 1 .. Cardinality(Canteens)
    <2> TAKE top \in TopCanteens(limit, range)
    <2> HIDE DEF range
    <2> QED
      BY <1>1, RankingListsTheFirst
  <1>9. PlacedIn(whole) \in SUBSET Bills /\ DecidedOf(PlacedIn(whole)) \in SUBSET Bills
    BY DEF PlacedIn, DecidedOf
  <1>10. /\ DecidedOf(PlacedIn(whole)) = DecidedOf(PlacedIn(range)) \cup DecidedOf(early)
         /\ DecidedOf(PlacedIn(range)) \cap DecidedOf(early) = {}
    <2> HIDE DEF whole, range, early
    <2> QED
      BY <1>7 DEF DecidedOf
  <1>11. DecidedOf(early) = {o \in EarlierThatDay(f) :
                                bill[o].status \in {"RECEIVED", "CANCELLED"}}
    BY DEF DecidedOf
  <1> HIDE DEF whole, range, placed, orders, decided, early
  <1>12. Cardinality(PlacedIn(range)) + Cardinality(early) = Cardinality(PlacedIn(whole))
    BY <1>7, <1>9, CountsOfParts
  <1>13. Cardinality(DecidedOf(PlacedIn(range))) + Cardinality(DecidedOf(early))
           = Cardinality(DecidedOf(PlacedIn(whole)))
    BY <1>9, <1>10, CountsOfParts
  <1>14. /\ Total(orders) + Cardinality(early) = placed.orders
         /\ Total(decided) + Cardinality(DecidedOf(early)) = placed.received + placed.cancelled
    BY <1>5, <1>6, <1>12, <1>13
  <1>15. \A limit \in 1 .. Cardinality(Canteens) : \A top \in TopCanteens(limit, range) :
           /\ Cardinality(DOMAIN canteens) <= limit => Total(top) = Total(orders)
           /\ \A v \in DOMAIN top, u \in DOMAIN canteens \ DOMAIN top : top[v] >= orders[u]
    <2> HIDE DEF canteens
    <2> QED
      BY <1>8
  <1> QED
    BY <1>11, <1>14, <1>15 DEF whole, range, placed, orders, decided, early

(* Whatever the orders, the payments and the dates, the screens agree: what *)
(* the canteens see as collected, given back and pending is what the        *)
(* administration and the ledger see, for every grouping of every range of  *)
(* days; every chart of the analytics adds up to the total beside it; and   *)
(* the tables and the ranking of the canteens, whatever its limit, agree    *)
(* with the summary of the orders, which takes whole days where the others  *)
(* start in the middle of one (analytics.service.ts:35, 125, 240,           *)
(* vendors.service.ts:337, orders-stats.ts:17).                             *)
THEOREM ScreensAgree == ReportSpec => []FiguresAgree
  <1>1. ReportInv => FiguresAgree
    BY SalesAgreeLemma, ChartsAddUpLemma, RankingsAgreeLemma DEF FiguresAgree
  <1> QED
    BY <1>1, ReportInvInit, ReportInvStep, PTL DEF ReportSpec

(* What a past day sold does not change: an order that becomes ready today *)
(* counts for today, and no order that counts stops counting.              *)
LEMMA PastSalesStay ==
  ASSUME ReportInv, [ReportNext]_reportVars, NEW d \in Days, d < Today, NEW o \in Bills
  PROVE  /\ Credited(o)' /\ Within(bill'[o].readyAt, UtcRange(d, d)) <=>
                Credited(o) /\ Within(bill[o].readyAt, UtcRange(d, d))
         /\ Credited(o) => bill'[o].readyAt = bill[o].readyAt
         /\ bill'[o].canteen = bill[o].canteen
  <1>1. ReportTypeOK /\ now \in Nat /\ Today \in Nat /\ d \in Nat
    BY TodayIsADay, CalendarAssumption DEF ReportInv, Days
  <1>2. ~Within(now, UtcRange(d, d))
    <2>1. d <= Today - 1 /\ 2 * Today <= now
      BY <1>1, DaysOfInstants DEF Today
    <2> QED
      BY <1>1, <2>1 DEF Within, UtcRange, StartOf, EndOf
  <1>3. bill[o] \in Bill /\ bill \in [Bills -> Bill]
    BY <1>1 DEF ReportTypeOK
  <1>4. CASE Place
    BY <1>3, <1>4 DEF Place, Credited, Bill
  <1>5. CASE GoOn
    <2>1. PICK p \in Bills :
             \/ /\ bill[p].status = "CONFIRMED"
                /\ bill' = [bill EXCEPT ![p].status = "IN_PREPARATION"]
             \/ /\ bill[p].status = "IN_PREPARATION"
                /\ bill' = [bill EXCEPT ![p].status = "READY", ![p].readyAt = now]
             \/ /\ bill[p].status = "READY"
                /\ bill' = [bill EXCEPT ![p].status = "RECEIVED"]
             \/ /\ bill[p].status \in {"CONFIRMED", "IN_PREPARATION"}
                /\ bill' = [bill EXCEPT ![p].status = "CANCELLED", ![p].cancelledAt = now]
      BY <1>5 DEF GoOn
    <2>2. CASE p # o
      <3>1. bill'[o] = bill[o]
        BY <1>3, <2>1, <2>2
      <3> QED
        BY <3>1 DEF Credited
    <2>3. CASE p = o
      <3>1. CASE bill[o].status = "IN_PREPARATION" /\
                 bill' = [bill EXCEPT ![o].status = "READY", ![o].readyAt = now]
        <4>1. bill'[o].readyAt = now /\ bill'[o].canteen = bill[o].canteen
          BY <1>3, <3>1 DEF Bill
        <4> QED
          BY <1>2, <3>1, <4>1 DEF Credited
      <3>2. CASE bill[o].status = "CONFIRMED" /\
                 bill' = [bill EXCEPT ![o].status = "IN_PREPARATION"]
        BY <1>3, <3>2 DEF Credited, Bill
      <3>3. CASE bill[o].status = "READY" /\
                 bill' = [bill EXCEPT ![o].status = "RECEIVED"]
        BY <1>3, <3>3 DEF Credited, Bill
      <3>4. CASE bill[o].status \in {"CONFIRMED", "IN_PREPARATION"} /\
                 bill' = [bill EXCEPT ![o].status = "CANCELLED", ![o].cancelledAt = now]
        BY <1>3, <3>4 DEF Credited, Bill
      <3> QED
        BY <2>1, <2>3, <3>1, <3>2, <3>3, <3>4
    <2> QED
      BY <2>2, <2>3
  <1>6. CASE Move \/ Tick \/ UNCHANGED reportVars
    <2>1. bill' = bill
      BY <1>6 DEF Move, Tick, reportVars
    <2> QED
      BY <2>1 DEF Credited
  <1> QED
    BY <1>4, <1>5, <1>6 DEF ReportNext

LEMMA PastRevenueStays ==
  ASSUME ReportInv, [ReportNext]_reportVars, NEW d \in Days, d < Today
  PROVE  LET day == UtcRange(d, d) IN
         /\ OrdersSummary(day)'.revenueTickets = OrdersSummary(day).revenueTickets
         /\ \A v \in Canteens :
                Sales(v, "day", day)'.creditedOrders = Sales(v, "day", day).creditedOrders
  <1> DEFINE day == UtcRange(d, d)
             D == DayKeys(day)
  <1>1. \A e : CreditedOn(e, day)' = CreditedOn(e, day)
    BY PastSalesStay DEF CreditedOn
  <1>2. \A e : TicketsOf(CreditedOn(e, day))' = TicketsOf(CreditedOn(e, day))
    BY <1>1 DEF TicketsOf
  <1>3. OrdersSummary(day)'.revenueTickets = OrdersSummary(day).revenueTickets
    <2>1. OrdersSummary(day).revenueTickets
            = SumOf([e \in DayKeys(day) |-> TicketsOf(CreditedOn(e, day))])
      BY DEF OrdersSummary
    <2>2. OrdersSummary(day)'.revenueTickets
            = SumOf([e \in DayKeys(day) |-> TicketsOf(CreditedOn(e, day))'])
      BY DEF OrdersSummary
    <2> QED
      BY <1>2, <2>1, <2>2
  <1>4. ASSUME NEW v \in Canteens
        PROVE  Sales(v, "day", day)'.creditedOrders = Sales(v, "day", day).creditedOrders
    <2> DEFINE F == CollectedIn(v, "day", day)
    <2>1. F' = F
      BY PastSalesStay DEF CollectedIn
    <2>2. Sales(v, "day", day).creditedOrders = SumOf([p \in DOMAIN F |-> Cardinality(F[p])])
      BY DEF Sales
    <2>3. Sales(v, "day", day)'.creditedOrders
            = SumOf([p \in DOMAIN F' |-> Cardinality((F')[p])])
      BY DEF Sales
    <2> QED
      BY <2>1, <2>2, <2>3
  <1> QED
    BY <1>3, <1>4

(* The revenue and the sales of a day that is over are final, for the       *)
(* administration and for every canteen (orders-stats.ts:17).               *)
THEOREM RevenueIsFinal == ReportSpec => PastRevenueIsFinal
  <1>1. ReportInv /\ [ReportNext]_reportVars =>
           [\A d \in Days : d < Today =>
               LET day == UtcRange(d, d) IN
               /\ OrdersSummary(day)'.revenueTickets = OrdersSummary(day).revenueTickets
               /\ \A v \in Canteens :
                      Sales(v, "day", day)'.creditedOrders = Sales(v, "day", day).creditedOrders
           ]_reportVars
    BY PastRevenueStays
  <1> QED
    BY <1>1, ReportInvInit, ReportInvStep, PTL DEF ReportSpec, PastRevenueIsFinal

=============================================================================
