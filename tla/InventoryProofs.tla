-------------------------- MODULE InventoryProofs ---------------------------
(***************************************************************************)
(* Theorems of Inventory, for any set of stock rows, documents, counts and *)
(* workers.  The base invariant says what a transaction holds: rows that   *)
(* no other has locked, with the quantities its movements explain, and a   *)
(* number only for a new entry.  On it rest three invariants with          *)
(* hypotheses of their own: what may be sent again, and what a count may   *)
(* find, where the code floors a value or posts nothing.                   *)
(***************************************************************************)
EXTENDS Inventory, SumTheorems

-----------------------------------------------------------------------------
(* The base invariant *)

CountLine == [row : Rows, counted : Nat, cost : Nat]
Count == [posted : BOOLEAN, year : Years, number : Nat, lines : Seq(CountLine)]
Entry == [key : Keys, type : Types, year : Years, count : Nat, number : Nat \ {0}, inventory : Int]
Document == [type : Types, year : Years, number : Nat \ {0}, value : Int, entry : Nat]
Written == UNION {[R -> State] : R \in SUBSET Rows}
Transaction ==
    [pc : {"line", "post", "store"}, type : Types, year : Years, key : Keys,
     lines : Seq(ReceiptLine) \cup Seq(IssueLine) \cup Seq(CountLine), count : Nat,
     next : Nat \ {0}, rows : Written, up : Nat, down : Nat, moves : [Rows -> Int],
     entry : Nat, number : Nat]

KindInv ==
    /\ stock \in [Rows -> State] /\ moved \in [Rows -> Int]
    /\ lastNumber \in [Types \X Years -> Nat]
    /\ entries \in Seq(Entry) /\ documents \in Seq(Document) /\ counts \in Seq(Count)
    /\ txn \in [Workers -> Transaction \cup {Idle}]

EntriesExist == \A i \in DOMAIN documents : documents[i].entry \in DOMAIN entries

(* The lines are those of the type, a count's those that were recorded.    *)
LinesFit(t) ==
    /\ t.type = "goods_receipt" => t.lines \in Seq(ReceiptLine)
    /\ t.type = "stock_issue" => t.lines \in Seq(IssueLine)
    /\ t.type = "stock_count" =>
         t.count \in DOMAIN counts /\ t.lines = counts[t.count].lines

(* Before the engine there is neither an entry nor a number, after it one
   of the two, or nothing to post.                                         *)
Answered(t) ==
    /\ t.pc # "store" => t.entry = 0 /\ t.number = 0
    /\ t.number # 0 => t.entry = 0
    /\ t.entry # 0 => t.entry \in DOMAIN entries /\ entries[t.entry].key = t.key
    /\ t.pc = "store" /\ t.number = 0 /\ t.entry = 0 => NothingVaried(t)

(* What a transaction wrote to its rows is what its movements say.         *)
RowsExplained(t) ==
    \A r \in Rows : t.moves[r] = IF r \in DOMAIN t.rows
                                 THEN t.rows[r].quantity - stock[r].quantity ELSE 0

Sound(t) == LinesFit(t) /\ Answered(t) /\ RowsExplained(t)

(* No two transactions hold the same row.                                  *)
RowsApart ==
    \A w, v \in Workers : w # v /\ txn[w] # Idle /\ txn[v] # Idle =>
      DOMAIN txn[w].rows \cap DOMAIN txn[v].rows = {}

IInv ==
    /\ KindInv /\ EntriesExist /\ RowsApart
    /\ \A w \in Workers : txn[w] # Idle => Sound(txn[w])

-----------------------------------------------------------------------------
(* What is sent again, and what counts find *)

Sent(k, type) ==
    IF type = "stock_count" THEN k \in CountKeys
    ELSE \E d \in Documents : d.key = k /\ d.type = type

(* A key that is sent again belongs to documents of one type, never to the
   posting of a count: a count that finds its entry is stored all the same,
   while the number of a receipt or an issue is a unique index.            *)
SafeRetries ==
    \A k \in RetriedKeys :
      /\ k \notin CountKeys
      /\ \A d, e \in Documents : d.key = k /\ e.key = k => d.type = e.type

Adjusting(w) ==
    At(w, "line") /\ txn[w].type = "stock_count" /\ txn[w].next <= Len(txn[w].lines)
NextLine(w) == txn[w].lines[txn[w].next]
NextRow(w) == RowSeenBy(w, NextLine(w).row)
ValueAfter(w) ==
    NextRow(w).value + VarianceValue(NextRow(w), NextLine(w).counted, NextLine(w).cost)

(* A row that is counted down holds the value that the count takes off it;
   applyCountAdjustment would floor it at zero, and the entry would not.   *)
CountsAreCovered == \A w \in Workers : Adjusting(w) => ValueAfter(w) >= 0

(* A row that is counted empty holds no more than the count takes off.     *)
CountsLeaveNothing ==
    \A w \in Workers : Adjusting(w) /\ NextLine(w).counted = 0 => ValueAfter(w) <= 0

(* The smallest difference at the recorded cost is worth an amount: a count
   all of whose differences are worth nothing, which a cost of zero or the
   rounding of a line makes them, is neither posted nor are its movements
   stored.                                                                 *)
CountsHaveCosts ==
    \A c \in DOMAIN counts : \A i \in DOMAIN counts[c].lines :
      2 * counts[c].lines[i].cost >= Unit

-----------------------------------------------------------------------------
(* The invariants that rest on them *)

(* A key that is not sent again belongs to one transaction or one entry.   *)
KeysInv ==
    /\ \A e \in DOMAIN entries : Sent(entries[e].key, entries[e].type)
    /\ \A w \in Workers : txn[w] # Idle =>
         /\ Sent(txn[w].key, txn[w].type)
         /\ txn[w].key \notin RetriedKeys =>
              /\ \A e \in DOMAIN entries : entries[e].key # txn[w].key
              /\ \A v \in Workers : v # w /\ txn[v] # Idle => txn[v].key # txn[w].key

DocumentsInv == KeysInv /\ DocumentsHaveTheirEntry

(* What a transaction adds to the value of each row.                       *)
Change(t) ==
    [r \in Rows |-> IF r \in DOMAIN t.rows THEN t.rows[r].value - stock[r].value ELSE 0]

ValueInv ==
    /\ SubledgerMatchesControl
    /\ \A w \in Workers : txn[w] # Idle => SumFunction(Change(txn[w])) = txn[w].up - txn[w].down

EmptyRows(t) == \A r \in DOMAIN t.rows : t.rows[r].quantity = 0 => t.rows[r].value = 0
EmptyInv == NoValueWithoutStock /\ \A w \in Workers : txn[w] # Idle => EmptyRows(txn[w])

MovesInv ==
    /\ MovementsExplainStock
    /\ \A w \in Workers : txn[w] # Idle /\ NothingVaried(txn[w]) =>
         \A r \in Rows : txn[w].moves[r] = 0

-----------------------------------------------------------------------------
(* Arithmetic of the rows *)

(* Products of naturals are naturals, ...                                  *)
LEMMA NatProduct == \A a, b \in Nat : a * b \in Nat
  OBVIOUS

(* ... and quotients of naturals are naturals.                             *)
LEMMA NatQuotient == \A a \in Nat : \A b \in Nat \ {0} : a \div b \in Nat
  OBVIOUS

(* A rounded quotient of naturals is a natural.                            *)
LEMMA RoundedNat == \A n \in Nat : \A d \in Nat \ {0} : RoundedQuotient(n, d) \in Nat
<1>1. ASSUME NEW n \in Nat, NEW d \in Nat \ {0} PROVE RoundedQuotient(n, d) \in Nat
  <2>1. 2 * n + d \in Nat /\ 2 * d \in Nat \ {0}
    OBVIOUS
  <2>2. QED
    BY <2>1, NatQuotient DEF RoundedQuotient
<1>2. QED
  BY <1>1

(* A line of goods is worth a natural number.                              *)
LEMMA LineValueNat == \A q, c \in Nat : LineValue(q, c) \in Nat
  BY NatProduct, RoundedNat, UnitAssumption DEF LineValue

(* A difference found by a count is worth an integer.                      *)
LEMMA LineValueInt == \A q \in Int : \A c \in Nat : LineValue(q, c) \in Int
<1>1. ASSUME NEW q \in Int, NEW c \in Nat, q < 0 PROVE LineValue(q, c) \in Int
  <2>1. -q \in Nat
    BY <1>1
  <2>2. PICK x \in Nat : x = RoundedQuotient((-q) * c, Unit)
    BY <2>1, NatProduct, RoundedNat, UnitAssumption
  <2>3. QED
    BY <1>1, <2>2 DEF LineValue
<1>2. QED
  <2>1. \A q \in Int : ~(q < 0) => q \in Nat
    OBVIOUS
  <2>2. QED
    BY <1>1, <2>1, LineValueNat

(* Goods that come in add what the line is worth.                          *)
LEMMA ReceivedType ==
    ASSUME NEW s \in State, NEW q \in Nat, NEW c \in Nat
    PROVE  /\ LineValue(q, c) \in Nat /\ Received(s, q, c) \in State
           /\ Received(s, q, c).quantity = s.quantity + q
           /\ Received(s, q, c).value = s.value + LineValue(q, c)
<1>1. PICK n \in Nat : n = LineValue(q, c)
  BY LineValueNat
<1>2. QED
  BY <1>1 DEF Received, State

(* The average of a row is a natural number.                               *)
LEMMA AverageType == \A s \in State : AverageUnitCost(s) \in Nat
<1>1. ASSUME NEW s \in State, s.quantity # 0 PROVE AverageUnitCost(s) \in Nat
  <2>1. s.quantity \in Nat \ {0} /\ s.value \in Nat /\ Unit \in Nat
    BY <1>1, UnitAssumption DEF State
  <2>2. s.value * Unit \in Nat
    BY <2>1, NatProduct
  <2>3. QED
    BY <1>1, <2>1, <2>2, RoundedNat DEF AverageUnitCost
<1>2. QED
  BY <1>1 DEF AverageUnitCost

(* An issue takes from the row what it charges, and never more than is
   there; the last units take all of it.                                   *)
LEMMA IssueType ==
    ASSUME NEW s \in State, NEW q \in Nat, CanIssue(s, q)
    PROVE  /\ IssuedValue(s, q) \in Nat /\ AfterIssue(s, q) \in State
           /\ AfterIssue(s, q).quantity = s.quantity - q
           /\ AfterIssue(s, q).value = s.value - IssuedValue(s, q)
           /\ AfterIssue(s, q).quantity = 0 => AfterIssue(s, q).value = 0
<1>1. s.quantity \in Nat \ {0} /\ s.value \in Nat /\ q <= s.quantity
  BY DEF State, CanIssue
<1>2. Share(s, q) \in Nat
  <2>1. PICK n \in Nat : n = q * s.value
    BY <1>1, NatProduct
  <2>2. 2 * n + s.quantity \in Nat /\ 2 * s.quantity \in Nat \ {0}
    BY <1>1
  <2>3. RoundedQuotient(n, s.quantity) \in Nat
    BY <2>2, NatQuotient DEF RoundedQuotient
  <2>4. QED
    BY <1>1, <2>1, <2>3 DEF Share
<1>3. /\ IssuedValue(s, q) \in Nat /\ IssuedValue(s, q) <= s.value
      /\ q = s.quantity => IssuedValue(s, q) = s.value
  BY <1>1, <1>2 DEF IssuedValue, Lesser
<1>4. AfterIssue(s, q) = [quantity |-> s.quantity - q, value |-> s.value - IssuedValue(s, q)]
  BY <1>1, <1>3 DEF AfterIssue, AtLeastZero
<1>5. QED
  BY <1>1, <1>3, <1>4 DEF State

(* A count sets the quantity; it adds or takes what the difference is worth,
   if the row holds that much.                                             *)
LEMMA CountedType ==
    ASSUME NEW s \in State, NEW n \in Nat, NEW c \in Nat
    PROVE  /\ Counted(s, n, c) \in State /\ Counted(s, n, c).quantity = n
           /\ Variance(s, n) \in Int /\ Variance(s, n) = n - s.quantity
           /\ VarianceValue(s, n, c) \in Int
           /\ Counted(s, n, c).value = AtLeastZero(s.value + VarianceValue(s, n, c))
           /\ 2 * c >= Unit /\ VarianceValue(s, n, c) = 0 => Variance(s, n) = 0
<1>1. s.quantity \in Nat /\ s.value \in Nat /\ Variance(s, n) = n - s.quantity /\ Variance(s, n) \in Int
  BY DEF State, Variance
<1>2. PICK v \in Int : v = VarianceValue(s, n, c)
  BY <1>1, LineValueInt DEF VarianceValue
<1>3. 2 * c >= Unit /\ v = 0 => Variance(s, n) = 0
  <2>1. ASSUME NEW q \in Nat \ {0}, 2 * c >= Unit PROVE RoundedQuotient(q * c, Unit) # 0
    <3>1. PICK p \in Nat : p = q * c
      BY NatProduct
    <3>2. 2 * p >= Unit
      <4>1. q * c >= c
        OBVIOUS
      <4>2. QED
        BY <2>1, <3>1, <4>1, UnitAssumption
    <3>3. 2 * p + Unit >= 2 * Unit /\ 2 * Unit \in Nat \ {0}
      BY <3>2, UnitAssumption
    <3>4. \A a \in Nat : \A b \in Nat \ {0} : a >= b => a \div b # 0
      OBVIOUS
    <3>5. RoundedQuotient(p, Unit) # 0
      BY <3>3, <3>4, UnitAssumption DEF RoundedQuotient
    <3>6. QED
      BY <3>1, <3>5
  <2>2. ASSUME NEW q \in Int, 2 * c >= Unit, LineValue(q, c) = 0 PROVE q = 0
    <3>1. CASE q > 0
      BY <2>1, <2>2, <3>1 DEF LineValue
    <3>2. CASE q < 0
      <4>1. PICK m \in Nat \ {0} : m = -q
        BY <3>2
      <4>2. PICK x \in Nat : x = RoundedQuotient(m * c, Unit)
        BY NatProduct, RoundedNat, UnitAssumption
      <4>3. -x = 0
        BY <2>2, <3>2, <4>1, <4>2 DEF LineValue
      <4>4. x = 0
        BY <4>3
      <4>5. x # 0
        BY <2>1, <2>2, <4>2
      <4>6. QED
        BY <4>4, <4>5
    <3>3. QED
      BY <3>1, <3>2
  <2>3. QED
    BY <1>1, <1>2, <2>2 DEF VarianceValue
<1>4. QED
  BY <1>1, <1>2, <1>3 DEF Counted, AtLeastZero, State

-----------------------------------------------------------------------------
(* One transaction at a time *)

(* Only the transaction of w changes.                                      *)
LEMMA SetTxn ==
    ASSUME KindInv, NEW w \in Workers, NEW m, Set(w, m)
    PROVE  txn'[w] = m /\ \A v \in Workers : v # w => txn'[v] = txn[v]
  BY DEF KindInv, Set

(* What is open is a transaction.                                          *)
LEMMA Opened ==
    ASSUME KindInv, NEW w \in Workers, txn[w] # Idle
    PROVE  txn[w] \in Transaction
  BY DEF KindInv

(* The tables as they are carry what a transaction knows of them.          *)
LEMMA KeptSound ==
    ASSUME UNCHANGED tables, NEW t
    PROVE  Sound(t)' <=> Sound(t)
<1>1. LinesFit(t)' <=> LinesFit(t)
  BY DEF LinesFit, tables
<1>2. Answered(t)' <=> Answered(t)
  BY DEF Answered, NothingVaried, tables
<1>3. RowsExplained(t)' <=> RowsExplained(t)
  BY DEF RowsExplained, tables
<1>4. QED
  BY <1>1, <1>2, <1>3 DEF Sound

(* A step that writes no table keeps the invariant, if its transaction is
   sound and has locked its rows alone.                                    *)
LEMMA QuietStep ==
    ASSUME IInv, UNCHANGED tables, NEW w \in Workers, NEW m \in Transaction \cup {Idle}, Set(w, m),
           m # Idle => Sound(m),
           m # Idle => \A v \in Workers : v # w /\ txn[v] # Idle =>
                         DOMAIN m.rows \cap DOMAIN txn[v].rows = {}
    PROVE  IInv'
<1>1. KindInv /\ EntriesExist /\ RowsApart /\ \A v \in Workers : txn[v] # Idle => Sound(txn[v])
  BY DEF IInv
<1>2. txn'[w] = m /\ \A v \in Workers : v # w => txn'[v] = txn[v]
  BY <1>1, SetTxn
<1>3. KindInv'
  BY <1>1 DEF KindInv, Set, tables
<1>4. EntriesExist'
  BY <1>1 DEF EntriesExist, tables
<1>5. RowsApart'
  BY <1>1, <1>2 DEF RowsApart
<1>6. ASSUME NEW v \in Workers, NEW s, s = txn'[v], s # Idle PROVE Sound(s)'
  <2>1. Sound(s)
    BY <1>1, <1>2, <1>6
  <2>2. QED
    BY <2>1, KeptSound
<1>7. QED
  BY <1>3, <1>4, <1>5, <1>6 DEF IInv

(* Whatever is rolled back was never there.                                *)
LEMMA FailStep ==
    ASSUME IInv, NEW w \in Workers, Fail(w)
    PROVE  IInv'
<1>1. Idle \in Transaction \cup {Idle}
  OBVIOUS
<1>2. QED
  BY <1>1, QuietStep DEF Fail

(* The fields of a transaction.                                            *)
LEMMA Fields ==
    ASSUME NEW t \in Transaction
    PROVE  /\ t.pc \in {"line", "post", "store"} /\ t.type \in Types
           /\ t.year \in Years /\ t.key \in Keys
           /\ t.count \in Nat /\ t.next \in Nat \ {0}
           /\ DOMAIN t.rows \subseteq Rows /\ \A r \in DOMAIN t.rows : t.rows[r] \in State
           /\ t.up \in Nat /\ t.down \in Nat /\ t.moves \in [Rows -> Int]
           /\ t.entry \in Nat /\ t.number \in Nat
  BY DEF Transaction, Written


-----------------------------------------------------------------------------
(* One line *)

(* The row as a transaction sees it is a stock state.                      *)
LEMMA SeenType ==
    ASSUME KindInv, NEW w \in Workers, txn[w] # Idle, NEW r \in Rows
    PROVE  RowSeenBy(w, r) \in State
<1>1. \A q \in DOMAIN txn[w].rows : txn[w].rows[q] \in State
  BY Opened, Fields
<1>2. stock[r] \in State
  BY DEF KindInv
<1>3. QED
  BY <1>1, <1>2 DEF RowSeenBy

(* What a transaction wrote to row r, and what the line made of it.        *)
Writes(w, r, after, up, down, move) ==
    /\ r \in Rows /\ after \in State /\ up \in Nat /\ down \in Nat /\ move \in Int
    /\ r = NextLine(w).row /\ RowSeenBy(w, r) \in State
    /\ after.quantity = RowSeenBy(w, r).quantity + move
    /\ CountsAreCovered => after.value = RowSeenBy(w, r).value + up - down
    /\ CountsLeaveNothing /\ after.quantity = 0 => after.value = 0
    /\ CountsHaveCosts /\ txn[w].type = "stock_count" /\ up = 0 /\ down = 0 => move = 0
    /\ Set(w, Wrote(txn[w], r, after, up, down, move)) /\ UNCHANGED tables

(* A line of a receipt.                                                    *)
LEMMA ReceiveWrites ==
    ASSUME IInv, NEW w \in Workers, txn[w] # Idle, txn[w].type = "goods_receipt",
           txn[w].next <= Len(txn[w].lines), NEW l, l = NextLine(w),
           ReceiveLine(w, l, RowSeenBy(w, l.row))
    PROVE  \/ Fail(w)
           \/ \E r \in Rows, after \in State, up, down \in Nat, move \in Int :
                Writes(w, r, after, up, down, move)
<1>1. txn[w].lines \in Seq(ReceiptLine) /\ txn[w].next \in Nat \ {0}
  BY Opened, Fields DEF IInv, Sound, LinesFit
<1>2. l \in ReceiptLine
  BY <1>1 DEF NextLine
<1>3. l.row \in Rows /\ l.quantity \in Nat /\ l.cost \in Nat
  BY <1>2 DEF ReceiptLine
<1>4. CASE ~Fail(w)
  <2>1. PICK s \in State : s = RowSeenBy(w, l.row)
    BY <1>3, SeenType DEF IInv
  <2>2. /\ l.quantity > 0
        /\ Set(w, Wrote(txn[w], l.row, Received(s, l.quantity, l.cost),
                        LineValue(l.quantity, l.cost), 0, l.quantity))
        /\ UNCHANGED tables
    BY <1>4, <2>1 DEF ReceiveLine
  <2>3. PICK up \in Nat : up = LineValue(l.quantity, l.cost)
    BY <1>3, LineValueNat
  <2>4. PICK after \in State : after = Received(s, l.quantity, l.cost)
    BY <1>3, <2>1, ReceivedType
  <2>5. s.quantity \in Nat /\ s.value \in Nat
        /\ after.quantity = s.quantity + l.quantity /\ after.value = s.value + up
    <3>1. s.quantity \in Nat /\ s.value \in Nat
      BY DEF State
    <3>2. after.quantity = s.quantity + l.quantity /\ after.value = s.value + up
      BY <1>3, <2>3, <2>4 DEF Received
    <3>3. QED
      BY <3>1, <3>2
  <2>6. Writes(w, l.row, after, up, 0, l.quantity)
    BY <1>3, <2>1, <2>2, <2>3, <2>4, <2>5 DEF Writes
  <2>7. 0 \in Nat /\ l.quantity \in Int
    BY <1>3
  <2>8. QED
    BY <1>3, <2>3, <2>4, <2>6, <2>7
<1>5. QED
  BY <1>4

(* A line of an issue.                                                     *)
LEMMA IssueWrites ==
    ASSUME IInv, NEW w \in Workers, txn[w] # Idle, txn[w].type = "stock_issue",
           txn[w].next <= Len(txn[w].lines), NEW l, l = NextLine(w),
           IssueOneLine(w, l, RowSeenBy(w, l.row))
    PROVE  \/ Fail(w)
           \/ \E r \in Rows, after \in State, up, down \in Nat, move \in Int :
                Writes(w, r, after, up, down, move)
<1>1. txn[w].lines \in Seq(IssueLine) /\ txn[w].next \in Nat \ {0}
  BY Opened, Fields DEF IInv, Sound, LinesFit
<1>2. l \in IssueLine
  BY <1>1 DEF NextLine
<1>3. l.row \in Rows /\ l.quantity \in Nat
  BY <1>2 DEF IssueLine
<1>4. CASE ~Fail(w)
  <2>1. PICK s \in State : s = RowSeenBy(w, l.row)
    BY <1>3, SeenType DEF IInv
  <2>2. /\ CanIssue(s, l.quantity)
        /\ Set(w, Wrote(txn[w], l.row, AfterIssue(s, l.quantity), 0, IssuedValue(s, l.quantity), -l.quantity))
        /\ UNCHANGED tables
    BY <1>4, <2>1 DEF IssueOneLine
  <2>3. PICK down \in Nat : down = IssuedValue(s, l.quantity)
    BY <1>3, <2>1, <2>2, IssueType
  <2>4. PICK after \in State : after = AfterIssue(s, l.quantity)
    BY <1>3, <2>1, <2>2, IssueType
  <2>5. /\ after.quantity = s.quantity - l.quantity /\ after.value = s.value - down
        /\ after.quantity = 0 => after.value = 0
        /\ s.quantity \in Nat /\ s.value \in Nat
    BY <1>3, <2>1, <2>2, <2>3, <2>4, IssueType DEF State
  <2>6. Writes(w, l.row, after, 0, down, -l.quantity)
    BY <1>3, <2>1, <2>2, <2>3, <2>4, <2>5 DEF Writes
  <2>7. 0 \in Nat /\ -l.quantity \in Int
    BY <1>3
  <2>8. QED
    BY <1>3, <2>3, <2>4, <2>6, <2>7
<1>5. QED
  BY <1>4

(* A line of a count.                                                      *)
LEMMA AdjustWrites ==
    ASSUME IInv, NEW w \in Workers, txn[w] # Idle, txn[w].pc = "line", txn[w].type = "stock_count",
           txn[w].next <= Len(txn[w].lines), NEW l, l = NextLine(w),
           AdjustLine(w, l, RowSeenBy(w, l.row))
    PROVE  \E r \in Rows, after \in State, up, down \in Nat, move \in Int :
             Writes(w, r, after, up, down, move)
<1>1. /\ txn[w].count \in DOMAIN counts /\ txn[w].lines = counts[txn[w].count].lines
      /\ txn[w].next \in Nat \ {0} /\ counts \in Seq(Count)
  BY Opened, Fields DEF IInv, KindInv, Sound, LinesFit
<1>2. txn[w].lines \in Seq(CountLine)
  <2>1. counts[txn[w].count] \in Count
    BY <1>1
  <2>2. QED
    BY <1>1, <2>1 DEF Count
<1>3. l \in CountLine /\ txn[w].next \in DOMAIN counts[txn[w].count].lines
  BY <1>1, <1>2 DEF NextLine
<1>4. l.row \in Rows /\ l.counted \in Nat /\ l.cost \in Nat
  BY <1>3 DEF CountLine
<1>5. PICK s \in State : s = RowSeenBy(w, l.row)
  BY <1>4, SeenType DEF IInv
<1>6. PICK v \in Int : v = VarianceValue(s, l.counted, l.cost)
  BY <1>4, <1>5, CountedType
<1>7. PICK up \in Nat : up = AtLeastZero(v)
  BY <1>6 DEF AtLeastZero
<1>8. PICK down \in Nat : down = AtLeastZero(-v)
  BY <1>6 DEF AtLeastZero
<1>9. PICK move \in Int : move = Variance(s, l.counted)
  BY <1>4, <1>5, CountedType
<1>10. PICK after \in State : after = Counted(s, l.counted, l.cost)
  BY <1>4, <1>5, CountedType
<1>11. /\ after.quantity = l.counted /\ move = l.counted - s.quantity
       /\ after.value = AtLeastZero(s.value + v) /\ s.quantity \in Nat /\ s.value \in Nat
       /\ 2 * l.cost >= Unit /\ v = 0 => move = 0
  <2>1. s.quantity \in Nat /\ s.value \in Nat
    BY DEF State
  <2>2. after.quantity = l.counted /\ after.value = AtLeastZero(s.value + v)
    BY <1>4, <1>6, <1>10 DEF Counted
  <2>3. move = l.counted - s.quantity
    BY <1>4, <1>9, CountedType
  <2>4. 2 * l.cost >= Unit /\ v = 0 => move = 0
    BY <1>4, <1>6, <1>9, CountedType
  <2>5. QED
    BY <2>1, <2>2, <2>3, <2>4
<1>12. Set(w, Wrote(txn[w], l.row, after, up, down, move)) /\ UNCHANGED tables
  BY <1>5, <1>6, <1>7, <1>8, <1>9, <1>10 DEF AdjustLine
<1>13. Adjusting(w) /\ ValueAfter(w) = s.value + v
  BY <1>5, <1>6 DEF Adjusting, At, ValueAfter, NextRow
<1>14. CountsAreCovered => after.value = s.value + up - down
  <2>1. CountsAreCovered => s.value + v >= 0
    BY <1>13 DEF CountsAreCovered
  <2>2. QED
    BY <1>6, <1>7, <1>8, <1>11, <2>1 DEF AtLeastZero
<1>15. CountsLeaveNothing /\ after.quantity = 0 => after.value = 0
  <2>1. CountsLeaveNothing /\ l.counted = 0 => s.value + v <= 0
    BY <1>13 DEF CountsLeaveNothing
  <2>2. QED
    BY <1>6, <1>11, <2>1 DEF AtLeastZero
<1>16. CountsHaveCosts /\ up = 0 /\ down = 0 => move = 0
  <2>1. CountsHaveCosts => 2 * l.cost >= Unit
    BY <1>1, <1>3 DEF CountsHaveCosts, NextLine
  <2>2. up = 0 /\ down = 0 => v = 0
    BY <1>6, <1>7, <1>8 DEF AtLeastZero
  <2>3. QED
    BY <1>11, <2>1, <2>2
<1>17. Writes(w, l.row, after, up, down, move)
  BY <1>4, <1>5, <1>11, <1>12, <1>14, <1>15, <1>16 DEF Writes
<1>18. QED
  BY <1>4, <1>17


(* A transaction that wrote a row is a transaction.                        *)
LEMMA WroteFields ==
    ASSUME NEW t \in Transaction, NEW r \in Rows, NEW after \in State,
           NEW up \in Nat, NEW down \in Nat, NEW move \in Int,
           NEW m, m = Wrote(t, r, after, up, down, move)
    PROVE  /\ m \in Transaction
           /\ m.pc = t.pc /\ m.type = t.type /\ m.year = t.year /\ m.key = t.key
           /\ m.lines = t.lines /\ m.count = t.count /\ m.entry = t.entry /\ m.number = t.number
           /\ m.up = t.up + up /\ m.down = t.down + down
           /\ DOMAIN m.rows = DOMAIN t.rows \cup {r} /\ m.rows[r] = after
           /\ \A q \in DOMAIN t.rows : q # r => m.rows[q] = t.rows[q]
           /\ m.moves[r] = t.moves[r] + move
           /\ \A q \in Rows : q # r => m.moves[q] = t.moves[q]
<1> DEFINE rows == [q \in DOMAIN t.rows \cup {r} |-> IF q = r THEN after ELSE t.rows[q]]
           moves == [t.moves EXCEPT ![r] = t.moves[r] + move]
<1>1. /\ m.pc = t.pc /\ m.type = t.type /\ m.year = t.year /\ m.key = t.key
      /\ m.lines = t.lines /\ m.count = t.count /\ m.entry = t.entry /\ m.number = t.number
  BY DEF Wrote, Transaction
<1>2. m.next = t.next + 1 /\ m.up = t.up + up /\ m.down = t.down + down
  BY DEF Wrote, Transaction
<1>3. m.rows = rows /\ m.moves = moves
  BY DEF Wrote, Transaction
<1>4. rows \in Written
  <2>1. DOMAIN rows \in SUBSET Rows /\ rows \in [DOMAIN rows -> State]
    BY Fields
  <2>2. QED
    BY <2>1 DEF Written
<1>5. moves \in [Rows -> Int]
  BY Fields
<1>6. m.next \in Nat \ {0} /\ m.up \in Nat /\ m.down \in Nat
  BY <1>2, Fields
<1>7. m = [pc |-> m.pc, type |-> m.type, year |-> m.year, key |-> m.key, lines |-> m.lines,
           count |-> m.count, next |-> m.next, rows |-> m.rows, up |-> m.up, down |-> m.down,
           moves |-> m.moves, entry |-> m.entry, number |-> m.number]
  BY DEF Wrote, Transaction
<1>8. m \in Transaction
  BY <1>1, <1>3, <1>4, <1>5, <1>6, <1>7 DEF Transaction
<1>9. m.rows[r] = after /\ \A q \in DOMAIN t.rows : q # r => m.rows[q] = t.rows[q]
  BY <1>3
<1>10. m.moves[r] = t.moves[r] + move /\ \A q \in Rows : q # r => m.moves[q] = t.moves[q]
  BY <1>3, Fields
<1>11. QED
  BY <1>1, <1>2, <1>3, <1>8, <1>9, <1>10

(* A line either ends the transaction, or writes a row it has locked.      *)
LEMMA LineStep ==
    ASSUME IInv, NEW w \in Workers, Line(w)
    PROVE  /\ txn[w] \in Transaction /\ txn[w] # Idle /\ txn[w].pc = "line"
           /\ \/ Fail(w)
              \/ \E r \in Rows, after \in State, up, down \in Nat, move \in Int :
                   Writes(w, r, after, up, down, move) /\ Locked(r) \subseteq {w}
<1>1. PICK l : l = NextLine(w)
  OBVIOUS
<1>2. /\ txn[w] # Idle /\ txn[w].pc = "line" /\ txn[w].next <= Len(txn[w].lines)
      /\ Locked(l.row) \subseteq {w}
      /\ \/ txn[w].type = "goods_receipt" /\ ReceiveLine(w, l, RowSeenBy(w, l.row))
         \/ txn[w].type = "stock_issue" /\ IssueOneLine(w, l, RowSeenBy(w, l.row))
         \/ txn[w].type = "stock_count" /\ AdjustLine(w, l, RowSeenBy(w, l.row))
  BY <1>1 DEF Line, At, NextLine
<1>3. \/ Fail(w)
      \/ \E r \in Rows, after \in State, up, down \in Nat, move \in Int :
           Writes(w, r, after, up, down, move)
  BY <1>1, <1>2, ReceiveWrites, IssueWrites, AdjustWrites
<1>4. \A r, after, up, down, move : Writes(w, r, after, up, down, move) => r = l.row
  BY <1>1 DEF Writes
<1>5. txn[w] \in Transaction
  BY <1>2, Opened DEF IInv
<1>6. QED
  BY <1>2, <1>3, <1>4, <1>5

(* A line keeps the invariant: its row is locked by nobody else.           *)
LEMMA LineInv ==
    ASSUME IInv, NEW w \in Workers, Line(w)
    PROVE  IInv'
<1>1. txn[w] \in Transaction /\ txn[w] # Idle /\ txn[w].pc = "line" /\ KindInv /\ Sound(txn[w])
  BY LineStep DEF IInv
<1>2. ASSUME NEW r \in Rows, NEW after \in State, NEW up \in Nat, NEW down \in Nat, NEW move \in Int,
             Writes(w, r, after, up, down, move), Locked(r) \subseteq {w}
      PROVE  IInv'
  <2>1. PICK t : t = txn[w]
    OBVIOUS
  <2>2. PICK m : m = Wrote(t, r, after, up, down, move)
    OBVIOUS
  <2>3. t \in Transaction /\ t.pc = "line" /\ Sound(t) /\ m \in Transaction
    BY <1>1, <2>1, <2>2, WroteFields
  <2>4. /\ m.pc = t.pc /\ m.type = t.type /\ m.key = t.key
        /\ m.lines = t.lines /\ m.count = t.count /\ m.entry = t.entry /\ m.number = t.number
        /\ DOMAIN m.rows = DOMAIN t.rows \cup {r} /\ m.rows[r] = after
        /\ \A q \in DOMAIN t.rows : q # r => m.rows[q] = t.rows[q]
        /\ m.moves[r] = t.moves[r] + move
        /\ \A q \in Rows : q # r => m.moves[q] = t.moves[q]
    BY <2>2, <2>3, WroteFields
  <2>5. LinesFit(m)
    BY <2>3, <2>4 DEF Sound, LinesFit
  <2>6. Answered(m)
    BY <2>3, <2>4 DEF Sound, Answered
  <2>7. RowsExplained(m)
    <3>1. \A q \in Rows : q # r => m.moves[q] = IF q \in DOMAIN m.rows
                            THEN m.rows[q].quantity - stock[q].quantity ELSE 0
      BY <2>3, <2>4 DEF Sound, RowsExplained
    <3>2. m.moves[r] = after.quantity - stock[r].quantity
      <4>1. t.moves[r] = IF r \in DOMAIN t.rows THEN t.rows[r].quantity - stock[r].quantity ELSE 0
        BY <2>3 DEF Sound, RowsExplained
      <4>2. after.quantity = RowSeenBy(w, r).quantity + move
        BY <1>2 DEF Writes
      <4>3. stock[r].quantity \in Int /\ (r \in DOMAIN t.rows => t.rows[r].quantity \in Int)
        BY <1>1, <2>3, Fields DEF KindInv, State
      <4>4. QED
        BY <2>1, <2>4, <4>1, <4>2, <4>3 DEF RowSeenBy
    <3>3. QED
      BY <2>4, <3>1, <3>2 DEF RowsExplained
  <2>8. ASSUME NEW v \in Workers, v # w, txn[v] # Idle
        PROVE  DOMAIN m.rows \cap DOMAIN txn[v].rows = {}
    <3>1. DOMAIN t.rows \cap DOMAIN txn[v].rows = {}
      BY <1>1, <2>1, <2>8 DEF IInv, RowsApart
    <3>2. r \notin DOMAIN txn[v].rows
      BY <1>2, <2>8 DEF Locked, Active
    <3>3. QED
      BY <2>4, <3>1, <3>2
  <2>9. Set(w, m) /\ UNCHANGED tables
    BY <1>2, <2>1, <2>2 DEF Writes
  <2>10. QED
    BY <2>3, <2>5, <2>6, <2>7, <2>8, <2>9, QuietStep DEF Sound
<1>3. QED
  BY <1>2, LineStep, FailStep


-----------------------------------------------------------------------------
(* Transactions that begin and go through the engine *)

(* A document is a receipt or an issue.                                    *)
LEMMA DocumentType ==
    ASSUME NEW d \in Documents
    PROVE  /\ d.year \in Years /\ d.key \in Keys /\ d.type \in {"goods_receipt", "stock_issue"}
           /\ d.type = "goods_receipt" => d.lines \in Seq(ReceiptLine)
           /\ d.type = "stock_issue" => d.lines \in Seq(IssueLine)
  BY InventoryAssumption

(* A transaction begins with nothing.                                      *)
LEMMA BeginStep ==
    ASSUME IInv, UNCHANGED tables, NEW w \in Workers,
           NEW type \in Types, NEW year \in Years, NEW key \in Keys, NEW count \in Nat,
           NEW lines \in Seq(ReceiptLine) \cup Seq(IssueLine) \cup Seq(CountLine),
           NEW m, m = Begin(type, year, key, lines, count), Set(w, m), LinesFit(m)
    PROVE  IInv' /\ m \in Transaction /\ m.type = type /\ m.key = key /\ m.up = 0 /\ m.down = 0
           /\ DOMAIN m.rows = {} /\ \A r \in Rows : m.moves[r] = 0
<1>1. << >> \in Written /\ DOMAIN << >> = {}
  <2>1. {} \in SUBSET Rows /\ << >> \in [{} -> State]
    OBVIOUS
  <2>2. QED
    BY <2>1 DEF Written
<1>2. m \in Transaction
  BY <1>1 DEF Begin, Transaction
<1>3. /\ m.type = type /\ m.key = key /\ m.up = 0 /\ m.down = 0 /\ m.pc = "line"
      /\ m.entry = 0 /\ m.number = 0 /\ m.rows = << >> /\ m.moves = [r \in Rows |-> 0]
  BY DEF Begin
<1>4. DOMAIN m.rows = {} /\ \A r \in Rows : m.moves[r] = 0
  BY <1>1, <1>3
<1>5. Answered(m)
  BY <1>3 DEF Answered
<1>6. RowsExplained(m)
  BY <1>4 DEF RowsExplained
<1>7. Sound(m)
  BY <1>5, <1>6 DEF Sound
<1>8. IInv'
  BY <1>2, <1>4, <1>7, QuietStep
<1>9. QED
  BY <1>2, <1>3, <1>4, <1>8

(* A receipt or an issue begins.                                           *)
LEMMA SubmitInv ==
    ASSUME IInv, NEW w \in Workers, NEW d \in Documents, Submit(w, d)
    PROVE  IInv' /\ UNCHANGED tables /\ txn[w] = Idle /\ MaySend(d.key)
           /\ \E m \in Transaction :
                /\ Set(w, m) /\ m.type = d.type /\ m.key = d.key /\ m.up = 0 /\ m.down = 0
                /\ DOMAIN m.rows = {} /\ \A r \in Rows : m.moves[r] = 0
<1>1. PICK m : m = Begin(d.type, d.year, d.key, d.lines, 0)
  OBVIOUS
<1>2. UNCHANGED tables /\ txn[w] = Idle /\ MaySend(d.key) /\ Set(w, m)
  BY <1>1 DEF Submit
<1>3. /\ d.type \in Types /\ d.year \in Years /\ d.key \in Keys /\ 0 \in Nat
      /\ d.lines \in Seq(ReceiptLine) \cup Seq(IssueLine) \cup Seq(CountLine)
  BY DocumentType DEF Types
<1>4. LinesFit(m)
  BY <1>1, DocumentType DEF LinesFit, Begin
<1>5. /\ IInv' /\ m \in Transaction /\ m.type = d.type /\ m.key = d.key /\ m.up = 0 /\ m.down = 0
      /\ DOMAIN m.rows = {} /\ \A r \in Rows : m.moves[r] = 0
  BY <1>1, <1>2, <1>3, <1>4, BeginStep
<1>6. QED
  BY <1>2, <1>5

(* The posting of a count begins.                                          *)
LEMMA SubmitPostInv ==
    ASSUME IInv, NEW w \in Workers, NEW c \in DOMAIN counts, NEW k \in CountKeys, SubmitPost(w, c, k)
    PROVE  IInv' /\ UNCHANGED tables /\ txn[w] = Idle /\ MaySend(k)
           /\ \E m \in Transaction :
                /\ Set(w, m) /\ m.type = "stock_count" /\ m.key = k /\ m.up = 0 /\ m.down = 0
                /\ DOMAIN m.rows = {} /\ \A r \in Rows : m.moves[r] = 0
<1>1. PICK m : m = Begin("stock_count", counts[c].year, k, counts[c].lines, c)
  OBVIOUS
<1>2. UNCHANGED tables /\ txn[w] = Idle /\ MaySend(k) /\ Set(w, m)
  BY <1>1 DEF SubmitPost
<1>3. counts[c] \in Count /\ c \in Nat
  BY DEF IInv, KindInv
<1>4. /\ "stock_count" \in Types /\ counts[c].year \in Years /\ k \in Keys
      /\ counts[c].lines \in Seq(ReceiptLine) \cup Seq(IssueLine) \cup Seq(CountLine)
  BY <1>3, InventoryAssumption DEF Types, Count
<1>5. LinesFit(m)
  BY <1>1 DEF LinesFit, Begin
<1>6. /\ IInv' /\ m \in Transaction /\ m.type = "stock_count" /\ m.key = k /\ m.up = 0 /\ m.down = 0
      /\ DOMAIN m.rows = {} /\ \A r \in Rows : m.moves[r] = 0
  BY <1>1, <1>2, <1>3, <1>4, <1>5, BeginStep
<1>7. QED
  BY <1>2, <1>6

(* What the engine answers changes neither the rows nor what they explain. *)
Same(t, m) ==
    /\ m \in Transaction
    /\ m.type = t.type /\ m.year = t.year /\ m.key = t.key
    /\ m.lines = t.lines /\ m.count = t.count
    /\ m.rows = t.rows /\ m.up = t.up /\ m.down = t.down /\ m.moves = t.moves

Answers(w, m) == Same(txn[w], m) /\ Set(w, m) /\ UNCHANGED tables

(* A transaction that was answered keeps the invariant.                    *)
LEMMA AnswersStep ==
    ASSUME IInv, NEW w \in Workers, txn[w] # Idle, NEW m, Answers(w, m), Answered(m)
    PROVE  IInv'
<1>1. m \in Transaction /\ Set(w, m) /\ UNCHANGED tables /\ Sound(txn[w])
  BY DEF Answers, Same, IInv
<1>2. LinesFit(m) /\ RowsExplained(m)
  BY <1>1 DEF Answers, Same, Sound, LinesFit, RowsExplained
<1>3. \A v \in Workers : v # w /\ txn[v] # Idle => DOMAIN m.rows \cap DOMAIN txn[v].rows = {}
  BY DEF Answers, Same, IInv, RowsApart
<1>4. QED
  BY <1>1, <1>2, <1>3, QuietStep DEF Sound

(* A transaction that found its entry, and one that posts a new one.       *)
Found(t, i) == [t EXCEPT !.pc = "store", !.entry = i]
Posts(t, n) == [t EXCEPT !.pc = "store", !.number = n]

(* The fields that an answer sets.                                         *)
LEMMA AnswerNone ==
    ASSUME NEW t \in Transaction, NEW pc \in {"post", "store"}, NEW m, m = [t EXCEPT !.pc = pc]
    PROVE  Same(t, m) /\ m.pc = pc /\ m.entry = t.entry /\ m.number = t.number
  BY DEF Transaction, Same

(* An entry that was found ...                                             *)
LEMMA AnswerEntry ==
    ASSUME NEW t \in Transaction, NEW i \in Nat, NEW m, m = Found(t, i)
    PROVE  Same(t, m) /\ m.pc = "store" /\ m.entry = i /\ m.number = t.number
  BY DEF Transaction, Same, Found

(* ... or the number of a new one.                                         *)
LEMMA AnswerNumber ==
    ASSUME NEW t \in Transaction, NEW n \in Nat, NEW m, m = Posts(t, n)
    PROVE  Same(t, m) /\ m.pc = "store" /\ m.entry = t.entry /\ m.number = n
  BY DEF Transaction, Same, Posts

(* The look-up of the key, and what it found.                              *)
LEMMA LookUpStep ==
    ASSUME IInv, NEW w \in Workers, LookUpKey(w)
    PROVE  IInv' /\ txn[w] # Idle /\ txn[w].pc = "line" /\ UNCHANGED tables
           /\ \/ Fail(w)
              \/ \E m : Answers(w, m)
<1>1. PICK t : t = txn[w]
  OBVIOUS
<1>2. t # Idle /\ t.pc = "line" /\ UNCHANGED tables
  BY <1>1 DEF LookUpKey, At, Fail
<1>3. t \in Transaction /\ Sound(t) /\ t.entry = 0 /\ t.number = 0 /\ t.up \in Nat /\ t.down \in Nat
  BY <1>1, <1>2, Opened, Fields DEF IInv, Sound, Answered
<1>4. ASSUME NEW m, Same(t, m), Set(w, m), Answered(m)
      PROVE  IInv' /\ Answers(w, m)
  BY <1>1, <1>2, <1>4, AnswersStep DEF Answers
<1>5. ASSUME NothingVaried(t), NEW m, m = [t EXCEPT !.pc = "store"], Set(w, m)
      PROVE  IInv' /\ Answers(w, m)
  <2>1. Same(t, m) /\ m.pc = "store" /\ m.entry = 0 /\ m.number = 0
    BY <1>3, <1>5, AnswerNone
  <2>2. Answered(m)
    BY <1>5, <2>1 DEF Answered, NothingVaried, Same
  <2>3. QED
    BY <1>4, <1>5, <2>1, <2>2
<1>6. CASE Fail(w)
  BY <1>1, <1>2, <1>6, FailStep
<1>7. ASSUME NEW m, m = [t EXCEPT !.pc = "post"], Set(w, m)
      PROVE  IInv' /\ Answers(w, m)
  <2>1. Same(t, m) /\ m.pc = "post" /\ m.entry = 0 /\ m.number = 0
    BY <1>3, <1>7, AnswerNone
  <2>2. Answered(m)
    BY <2>1 DEF Answered
  <2>3. QED
    BY <1>4, <1>7, <2>1, <2>2
<1>8. ASSUME NEW i \in Posted(t.key), NEW m, m = Found(t, i), Set(w, m)
      PROVE  IInv' /\ Answers(w, m)
  <2>1. i \in DOMAIN entries /\ entries[i].key = t.key /\ i \in Nat /\ i # 0
    BY <1>8 DEF Posted, IInv, KindInv
  <2>2. Same(t, m) /\ m.pc = "store" /\ m.entry = i /\ m.number = 0
    BY <1>3, <1>8, <2>1, AnswerEntry
  <2>3. Answered(m)
    BY <2>1, <2>2 DEF Answered, Same
  <2>4. QED
    BY <1>4, <1>8, <2>2, <2>3
<1>9. QED
  BY <1>1, <1>2, <1>5, <1>6, <1>7, <1>8 DEF LookUpKey, Found

(* The entry is posted under a number of its own, or found meanwhile.      *)
LEMMA PostEntryStep ==
    ASSUME IInv, NEW w \in Workers, PostEntry(w)
    PROVE  IInv' /\ txn[w] # Idle /\ txn[w].pc = "post" /\ UNCHANGED tables
           /\ \/ Fail(w)
              \/ \E m : Answers(w, m)
<1>1. PICK t : t = txn[w]
  OBVIOUS
<1>2. t # Idle /\ t.pc = "post" /\ UNCHANGED tables
  BY <1>1 DEF PostEntry, At, Fail
<1>3. t \in Transaction /\ t.entry = 0 /\ t.type \in Types /\ t.year \in Years
  BY <1>1, <1>2, Opened, Fields DEF IInv, Sound, Answered
<1>4. CASE Set(w, [t EXCEPT !.pc = "store", !.number = lastNumber[<<t.type, t.year>>] + 1])
  <2>1. PICK n \in Nat : n = lastNumber[<<t.type, t.year>>] + 1
    BY <1>3 DEF IInv, KindInv
  <2>2. n # 0
    BY <1>3, <2>1 DEF IInv, KindInv
  <2>3. PICK m : m = Posts(t, n)
    OBVIOUS
  <2>4. Same(t, m) /\ m.pc = "store" /\ m.entry = 0 /\ m.number = n
    BY <1>3, <2>3, AnswerNumber
  <2>5. Answers(w, m)
    BY <1>1, <1>2, <1>4, <2>1, <2>3, <2>4 DEF Answers, Posts
  <2>6. Answered(m)
    BY <2>2, <2>4 DEF Answered
  <2>7. QED
    BY <1>1, <1>2, <2>5, <2>6, AnswersStep
<1>5. CASE Fail(w)
  BY <1>1, <1>2, <1>5, FailStep
<1>6. QED
  BY <1>1, <1>4, <1>5 DEF PostEntry


-----------------------------------------------------------------------------
(* What a commit writes *)

(* The rows it locked, and no others.                                      *)
LEMMA StockCommitted ==
    ASSUME KindInv, NEW t \in Transaction, CommitStock(t)
    PROVE  /\ stock' \in [Rows -> State] /\ DOMAIN t.rows \subseteq Rows
           /\ \A r \in DOMAIN t.rows : stock'[r] = t.rows[r]
           /\ \A r \in Rows \ DOMAIN t.rows : stock'[r] = stock[r]
<1>1. DOMAIN t.rows \subseteq Rows /\ \A r \in DOMAIN t.rows : t.rows[r] \in State
  BY Fields
<1>2. \A r \in Rows : stock[r] \in State
  BY DEF KindInv
<1>3. QED
  BY <1>1, <1>2 DEF CommitStock

(* At most one entry, after those that were there.                         *)
LEMMA EntriesCommitted ==
    ASSUME KindInv, NEW t \in Transaction, CommitEntry(t)
    PROVE  /\ entries' \in Seq(Entry) /\ lastNumber' \in [Types \X Years -> Nat]
           /\ DOMAIN entries = 1 .. Len(entries) /\ Len(entries) \in Nat
           /\ \A e \in DOMAIN entries : e \in DOMAIN entries' /\ entries'[e] = entries[e]
           /\ t.number = 0 => entries' = entries
           /\ t.number # 0 => /\ entries' = Append(entries, NewEntry(t))
                              /\ DOMAIN entries' = DOMAIN entries \cup {Len(entries) + 1}
                              /\ entries'[Len(entries) + 1] = NewEntry(t)
<1>1. /\ entries \in Seq(Entry) /\ Len(entries) \in Nat /\ DOMAIN entries = 1 .. Len(entries)
      /\ lastNumber \in [Types \X Years -> Nat]
  BY DEF KindInv
<1>2. CASE t.number = 0
  BY <1>1, <1>2 DEF CommitEntry
<1>3. CASE t.number # 0
  <2>1. entries' = Append(entries, NewEntry(t))
        /\ lastNumber' = [lastNumber EXCEPT ![<<t.type, t.year>>] = t.number]
    BY <1>3 DEF CommitEntry
  <2>2. NewEntry(t) \in Entry
    BY <1>3, Fields DEF NewEntry, Entry
  <2>3. lastNumber' \in [Types \X Years -> Nat]
    BY <1>1, <2>1, Fields
  <2>4. /\ entries' \in Seq(Entry) /\ Len(entries') = Len(entries) + 1
        /\ entries'[Len(entries) + 1] = NewEntry(t)
        /\ \A e \in 1 .. Len(entries) : entries'[e] = entries[e]
    BY <1>1, <2>1, <2>2
  <2>5. DOMAIN entries' = DOMAIN entries \cup {Len(entries) + 1}
    BY <1>1, <2>4
  <2>6. QED
    BY <1>1, <1>3, <2>1, <2>3, <2>4, <2>5
<1>4. QED
  BY <1>2, <1>3

(* The movements of the rows.                                              *)
LEMMA MovementsCommitted ==
    ASSUME KindInv, NEW t \in Transaction, CommitMovements(t)
    PROVE  /\ moved' \in [Rows -> Int]
           /\ NothingVaried(t) => moved' = moved
           /\ ~NothingVaried(t) => \A r \in Rows : moved'[r] = moved[r] + t.moves[r]
  BY Fields DEF KindInv, CommitMovements

(* Other transactions know nothing of what is committed.                   *)
LEMMA OthersSound ==
    ASSUME KindInv, NEW t \in Transaction, CommitStock(t),
           counts \in Seq(Count), \A c \in DOMAIN counts : c \in DOMAIN counts' /\ counts'[c].lines = counts[c].lines,
           \A e \in DOMAIN entries : e \in DOMAIN entries' /\ entries'[e] = entries[e],
           NEW s \in Transaction, Sound(s), DOMAIN s.rows \cap DOMAIN t.rows = {}
    PROVE  Sound(s)'
<1>1. LinesFit(s) /\ Answered(s) /\ RowsExplained(s)
  BY DEF Sound
<1>2. LinesFit(s)'
  BY <1>1 DEF LinesFit
<1>3. Answered(s)'
  BY <1>1 DEF Answered, NothingVaried
<1>4. RowsExplained(s)'
  <2>1. \A r \in DOMAIN s.rows : r \in Rows /\ stock'[r] = stock[r]
    BY StockCommitted, Fields
  <2>2. QED
    BY <1>1, <2>1 DEF RowsExplained
<1>5. QED
  BY <1>2, <1>3, <1>4 DEF Sound

(* The transaction of w ends; what it stored refers to an entry.           *)
Commits(w) ==
    /\ txn[w] # Idle /\ txn[w].pc = "store" /\ Set(w, Idle)
    /\ CommitStock(txn[w]) /\ CommitEntry(txn[w]) /\ CommitMovements(txn[w])

(* A commit keeps the invariant.                                           *)
LEMMA CommitInv ==
    ASSUME IInv, NEW w \in Workers, Commits(w),
           documents' \in Seq(Document), counts' \in Seq(Count), EntriesExist',
           \A c \in DOMAIN counts : c \in DOMAIN counts' /\ counts'[c].lines = counts[c].lines
    PROVE  IInv'
<1>1. KindInv /\ RowsApart /\ \A v \in Workers : txn[v] # Idle => Sound(txn[v])
  BY DEF IInv
<1>2. PICK t \in Transaction : t = txn[w]
  BY <1>1, Opened DEF Commits
<1>3. CommitStock(t) /\ CommitEntry(t) /\ CommitMovements(t) /\ Set(w, Idle)
  BY <1>2 DEF Commits
<1>4. txn'[w] = Idle /\ \A v \in Workers : v # w => txn'[v] = txn[v]
  BY <1>1, <1>3, SetTxn
<1>5. /\ stock' \in [Rows -> State] /\ moved' \in [Rows -> Int]
      /\ lastNumber' \in [Types \X Years -> Nat] /\ entries' \in Seq(Entry)
  BY <1>1, <1>3, StockCommitted, EntriesCommitted, MovementsCommitted
<1>6. txn' \in [Workers -> Transaction \cup {Idle}]
  BY <1>1, <1>3 DEF KindInv, Set
<1>7. KindInv'
  BY <1>5, <1>6 DEF KindInv
<1>8. RowsApart'
  BY <1>1, <1>4 DEF RowsApart
<1>9. ASSUME NEW v \in Workers, NEW s, s = txn'[v], s # Idle PROVE Sound(s)'
  <2>1. v # w /\ s = txn[v] /\ s \in Transaction /\ Sound(s)
    BY <1>1, <1>4, <1>9, Opened
  <2>2. DOMAIN s.rows \cap DOMAIN t.rows = {}
    BY <1>1, <1>2, <1>9, <2>1 DEF RowsApart, Commits
  <2>3. \A e \in DOMAIN entries : e \in DOMAIN entries' /\ entries'[e] = entries[e]
    BY <1>1, <1>3, EntriesCommitted
  <2>4. counts \in Seq(Count)
    BY <1>1 DEF KindInv
  <2>5. QED
    BY <1>1, <1>3, <2>1, <2>2, <2>3, <2>4, OthersSound
<1>10. QED
  BY <1>7, <1>8, <1>9 DEF IInv

(* A receipt or an issue is stored with the entry it posted or found.      *)
Stored(t) ==
    [type |-> t.type, year |-> t.year, number |-> DocumentNumber(t), value |-> t.up - t.down,
     entry |-> IF t.number > 0 THEN Len(entries) + 1 ELSE t.entry]

(* Storing one keeps the invariant.                                        *)
LEMMA StoreDocumentStep ==
    ASSUME IInv, NEW w \in Workers, NEW type \in {"goods_receipt", "stock_issue"},
           StoreDocument(w, type), ~Fail(w)
    PROVE  /\ IInv' /\ Commits(w) /\ txn[w] \in Transaction /\ txn[w].type = type
           /\ ~NumberTaken(txn[w]) /\ Stored(txn[w]) \in Document
           /\ txn[w].number # 0 \/ (txn[w].entry # 0 /\ txn[w].entry \in DOMAIN entries)
           /\ documents' = Append(documents, Stored(txn[w])) /\ UNCHANGED counts
<1>1. PICK t : t = txn[w]
  OBVIOUS
<1>2. /\ t # Idle /\ t.pc = "store" /\ t.type = type /\ ~NumberTaken(t)
      /\ CommitStock(t) /\ CommitEntry(t) /\ CommitMovements(t)
      /\ documents' = Append(documents, Stored(t)) /\ Set(w, Idle) /\ UNCHANGED counts
  BY <1>1 DEF StoreDocument, At, Stored
<1>3. KindInv /\ EntriesExist /\ t \in Transaction /\ Sound(t)
  BY <1>1, <1>2, Opened DEF IInv
<1>4. t.number # 0 \/ (t.entry # 0 /\ t.entry \in DOMAIN entries)
  BY <1>2, <1>3 DEF Sound, Answered, NothingVaried
<1>5. /\ entries \in Seq(Entry) /\ DOMAIN entries = 1 .. Len(entries) /\ Len(entries) \in Nat
      /\ documents \in Seq(Document) /\ counts \in Seq(Count)
  BY <1>3 DEF KindInv
<1>6. t.number \in Nat /\ t.entry \in Nat /\ t.type \in Types /\ t.year \in Years /\ t.up - t.down \in Int
  BY <1>3, Fields
<1>7. DocumentNumber(t) \in Nat \ {0}
  <2>1. t.number = 0 => entries[t.entry] \in Entry
    BY <1>4, <1>5
  <2>2. QED
    BY <1>6, <2>1 DEF DocumentNumber, Entry
<1>8. PICK D : D = Stored(t)
  OBVIOUS
<1>9. D \in Document /\ D.entry = IF t.number > 0 THEN Len(entries) + 1 ELSE t.entry
  BY <1>5, <1>6, <1>7, <1>8 DEF Stored, Document
<1>10. /\ \A e \in DOMAIN entries : e \in DOMAIN entries'
       /\ t.number # 0 => Len(entries) + 1 \in DOMAIN entries'
  BY <1>2, <1>3, EntriesCommitted
<1>11. /\ documents' \in Seq(Document) /\ DOMAIN documents' = 1 .. Len(documents) + 1
       /\ \A i \in 1 .. Len(documents) : documents'[i] = documents[i]
       /\ documents'[Len(documents) + 1] = D /\ DOMAIN documents = 1 .. Len(documents)
       /\ Len(documents) \in Nat
  BY <1>2, <1>5, <1>8, <1>9
<1>12. D.entry \in DOMAIN entries'
  BY <1>4, <1>6, <1>9, <1>10
<1>13. EntriesExist'
  BY <1>3, <1>10, <1>11, <1>12 DEF EntriesExist
<1>14. Commits(w)
  BY <1>1, <1>2 DEF Commits
<1>15. IInv'
  BY <1>2, <1>5, <1>11, <1>13, <1>14, CommitInv
<1>16. QED
  BY <1>1, <1>2, <1>3, <1>4, <1>8, <1>9, <1>14, <1>15

(* A count is marked as posted; its lines stay as they were recorded.      *)
LEMMA StoreCountStep ==
    ASSUME IInv, NEW w \in Workers, StoreCount(w)
    PROVE  /\ IInv' /\ Commits(w) /\ txn[w] \in Transaction /\ txn[w].type = "stock_count"
           /\ UNCHANGED documents
           /\ \A c \in DOMAIN counts' : c \in DOMAIN counts /\ counts'[c].lines = counts[c].lines
<1>1. PICK t : t = txn[w]
  OBVIOUS
<1>2. /\ t # Idle /\ t.pc = "store" /\ t.type = "stock_count" /\ UNCHANGED documents
      /\ CommitStock(t) /\ CommitEntry(t) /\ CommitMovements(t) /\ Set(w, Idle)
      /\ counts' = [counts EXCEPT ![t.count].posted = TRUE]
  BY <1>1 DEF StoreCount, At
<1>3. KindInv /\ EntriesExist /\ t \in Transaction /\ Sound(t)
  BY <1>1, <1>2, Opened DEF IInv
<1>4. t.count \in DOMAIN counts /\ counts \in Seq(Count)
  BY <1>2, <1>3 DEF Sound, LinesFit, KindInv
<1>5. DOMAIN counts = 1 .. Len(counts) /\ Len(counts) \in Nat /\ \A c \in DOMAIN counts : counts[c] \in Count
  BY <1>4
<1>6. /\ DOMAIN counts' = DOMAIN counts
      /\ \A c \in DOMAIN counts : counts'[c] \in Count /\ counts'[c].lines = counts[c].lines
  BY <1>2, <1>5 DEF Count
<1>7. counts' \in Seq(Count)
  <2>1. counts' \in [1 .. Len(counts) -> Count]
    BY <1>2, <1>5, <1>6
  <2>2. QED
    BY <1>5, <2>1
<1>8. \A e \in DOMAIN entries : e \in DOMAIN entries'
  BY <1>2, <1>3, EntriesCommitted
<1>9. EntriesExist' /\ documents' \in Seq(Document)
  BY <1>2, <1>3, <1>8 DEF EntriesExist, KindInv
<1>10. Commits(w)
  BY <1>1, <1>2 DEF Commits
<1>11. IInv'
  BY <1>6, <1>7, <1>9, <1>10, CommitInv
<1>12. QED
  BY <1>1, <1>2, <1>3, <1>6, <1>10, <1>11

(* A count is recorded; nobody posts it yet.                               *)
LEMMA RecordInv ==
    ASSUME IInv, NEW sheet \in CountSheets, RecordCount(sheet)
    PROVE  IInv'
<1>1. /\ KindInv /\ EntriesExist /\ RowsApart /\ \A v \in Workers : txn[v] # Idle => Sound(txn[v])
      /\ UNCHANGED <<stock, moved, entries, documents, txn>>
  BY DEF IInv, RecordCount
<1>2. PICK number : number = lastNumber[<<"stock_count", sheet.year>>] + 1
  OBVIOUS
<1> DEFINE line(i) ==
             [row |-> sheet.lines[i].row, counted |-> sheet.lines[i].counted,
              cost |-> IF stock[sheet.lines[i].row].quantity > 0
                       THEN AverageUnitCost(stock[sheet.lines[i].row])
                       ELSE sheet.lines[i].costIfNone]
           lines == [i \in DOMAIN sheet.lines |-> line(i)]
           c == [posted |-> FALSE, year |-> sheet.year, number |-> number, lines |-> lines]
<1>3. /\ \A i \in DOMAIN sheet.lines :
           stock[sheet.lines[i].row].quantity = 0 => sheet.lines[i].costIfNone >= 0
      /\ counts' = Append(counts, c)
      /\ lastNumber' = [lastNumber EXCEPT ![<<"stock_count", sheet.year>>] = number]
  BY <1>2 DEF RecordCount
<1>4. sheet.year \in Years /\ sheet.lines \in Seq(SheetLine)
  BY InventoryAssumption
<1>5. <<"stock_count", sheet.year>> \in Types \X Years
  BY <1>4 DEF Types
<1>6. number \in Nat /\ lastNumber' \in [Types \X Years -> Nat]
  BY <1>1, <1>2, <1>3, <1>5 DEF KindInv
<1>7. ASSUME NEW i \in DOMAIN sheet.lines PROVE line(i) \in CountLine
  <2>1. sheet.lines[i] \in SheetLine
    BY <1>4
  <2>2. /\ sheet.lines[i].row \in Rows /\ sheet.lines[i].counted \in Nat
        /\ sheet.lines[i].costIfNone \in Int
    BY <2>1 DEF SheetLine
  <2>3. stock[sheet.lines[i].row] \in State
    BY <1>1, <2>2 DEF KindInv
  <2>4. stock[sheet.lines[i].row].quantity \in Nat
    BY <2>3 DEF State
  <2>5. line(i).cost \in Nat
    BY <1>3, <2>2, <2>3, <2>4, AverageType
  <2>6. QED
    BY <2>2, <2>5 DEF CountLine
<1>8. lines \in Seq(CountLine)
  <2>1. DOMAIN sheet.lines = 1 .. Len(sheet.lines) /\ Len(sheet.lines) \in Nat
    BY <1>4
  <2>2. lines \in [1 .. Len(sheet.lines) -> CountLine]
    BY <1>7, <2>1
  <2>3. QED
    BY <2>1, <2>2
<1>9. c \in Count
  <2> HIDE DEF lines
  <2> QED
    BY <1>4, <1>6, <1>8 DEF Count
<1>10. counts \in Seq(Count)
  BY <1>1 DEF KindInv
<1> HIDE DEF c
<1>11. /\ counts' \in Seq(Count)
       /\ \A k \in DOMAIN counts : k \in DOMAIN counts' /\ counts'[k] = counts[k]
  BY <1>3, <1>9, <1>10
<1>12. KindInv' /\ EntriesExist' /\ RowsApart'
  BY <1>1, <1>6, <1>11 DEF KindInv, EntriesExist, RowsApart
<1>13. ASSUME NEW v \in Workers, NEW s, s = txn[v], s # Idle PROVE Sound(s)'
  <2>1. LinesFit(s) /\ Answered(s) /\ RowsExplained(s)
    BY <1>1, <1>13 DEF Sound
  <2>2. LinesFit(s)'
    BY <1>11, <2>1 DEF LinesFit
  <2>3. Answered(s)' /\ RowsExplained(s)'
    BY <1>1, <2>1 DEF Answered, NothingVaried, RowsExplained
  <2>4. QED
    BY <2>2, <2>3 DEF Sound
<1>14. QED
  BY <1>1, <1>12, <1>13 DEF IInv


-----------------------------------------------------------------------------
(* The base invariant holds *)

(* The steps of one transaction, each with what it must have been.         *)
StepOf(w) ==
    \/ \E d \in Documents : Submit(w, d)
    \/ \E c \in DOMAIN counts, k \in CountKeys : SubmitPost(w, c, k)
    \/ Line(w) \/ LookUpKey(w) \/ PostEntry(w) \/ Store(w) \/ Fail(w)

(* Every step is one of these, or a count is recorded.                     *)
LEMMA NextSteps ==
    ASSUME Next
    PROVE  \/ \E w \in Workers : StepOf(w)
           \/ \E sheet \in CountSheets : RecordCount(sheet)
  BY DEF Next, StepOf, Advance, BreakDeadlock, Rollback

(* A step of one transaction keeps the invariant.                          *)
LEMMA StepInv ==
    ASSUME IInv, NEW w \in Workers, StepOf(w)
    PROVE  IInv'
<1>1. CASE \E d \in Documents : Submit(w, d)
  BY <1>1, SubmitInv
<1>2. CASE \E c \in DOMAIN counts, k \in CountKeys : SubmitPost(w, c, k)
  BY <1>2, SubmitPostInv
<1>3. CASE Line(w) \/ LookUpKey(w) \/ PostEntry(w)
  BY <1>3, LineInv, LookUpStep, PostEntryStep
<1>4. CASE Fail(w)
  BY <1>4, FailStep
<1>5. ASSUME NEW type \in {"goods_receipt", "stock_issue"}, StoreDocument(w, type) PROVE IInv'
  BY <1>5, StoreDocumentStep, FailStep
<1>6. CASE StoreReceipt(w) \/ StoreIssue(w)
  BY <1>5, <1>6 DEF StoreReceipt, StoreIssue
<1>7. CASE StoreCount(w)
  BY <1>7, StoreCountStep
<1>8. QED
  BY <1>1, <1>2, <1>3, <1>4, <1>6, <1>7 DEF StepOf, Store

(* At first there is nothing.                                              *)
LEMMA InitInv == Init => IInv
<1> SUFFICES ASSUME Init PROVE IInv
  OBVIOUS
<1>1. /\ Nothing \in State
      /\ entries = << >> /\ documents = << >> /\ counts = << >>
      /\ \A w \in Workers : txn[w] = Idle
  BY DEF Init, Nothing, State
<1>2. stock \in [Rows -> State] /\ moved \in [Rows -> Int] /\ lastNumber \in [Types \X Years -> Nat]
  BY <1>1 DEF Init
<1>3. txn \in [Workers -> Transaction \cup {Idle}]
  BY DEF Init
<1>4. KindInv
  BY <1>1, <1>2, <1>3 DEF KindInv
<1>5. EntriesExist /\ RowsApart
  BY <1>1 DEF EntriesExist, RowsApart
<1>6. QED
  BY <1>1, <1>4, <1>5 DEF IInv

(* Nothing changes in a step that changes no variable.                     *)
LEMMA StutterInv ==
    ASSUME IInv, UNCHANGED vars
    PROVE  IInv'
<1>1. UNCHANGED tables /\ txn' = txn
  BY DEF vars
<1>2. KindInv' /\ EntriesExist' /\ RowsApart'
  BY <1>1 DEF IInv, KindInv, EntriesExist, RowsApart, tables
<1>3. ASSUME NEW v \in Workers, NEW s, s = txn[v], s # Idle PROVE Sound(s)'
  BY <1>1, <1>3, KeptSound DEF IInv
<1>4. QED
  BY <1>1, <1>2, <1>3 DEF IInv

(* Every step keeps the invariant.                                         *)
LEMMA NextInv == IInv /\ [Next]_vars => IInv'
  BY NextSteps, StepInv, RecordInv, StutterInv

(* The base invariant holds in every state.                                *)
LEMMA Invariance == Spec => []IInv
  BY InitInv, NextInv, PTL DEF Spec

(* Every variable holds a value of its kind, and no row ever holds a
   negative quantity or value, whoever receives, issues and counts at the
   same time.                                                              *)
THEOREM Types_of_stock == Spec => []TypeOK
<1>1. IInv => TypeOK
  <2> SUFFICES ASSUME IInv PROVE TypeOK
    OBVIOUS
  <2>1. KindInv /\ EntriesExist
    BY DEF IInv
  <2>2. \A i \in DOMAIN entries : entries[i] \in Entry
    BY <2>1 DEF KindInv
  <2>3. ASSUME NEW i \in DOMAIN documents
        PROVE  documents[i] \in [type : Types, year : Years, number : Nat \ {0}, value : Int,
                                 entry : DOMAIN entries]
    <3>1. documents[i] \in Document /\ documents[i].entry \in DOMAIN entries
      BY <2>1 DEF KindInv, EntriesExist
    <3>2. QED
      BY <3>1 DEF Document
  <2>4. \A w \in Active : DOMAIN txn[w].rows \subseteq Rows
    BY <2>1, Opened, Fields DEF Active
  <2>5. QED
    BY <2>1, <2>2, <2>3, <2>4 DEF TypeOK, KindInv, Entry
<1>2. QED
  BY <1>1, Invariance, PTL


-----------------------------------------------------------------------------
(* What is sent again *)

(* A step that posts nothing keeps the keys apart.                         *)
LEMMA KeysQuiet ==
    ASSUME KindInv, KeysInv, NEW w \in Workers, NEW m, Set(w, m), UNCHANGED entries,
           m # Idle => Sent(m.key, m.type),
           m # Idle /\ m.key \notin RetriedKeys =>
             /\ \A e \in DOMAIN entries : entries[e].key # m.key
             /\ \A v \in Workers : v # w /\ txn[v] # Idle => txn[v].key # m.key
    PROVE  KeysInv'
<1>1. txn'[w] = m /\ \A v \in Workers : v # w => txn'[v] = txn[v]
  BY SetTxn
<1>2. \A e \in DOMAIN entries' : Sent(entries'[e].key, entries'[e].type)
  BY DEF KeysInv
<1>3. ASSUME NEW v \in Workers, txn'[v] # Idle
      PROVE  /\ Sent(txn'[v].key, txn'[v].type)
             /\ txn'[v].key \notin RetriedKeys =>
                  \A e \in DOMAIN entries' : entries'[e].key # txn'[v].key
  BY <1>1, <1>3 DEF KeysInv
<1>4. ASSUME NEW v \in Workers, txn'[v] # Idle, txn'[v].key \notin RetriedKeys,
             NEW u \in Workers, u # v, txn'[u] # Idle
      PROVE  txn'[u].key # txn'[v].key
  <2>1. CASE v = w
    BY <1>1, <1>4, <2>1
  <2>2. CASE v # w /\ u = w
    <3>1. txn'[v] = txn[v] /\ txn'[u] = m
      BY <1>1, <2>2
    <3>2. QED
      BY <1>4, <2>2, <3>1
  <2>3. CASE v # w /\ u # w
    BY <1>1, <1>4, <2>3 DEF KeysInv
  <2>4. QED
    BY <2>1, <2>2, <2>3
<1>5. QED
  BY <1>2, <1>3, <1>4 DEF KeysInv, Sent

(* A transaction that goes on keeps its key.                               *)
LEMMA KeysGoOn ==
    ASSUME KindInv, KeysInv, NEW w \in Workers, txn[w] # Idle, NEW m, Set(w, m), UNCHANGED tables,
           m = Idle \/ (m.key = txn[w].key /\ m.type = txn[w].type)
    PROVE  KeysInv'
<1>1. UNCHANGED entries
  BY DEF tables
<1>2. QED
  BY <1>1, KeysQuiet DEF KeysInv

(* A new entry takes the key of its transaction.                           *)
LEMMA KeysCommit ==
    ASSUME IInv, KeysInv, NEW w \in Workers, Commits(w)
    PROVE  KeysInv'
<1>1. KindInv /\ txn[w] # Idle /\ Set(w, Idle) /\ CommitEntry(txn[w])
  BY DEF IInv, Commits
<1>2. PICK t \in Transaction : t = txn[w]
  BY <1>1, Opened
<1>3. txn'[w] = Idle /\ \A v \in Workers : v # w => txn'[v] = txn[v]
  BY <1>1, SetTxn
<1>4. NewEntry(t).key = t.key /\ NewEntry(t).type = t.type
  BY DEF NewEntry
<1>5. \A e \in DOMAIN entries' :
        \/ e \in DOMAIN entries /\ entries'[e] = entries[e]
        \/ entries'[e].key = t.key /\ entries'[e].type = t.type
  BY <1>1, <1>2, <1>4, EntriesCommitted
<1>6. \A e \in DOMAIN entries' : Sent(entries'[e].key, entries'[e].type)
  BY <1>1, <1>2, <1>5 DEF KeysInv
<1>7. ASSUME NEW v \in Workers, txn'[v] # Idle
      PROVE  /\ Sent(txn'[v].key, txn'[v].type)
             /\ txn'[v].key \notin RetriedKeys =>
                  /\ \A e \in DOMAIN entries' : entries'[e].key # txn'[v].key
                  /\ \A u \in Workers : u # v /\ txn'[u] # Idle => txn'[u].key # txn'[v].key
  <2>1. v # w /\ txn'[v] = txn[v]
    BY <1>3, <1>7
  <2>2. Sent(txn[v].key, txn[v].type)
    BY <1>7, <2>1 DEF KeysInv
  <2>3. ASSUME txn[v].key \notin RetriedKeys
        PROVE  /\ t.key # txn[v].key
               /\ \A e \in DOMAIN entries : entries[e].key # txn[v].key
               /\ \A u \in Workers : u # v /\ txn'[u] # Idle => txn'[u].key # txn[v].key
    BY <1>1, <1>2, <1>3, <1>7, <2>1, <2>3 DEF KeysInv
  <2>4. QED
    BY <1>5, <2>1, <2>2, <2>3
<1>8. QED
  BY <1>6, <1>7 DEF KeysInv, Sent

(* A transaction that begins has a key of its own, or one sent again.      *)
LEMMA KeysBegin ==
    ASSUME KindInv, KeysInv, NEW w \in Workers, txn[w] = Idle, NEW m, Set(w, m), UNCHANGED tables,
           MaySend(m.key), Sent(m.key, m.type)
    PROVE  KeysInv'
<1>1. UNCHANGED entries
  BY DEF tables
<1>2. m.key \notin RetriedKeys =>
             /\ \A e \in DOMAIN entries : entries[e].key # m.key
             /\ \A v \in Workers : v # w /\ txn[v] # Idle => txn[v].key # m.key
  BY DEF MaySend, Posted, Active
<1>3. QED
  BY <1>1, <1>2, KeysQuiet

(* Every step keeps the keys apart.                                        *)
LEMMA KeysStep ==
    ASSUME IInv, KeysInv, NEW w \in Workers, StepOf(w)
    PROVE  KeysInv'
<1>1. KindInv
  BY DEF IInv
<1>2. ASSUME NEW d \in Documents, Submit(w, d) PROVE KeysInv'
  <2>1. /\ UNCHANGED tables /\ txn[w] = Idle /\ MaySend(d.key)
        /\ \E m : Set(w, m) /\ m.type = d.type /\ m.key = d.key
    BY <1>2, SubmitInv
  <2>2. Sent(d.key, d.type)
    BY DocumentType DEF Sent
  <2>3. QED
    BY <1>1, <2>1, <2>2, KeysBegin
<1>3. ASSUME NEW c \in DOMAIN counts, NEW k \in CountKeys, SubmitPost(w, c, k) PROVE KeysInv'
  <2>1. /\ UNCHANGED tables /\ txn[w] = Idle /\ MaySend(k)
        /\ \E m : Set(w, m) /\ m.type = "stock_count" /\ m.key = k
    BY <1>3, SubmitPostInv
  <2>2. Sent(k, "stock_count")
    BY DEF Sent
  <2>3. QED
    BY <1>1, <2>1, <2>2, KeysBegin
<1>4. CASE Fail(w)
  <2>1. CASE txn[w] = Idle
    <3>1. Set(w, Idle) /\ UNCHANGED entries
      BY <1>4 DEF Fail, tables
    <3>2. QED
      BY <1>1, <3>1, KeysQuiet
  <2>2. CASE txn[w] # Idle
    BY <1>1, <1>4, <2>2, KeysGoOn DEF Fail
  <2>3. QED
    BY <2>1, <2>2
<1>5. CASE Line(w)
  <2>1. ASSUME NEW r \in Rows, NEW after \in State, NEW up \in Nat, NEW down \in Nat,
               NEW move \in Int, Writes(w, r, after, up, down, move)
        PROVE  KeysInv'
    <3>1. PICK t \in Transaction : t = txn[w] /\ t # Idle
      BY <1>5, LineStep
    <3>2. PICK m : m = Wrote(t, r, after, up, down, move)
      OBVIOUS
    <3>3. m.key = t.key /\ m.type = t.type
      BY <3>2, WroteFields
    <3>4. Set(w, m) /\ UNCHANGED tables
      BY <2>1, <3>1, <3>2 DEF Writes
    <3>5. QED
      BY <1>1, <3>1, <3>3, <3>4, KeysGoOn
  <2>2. QED
    BY <1>4, <1>5, <2>1, LineStep
<1>6. CASE LookUpKey(w) \/ PostEntry(w)
  <2>1. txn[w] # Idle /\ (Fail(w) \/ \E m : Answers(w, m))
    BY <1>6, LookUpStep, PostEntryStep
  <2>2. ASSUME NEW m, Answers(w, m) PROVE KeysInv'
    BY <1>1, <2>1, <2>2, KeysGoOn DEF Answers, Same
  <2>3. QED
    BY <1>4, <2>1, <2>2
<1>7. ASSUME NEW type \in {"goods_receipt", "stock_issue"}, StoreDocument(w, type) PROVE KeysInv'
  BY <1>4, <1>7, StoreDocumentStep, KeysCommit
<1>8. CASE StoreReceipt(w) \/ StoreIssue(w)
  BY <1>7, <1>8 DEF StoreReceipt, StoreIssue
<1>9. CASE StoreCount(w)
  BY <1>9, StoreCountStep, KeysCommit
<1>10. QED
  BY <1>2, <1>3, <1>4, <1>5, <1>6, <1>8, <1>9 DEF StepOf, Store

(* Whoever found an entry was sent again, so it is no count, and the entry
   is of its type.                                                         *)
LEMMA FoundItsOwn ==
    ASSUME SafeRetries, IInv, KeysInv, NEW w \in Workers, txn[w] # Idle, txn[w].entry # 0
    PROVE  /\ txn[w].type # "stock_count" /\ txn[w].entry \in DOMAIN entries
           /\ entries[txn[w].entry].type = txn[w].type
<1>1. PICK t : t = txn[w]
  OBVIOUS
<1>2. t.entry \in DOMAIN entries /\ entries[t.entry].key = t.key /\ Sent(t.key, t.type)
  BY <1>1 DEF IInv, Sound, Answered, KeysInv
<1>3. t.key \in RetriedKeys /\ Sent(t.key, entries[t.entry].type)
  BY <1>1, <1>2 DEF KeysInv
<1>4. t.key \notin CountKeys
  BY <1>3 DEF SafeRetries
<1>5. t.type # "stock_count" /\ entries[t.entry].type # "stock_count"
  BY <1>2, <1>3, <1>4 DEF Sent
<1>6. PICK d \in Documents, e \in Documents :
        d.key = t.key /\ d.type = t.type /\ e.key = t.key /\ e.type = entries[t.entry].type
  BY <1>2, <1>3, <1>5 DEF Sent
<1>7. d.type = e.type
  BY <1>3, <1>6 DEF SafeRetries
<1>8. QED
  BY <1>1, <1>2, <1>5, <1>6, <1>7

(* A document that is stored posted its entry itself: one that found its
   entry would take the number of the document that has it.                *)
LEMMA StoredPosted ==
    ASSUME SafeRetries, IInv, DocumentsInv, NEW w \in Workers, txn[w] # Idle,
           txn[w].type \in {"goods_receipt", "stock_issue"}, txn[w].pc = "store",
           ~NumberTaken(txn[w])
    PROVE  txn[w].number # 0 /\ txn[w].entry = 0
<1>1. PICK t \in Transaction : t = txn[w]
  BY Opened DEF IInv
<1>2. Answered(t) /\ t.number \in Nat
  BY <1>1, Fields DEF IInv, Sound
<1>3. ASSUME t.entry # 0 PROVE FALSE
  <2>1. t.entry \in DOMAIN entries /\ entries[t.entry].type = t.type /\ t.type # "stock_count" /\ t.number = 0
    BY <1>1, <1>2, <1>3, FoundItsOwn DEF DocumentsInv, Answered
  <2>2. PICK i \in DOMAIN documents : documents[i].entry = t.entry
    BY <2>1 DEF DocumentsInv, DocumentsHaveTheirEntry
  <2>3. documents[i].type = t.type /\ documents[i].number = entries[t.entry].number
    BY <2>1, <2>2 DEF DocumentsInv, DocumentsHaveTheirEntry
  <2>4. DocumentNumber(t) = entries[t.entry].number
    BY <2>1 DEF DocumentNumber
  <2>5. QED
    BY <1>1, <2>3, <2>4 DEF NumberTaken
<1>4. t.number = 0 => NothingVaried(t)
  BY <1>1, <1>2, <1>3 DEF Answered
<1>5. QED
  BY <1>1, <1>3, <1>4 DEF NothingVaried


-----------------------------------------------------------------------------
(* Documents and their entries *)

(* What a step of one transaction can be.                                  *)
Fresh(m) ==
    /\ m \in Transaction /\ m.up = 0 /\ m.down = 0 /\ DOMAIN m.rows = {}
    /\ \A r \in Rows : m.moves[r] = 0

StoresDocument(w) ==
    /\ txn[w].type \in {"goods_receipt", "stock_issue"}
    /\ ~NumberTaken(txn[w]) /\ Stored(txn[w]) \in Document
    /\ documents' = Append(documents, Stored(txn[w]))

StoresCount(w) == txn[w].type = "stock_count" /\ UNCHANGED documents

(* There are five kinds of steps.                                          *)
LEMMA StepKinds ==
    ASSUME IInv, NEW w \in Workers, StepOf(w)
    PROVE  \/ Fail(w)
           \/ \E m : Fresh(m) /\ Set(w, m) /\ UNCHANGED tables
           \/ txn[w] # Idle /\ \E m : Answers(w, m)
           \/ /\ txn[w] # Idle
              /\ \E r \in Rows, after \in State, up, down \in Nat, move \in Int :
                   Writes(w, r, after, up, down, move) /\ Locked(r) \subseteq {w}
           \/ Commits(w) /\ (StoresDocument(w) \/ StoresCount(w))
<1>1. CASE \E d \in Documents : Submit(w, d)
  BY <1>1, SubmitInv DEF Fresh
<1>2. CASE \E c \in DOMAIN counts, k \in CountKeys : SubmitPost(w, c, k)
  BY <1>2, SubmitPostInv DEF Fresh
<1>3. CASE Line(w)
  BY <1>3, LineStep
<1>4. CASE LookUpKey(w) \/ PostEntry(w)
  BY <1>4, LookUpStep, PostEntryStep
<1>5. ASSUME NEW type \in {"goods_receipt", "stock_issue"}, StoreDocument(w, type), ~Fail(w)
      PROVE  Commits(w) /\ StoresDocument(w)
  BY <1>5, StoreDocumentStep DEF StoresDocument
<1>6. CASE StoreReceipt(w) \/ StoreIssue(w)
  BY <1>5, <1>6 DEF StoreReceipt, StoreIssue
<1>7. CASE StoreCount(w)
  BY <1>7, StoreCountStep DEF StoresCount
<1>8. CASE Fail(w)
  BY <1>8
<1>9. QED
  BY <1>1, <1>2, <1>3, <1>4, <1>6, <1>7, <1>8 DEF StepOf, Store

(* All but a commit leave the tables as they are.                          *)
LEMMA QuietOrCommit ==
    ASSUME IInv, NEW w \in Workers, StepOf(w)
    PROVE  UNCHANGED tables \/ (Commits(w) /\ (StoresDocument(w) \/ StoresCount(w)))
  BY StepKinds DEF Fail, Answers, Writes

(* What is committed was posted, or is worth nothing.                      *)
LEMMA CommitPosts ==
    ASSUME SafeRetries, IInv, DocumentsInv, NEW w \in Workers,
           Commits(w), StoresDocument(w) \/ StoresCount(w)
    PROVE  /\ txn[w].number # 0 \/ (txn[w].up = 0 /\ txn[w].down = 0)
           /\ StoresDocument(w) => txn[w].number # 0 /\ txn[w].number \in Nat
<1>1. PICK t \in Transaction : t = txn[w]
  BY Opened DEF IInv, Commits
<1>2. t # Idle /\ t.pc = "store" /\ Answered(t) /\ t.number \in Nat
  BY <1>1, Fields DEF IInv, Sound, Commits
<1>3. CASE StoresDocument(w)
  <2>1. t.number # 0
    BY <1>1, <1>2, <1>3, StoredPosted DEF StoresDocument
  <2>2. QED
    BY <1>1, <1>2, <2>1
<1>4. CASE StoresCount(w) /\ ~StoresDocument(w)
  <2>1. t.entry = 0
    BY <1>1, <1>2, <1>4, FoundItsOwn DEF StoresCount, DocumentsInv
  <2>2. t.number = 0 => NothingVaried(t)
    BY <1>2, <2>1 DEF Answered
  <2>3. QED
    BY <1>1, <1>4, <2>2 DEF NothingVaried
<1>5. QED
  BY <1>3, <1>4

(* A document is stored with the entry it posted.                          *)
LEMMA DocumentStored ==
    ASSUME SafeRetries, IInv, DocumentsInv, NEW w \in Workers, Commits(w), StoresDocument(w)
    PROVE  DocumentsHaveTheirEntry'
<1>1. PICK t \in Transaction : t = txn[w]
  BY Opened DEF IInv, Commits
<1>2. PICK n \in Nat : n = Len(entries)
  BY DEF IInv, KindInv
<1>3. t.number # 0 /\ t.number \in Nat
  BY <1>1, CommitPosts
<1>4. /\ DOMAIN entries = 1 .. n
      /\ DOMAIN entries' = DOMAIN entries \cup {n + 1} /\ entries'[n + 1] = NewEntry(t)
      /\ \A e \in DOMAIN entries : entries'[e] = entries[e]
  BY <1>1, <1>2, <1>3, EntriesCommitted DEF IInv, Commits
<1>5. PICK k \in Nat : k = Len(documents)
  BY DEF IInv, KindInv
<1>6. PICK D \in Document : D = Stored(t)
  BY <1>1 DEF StoresDocument
<1>7. documents' = Append(documents, D) /\ documents \in Seq(Document)
  BY <1>1, <1>6 DEF StoresDocument, IInv, KindInv
<1>8. /\ DOMAIN documents = 1 .. k
      /\ DOMAIN documents' = DOMAIN documents \cup {k + 1} /\ documents'[k + 1] = D
      /\ \A i \in DOMAIN documents : documents'[i] = documents[i]
  BY <1>5, <1>7
<1>9. D.entry = n + 1 /\ n + 1 \notin DOMAIN entries
  BY <1>2, <1>3, <1>4, <1>6 DEF Stored
<1>10. \A i \in DOMAIN documents : documents[i].entry \in DOMAIN entries
  BY DEF IInv, EntriesExist
<1>11. ASSUME NEW i \in DOMAIN documents', NEW d, d = documents'[i], NEW e, e = entries'[d.entry]
       PROVE  e.type = d.type /\ e.year = d.year /\ e.number = d.number /\ e.inventory = d.value
  <2>1. CASE i \in DOMAIN documents
    <3>1. d = documents[i] /\ e = entries[d.entry]
      BY <1>4, <1>8, <1>10, <1>11, <2>1
    <3>2. QED
      BY <2>1, <3>1 DEF DocumentsInv, DocumentsHaveTheirEntry
  <2>2. CASE i = k + 1
    <3>1. d = Stored(t) /\ e = NewEntry(t)
      BY <1>4, <1>6, <1>8, <1>9, <1>11, <2>2
    <3>2. d.number = t.number
      BY <1>3, <3>1 DEF Stored, DocumentNumber
    <3>3. QED
      BY <3>1, <3>2 DEF Stored, NewEntry
  <2>3. QED
    BY <1>8, <2>1, <2>2
<1>12. ASSUME NEW e \in DOMAIN entries', entries'[e].type # "stock_count"
       PROVE  \E i \in DOMAIN documents' : documents'[i].entry = e
  <2>1. CASE e = n + 1
    BY <1>8, <1>9, <2>1
  <2>2. CASE e \in DOMAIN entries
    <3>1. PICK i \in DOMAIN documents : documents[i].entry = e
      BY <1>4, <1>12, <2>2 DEF DocumentsInv, DocumentsHaveTheirEntry
    <3>2. QED
      BY <1>8, <3>1
  <2>3. QED
    BY <1>4, <2>1, <2>2
<1>13. ASSUME NEW i \in DOMAIN documents', NEW j \in DOMAIN documents',
              documents'[i].entry = documents'[j].entry
       PROVE  i = j
  <2>1. \A h \in DOMAIN documents : documents'[h].entry # n + 1
    BY <1>8, <1>9, <1>10
  <2>2. CASE i \in DOMAIN documents /\ j \in DOMAIN documents
    <3>1. documents[i].entry = documents[j].entry
      BY <1>8, <1>13, <2>2
    <3>2. QED
      BY <2>2, <3>1 DEF DocumentsInv, DocumentsHaveTheirEntry
  <2>3. CASE i = k + 1 \/ j = k + 1
    BY <1>8, <1>9, <1>13, <2>1, <2>3
  <2>4. QED
    BY <1>8, <2>2, <2>3
<1>14. QED
  BY <1>11, <1>12, <1>13 DEF DocumentsHaveTheirEntry

(* A count's entry needs no document.                                      *)
LEMMA CountStored ==
    ASSUME IInv, DocumentsInv, NEW w \in Workers, Commits(w), StoresCount(w)
    PROVE  DocumentsHaveTheirEntry'
<1>1. PICK t \in Transaction : t = txn[w]
  BY Opened DEF IInv, Commits
<1>2. /\ \A e \in DOMAIN entries : e \in DOMAIN entries' /\ entries'[e] = entries[e]
      /\ \A e \in DOMAIN entries' : e \in DOMAIN entries \/ entries'[e] = NewEntry(t)
  BY <1>1, EntriesCommitted DEF IInv, Commits
<1>3. NewEntry(t).type = "stock_count" /\ documents' = documents
  BY <1>1 DEF StoresCount, NewEntry
<1>4. \A i \in DOMAIN documents : documents[i].entry \in DOMAIN entries
  BY DEF IInv, EntriesExist
<1>5. \A i \in DOMAIN documents : entries'[documents[i].entry] = entries[documents[i].entry]
  BY <1>2, <1>4
<1>6. QED
  BY <1>2, <1>3, <1>5 DEF DocumentsInv, DocumentsHaveTheirEntry

(* The invariant with the documents.                                       *)
LEMMA DocumentsNext ==
    ASSUME SafeRetries, IInv, DocumentsInv, [Next]_vars
    PROVE  DocumentsInv'
<1>1. ASSUME UNCHANGED <<entries, documents>> PROVE DocumentsHaveTheirEntry'
  BY <1>1 DEF DocumentsInv, DocumentsHaveTheirEntry
<1>2. ASSUME UNCHANGED <<entries, txn>> PROVE KeysInv'
  BY <1>2 DEF DocumentsInv, KeysInv, Sent
<1>3. ASSUME NEW w \in Workers, StepOf(w) PROVE DocumentsInv'
  <2>1. KeysInv'
    BY <1>3, KeysStep DEF DocumentsInv
  <2>2. DocumentsHaveTheirEntry'
    BY <1>1, <1>3, QuietOrCommit, DocumentStored, CountStored DEF tables
  <2>3. QED
    BY <2>1, <2>2 DEF DocumentsInv
<1>4. ASSUME NEW sheet \in CountSheets, RecordCount(sheet) PROVE DocumentsInv'
  BY <1>1, <1>2, <1>4 DEF RecordCount, DocumentsInv
<1>5. CASE UNCHANGED vars
  BY <1>1, <1>2, <1>5 DEF vars, tables, DocumentsInv
<1>6. QED
  BY <1>3, <1>4, <1>5, NextSteps

(* At first there is no document.                                          *)
LEMMA DocumentsInit == Init => DocumentsInv
  BY DEF Init, DocumentsInv, KeysInv, DocumentsHaveTheirEntry

(* Documents and entries hold together in every state.                     *)
LEMMA DocumentsInvariance ==
    ASSUME SafeRetries
    PROVE  Spec => []DocumentsInv
<1>1. IInv /\ DocumentsInv /\ [Next]_vars => DocumentsInv'
  BY DocumentsNext
<1>2. QED
  BY <1>1, DocumentsInit, Invariance, PTL DEF Spec

(* Every receipt and every issue has an entry of its own, with its type,
   number and value, and every such entry has its document, whoever posts
   at the same time, as long as what is sent again is a receipt or an issue
   whose number a unique index protects.                                   *)
THEOREM Documents_have_their_entry ==
    ASSUME SafeRetries
    PROVE  Spec => []DocumentsHaveTheirEntry
<1>1. DocumentsInv => DocumentsHaveTheirEntry
  BY DEF DocumentsInv
<1>2. QED
  BY <1>1, DocumentsInvariance, PTL


-----------------------------------------------------------------------------
(* Quantities: movements explain the stock *)

(* What a line moves is counted, unless it is worth nothing.               *)
LEMMA MovesQuiet ==
    ASSUME KindInv, MovesInv, UNCHANGED tables, NEW w \in Workers, NEW m, Set(w, m),
           m # Idle /\ NothingVaried(m) => \A r \in Rows : m.moves[r] = 0
    PROVE  MovesInv'
<1>1. txn'[w] = m /\ \A v \in Workers : v # w => txn'[v] = txn[v]
  BY SetTxn
<1>2. MovementsExplainStock'
  BY DEF MovesInv, MovementsExplainStock, tables
<1>3. ASSUME NEW v \in Workers, NEW s, s = txn'[v], s # Idle, NothingVaried(s)
      PROVE  \A r \in Rows : s.moves[r] = 0
  BY <1>1, <1>3 DEF MovesInv
<1>4. QED
  BY <1>2, <1>3 DEF MovesInv, NothingVaried

(* A commit moves the stock by what its movements say.                     *)
LEMMA MovesCommit ==
    ASSUME IInv, MovesInv, NEW w \in Workers, Commits(w)
    PROVE  MovesInv'
<1>1. KindInv /\ CommitStock(txn[w]) /\ CommitMovements(txn[w]) /\ Set(w, Idle) /\ txn[w] # Idle
  BY DEF IInv, Commits
<1>2. PICK t \in Transaction : t = txn[w]
  BY <1>1, Opened
<1>3. RowsExplained(t)
  BY <1>1, <1>2 DEF IInv, Sound
<1>4. ASSUME NEW r \in Rows PROVE moved'[r] = stock'[r].quantity
  <2>1. moved[r] = stock[r].quantity /\ stock[r].quantity \in Int
    BY <1>1 DEF MovesInv, MovementsExplainStock, KindInv, State
  <2>2. t.moves[r] = stock'[r].quantity - stock[r].quantity
    <3>1. CASE r \in DOMAIN t.rows
      BY <1>1, <1>2, <1>3, <3>1, StockCommitted DEF RowsExplained
    <3>2. CASE r \notin DOMAIN t.rows
      BY <1>1, <1>2, <1>3, <2>1, <3>2, StockCommitted DEF RowsExplained
    <3>3. QED
      BY <3>1, <3>2
  <2>3. stock'[r].quantity \in Int
    BY <1>1, <1>2, StockCommitted DEF State
  <2>4. moved'[r] = moved[r] + t.moves[r]
    <3>1. NothingVaried(t) => t.moves[r] = 0
      BY <1>1, <1>2 DEF MovesInv
    <3>2. QED
      BY <1>1, <1>2, <2>1, <3>1, MovementsCommitted
  <2>5. QED
    BY <2>1, <2>2, <2>3, <2>4
<1>5. txn'[w] = Idle /\ \A v \in Workers : v # w => txn'[v] = txn[v]
  BY <1>1, SetTxn
<1>6. ASSUME NEW v \in Workers, NEW s, s = txn'[v], s # Idle, NothingVaried(s)
      PROVE  \A r \in Rows : s.moves[r] = 0
  BY <1>5, <1>6 DEF MovesInv
<1>7. QED
  BY <1>4, <1>6 DEF MovesInv, MovementsExplainStock, NothingVaried

(* One step of one transaction.                                            *)
LEMMA MovesStep ==
    ASSUME CountsHaveCosts, IInv, MovesInv, NEW w \in Workers, StepOf(w)
    PROVE  MovesInv'
<1>1. KindInv
  BY DEF IInv
<1>2. CASE Fail(w)
  BY <1>1, <1>2, MovesQuiet DEF Fail
<1>3. ASSUME NEW m, Fresh(m), Set(w, m), UNCHANGED tables PROVE MovesInv'
  BY <1>1, <1>3, MovesQuiet DEF Fresh
<1>4. ASSUME txn[w] # Idle, NEW m, Answers(w, m) PROVE MovesInv'
  BY <1>1, <1>4, MovesQuiet DEF Answers, Same, NothingVaried, MovesInv
<1>5. ASSUME txn[w] # Idle, NEW r \in Rows, NEW after \in State, NEW up \in Nat, NEW down \in Nat,
             NEW move \in Int, Writes(w, r, after, up, down, move)
      PROVE  MovesInv'
  <2>1. PICK t \in Transaction : t = txn[w]
    BY <1>1, <1>5, Opened
  <2>2. PICK m : m = Wrote(t, r, after, up, down, move)
    OBVIOUS
  <2>3. /\ m.type = t.type /\ m.up = t.up + up /\ m.down = t.down + down
        /\ m.moves[r] = t.moves[r] + move /\ \A q \in Rows : q # r => m.moves[q] = t.moves[q]
    BY <2>2, WroteFields
  <2>4. Set(w, m) /\ UNCHANGED tables
    BY <1>5, <2>1, <2>2 DEF Writes
  <2>5. t.up \in Nat /\ t.down \in Nat
    BY Fields
  <2>6. ASSUME NothingVaried(m) PROVE \A q \in Rows : m.moves[q] = 0
    <3>1. NothingVaried(t) /\ up = 0 /\ down = 0 /\ t.type = "stock_count"
      <4>1. m.type = "stock_count" /\ t.up + up = 0 /\ t.down + down = 0
        BY <2>3, <2>6 DEF NothingVaried
      <4>2. \A a, b \in Nat : a + b = 0 => a = 0 /\ b = 0
        OBVIOUS
      <4>3. t.up = 0 /\ up = 0 /\ t.down = 0 /\ down = 0
        BY <2>5, <4>1, <4>2
      <4>4. QED
        BY <2>3, <4>1, <4>3 DEF NothingVaried
    <3>2. move = 0
      BY <1>5, <2>1, <3>1 DEF Writes
    <3>3. \A q \in Rows : t.moves[q] = 0
      BY <1>5, <2>1, <3>1 DEF MovesInv
    <3>4. QED
      BY <2>3, <3>2, <3>3
  <2>7. QED
    BY <1>1, <2>4, <2>6, MovesQuiet
<1>6. CASE Commits(w)
  BY <1>6, MovesCommit
<1>7. QED
  BY <1>2, <1>3, <1>4, <1>5, <1>6, StepKinds

(* Every step.                                                             *)
LEMMA MovesNext ==
    ASSUME CountsHaveCosts, IInv, MovesInv, [Next]_vars
    PROVE  MovesInv'
<1>1. ASSUME UNCHANGED <<stock, moved, txn>> PROVE MovesInv'
  BY <1>1 DEF MovesInv, MovementsExplainStock, NothingVaried
<1>2. ASSUME NEW sheet \in CountSheets, RecordCount(sheet) PROVE MovesInv'
  BY <1>1, <1>2 DEF RecordCount
<1>3. CASE UNCHANGED vars
  BY <1>1, <1>3 DEF vars, tables
<1>4. QED
  BY <1>2, <1>3, MovesStep, NextSteps

(* At first nothing was moved.                                             *)
LEMMA MovesInit == Init => MovesInv
  BY DEF Init, MovesInv, MovementsExplainStock, Nothing

(* The stock movements of every row add up to its quantity on hand, as long
   as the smallest difference a count may find is worth an amount: no
   update of a stock row is lost between two documents, whatever is sent
   again.                                                                  *)
THEOREM Movements_explain_stock == Spec /\ []CountsHaveCosts => []MovementsExplainStock
<1>1. CountsHaveCosts /\ IInv /\ MovesInv /\ [Next]_vars => MovesInv'
  BY MovesNext
<1>2. MovesInv => MovementsExplainStock
  BY DEF MovesInv
<1>3. QED
  BY <1>1, <1>2, MovesInit, Invariance, PTL DEF Spec

-----------------------------------------------------------------------------
(* Values: nothing without goods *)

(* What a transaction writes leaves no value behind.                       *)
LEMMA EmptyQuiet ==
    ASSUME KindInv, EmptyInv, UNCHANGED tables, NEW w \in Workers, NEW m, Set(w, m),
           m # Idle => EmptyRows(m)
    PROVE  EmptyInv'
<1>1. txn'[w] = m /\ \A v \in Workers : v # w => txn'[v] = txn[v]
  BY SetTxn
<1>2. NoValueWithoutStock'
  BY DEF EmptyInv, NoValueWithoutStock, tables
<1>3. ASSUME NEW v \in Workers, NEW s, s = txn'[v], s # Idle PROVE EmptyRows(s)
  BY <1>1, <1>3 DEF EmptyInv
<1>4. QED
  BY <1>2, <1>3 DEF EmptyInv, EmptyRows

(* A commit writes only such rows.                                         *)
LEMMA EmptyCommit ==
    ASSUME IInv, EmptyInv, NEW w \in Workers, Commits(w)
    PROVE  EmptyInv'
<1>1. KindInv /\ CommitStock(txn[w]) /\ Set(w, Idle) /\ txn[w] # Idle
  BY DEF IInv, Commits
<1>2. PICK t \in Transaction : t = txn[w]
  BY <1>1, Opened
<1>3. EmptyRows(t)
  BY <1>1, <1>2 DEF EmptyInv
<1>4. ASSUME NEW r \in Rows, stock'[r].quantity = 0 PROVE stock'[r].value = 0
  <2>1. CASE r \in DOMAIN t.rows
    BY <1>1, <1>2, <1>3, <1>4, <2>1, StockCommitted DEF EmptyRows
  <2>2. CASE r \notin DOMAIN t.rows
    BY <1>1, <1>2, <1>4, <2>2, StockCommitted DEF EmptyInv, NoValueWithoutStock
  <2>3. QED
    BY <2>1, <2>2
<1>5. txn'[w] = Idle /\ \A v \in Workers : v # w => txn'[v] = txn[v]
  BY <1>1, SetTxn
<1>6. ASSUME NEW v \in Workers, NEW s, s = txn'[v], s # Idle PROVE EmptyRows(s)
  BY <1>5, <1>6 DEF EmptyInv
<1>7. QED
  BY <1>4, <1>6 DEF EmptyInv, NoValueWithoutStock, EmptyRows

(* One step of one transaction.                                            *)
LEMMA EmptyStep ==
    ASSUME CountsLeaveNothing, IInv, EmptyInv, NEW w \in Workers, StepOf(w)
    PROVE  EmptyInv'
<1>1. KindInv
  BY DEF IInv
<1>2. CASE Fail(w)
  BY <1>1, <1>2, EmptyQuiet DEF Fail
<1>3. ASSUME NEW m, Fresh(m), Set(w, m), UNCHANGED tables PROVE EmptyInv'
  BY <1>1, <1>3, EmptyQuiet DEF Fresh, EmptyRows
<1>4. ASSUME txn[w] # Idle, NEW m, Answers(w, m) PROVE EmptyInv'
  BY <1>1, <1>4, EmptyQuiet DEF Answers, Same, EmptyRows, EmptyInv
<1>5. ASSUME txn[w] # Idle, NEW r \in Rows, NEW after \in State, NEW up \in Nat, NEW down \in Nat,
             NEW move \in Int, Writes(w, r, after, up, down, move)
      PROVE  EmptyInv'
  <2>1. PICK t \in Transaction : t = txn[w]
    BY <1>1, <1>5, Opened
  <2>2. PICK m : m = Wrote(t, r, after, up, down, move)
    OBVIOUS
  <2>3. /\ DOMAIN m.rows = DOMAIN t.rows \cup {r} /\ m.rows[r] = after
        /\ \A q \in DOMAIN t.rows : q # r => m.rows[q] = t.rows[q]
    BY <2>2, WroteFields
  <2>4. Set(w, m) /\ UNCHANGED tables /\ (after.quantity = 0 => after.value = 0)
    BY <1>5, <2>1, <2>2 DEF Writes
  <2>5. EmptyRows(t)
    BY <1>5, <2>1 DEF EmptyInv
  <2>6. EmptyRows(m)
    BY <2>3, <2>4, <2>5 DEF EmptyRows
  <2>7. QED
    BY <1>1, <2>4, <2>6, EmptyQuiet
<1>6. CASE Commits(w)
  BY <1>6, EmptyCommit
<1>7. QED
  BY <1>2, <1>3, <1>4, <1>5, <1>6, StepKinds

(* Every step.                                                             *)
LEMMA EmptyNext ==
    ASSUME CountsLeaveNothing, IInv, EmptyInv, [Next]_vars
    PROVE  EmptyInv'
<1>1. ASSUME UNCHANGED <<stock, txn>> PROVE EmptyInv'
  BY <1>1 DEF EmptyInv, NoValueWithoutStock, EmptyRows
<1>2. ASSUME NEW sheet \in CountSheets, RecordCount(sheet) PROVE EmptyInv'
  BY <1>1, <1>2 DEF RecordCount
<1>3. CASE UNCHANGED vars
  BY <1>1, <1>3 DEF vars, tables
<1>4. QED
  BY <1>2, <1>3, EmptyStep, NextSteps

(* At first there is neither.                                              *)
LEMMA EmptyInit == Init => EmptyInv
  BY DEF Init, EmptyInv, NoValueWithoutStock, Nothing

(* The last unit takes the last value with it, across the lines of any
   number of documents, as long as a count that finds nothing takes off all
   that the row holds.                                                     *)
THEOREM No_value_without_stock == Spec /\ []CountsLeaveNothing => []NoValueWithoutStock
<1>1. CountsLeaveNothing /\ IInv /\ EmptyInv /\ [Next]_vars => EmptyInv'
  BY EmptyNext
<1>2. EmptyInv => NoValueWithoutStock
  BY DEF EmptyInv
<1>3. QED
  BY <1>1, <1>2, EmptyInit, Invariance, PTL DEF Spec


-----------------------------------------------------------------------------
(* Values: the subledger and the control account *)

(* What a transaction adds to each row is an integer.                      *)
LEMMA ChangeType ==
    ASSUME KindInv, NEW t \in Transaction
    PROVE  Change(t) \in [Rows -> Int] /\ SumFunction(Change(t)) \in Int
<1>1. \A r \in Rows : stock[r] \in State /\ (r \in DOMAIN t.rows => t.rows[r] \in State)
  BY Fields DEF KindInv
<1>2. \A r \in Rows : stock[r].value \in Int /\ (r \in DOMAIN t.rows => t.rows[r].value \in Int)
  BY <1>1 DEF State
<1>3. Change(t) \in [Rows -> Int]
  BY <1>2 DEF Change
<1>4. QED
  BY <1>3, SumInt, InventoryAssumption

(* A step that writes no table and keeps the transaction in balance.       *)
LEMMA ValueQuiet ==
    ASSUME KindInv, ValueInv, UNCHANGED tables, NEW w \in Workers, NEW m, Set(w, m),
           m # Idle => SumFunction(Change(m)) = m.up - m.down
    PROVE  ValueInv'
<1>1. txn'[w] = m /\ \A v \in Workers : v # w => txn'[v] = txn[v]
  BY SetTxn
<1>2. SubledgerMatchesControl'
  BY DEF ValueInv, SubledgerMatchesControl, tables
<1>3. ASSUME NEW v \in Workers, NEW s, s = txn'[v], s # Idle
      PROVE  SumFunction(Change(s))' = s.up - s.down
  <2>1. SumFunction(Change(s)) = s.up - s.down
    BY <1>1, <1>3 DEF ValueInv
  <2>2. Change(s)' = Change(s)
    BY DEF Change, tables
  <2>3. QED
    BY <2>1, <2>2
<1>4. QED
  BY <1>2, <1>3 DEF ValueInv

(* A line adds to one row what it adds to the transaction.                 *)
LEMMA ValueLine ==
    ASSUME CountsAreCovered, IInv, ValueInv, NEW w \in Workers, txn[w] # Idle,
           NEW r \in Rows, NEW after \in State, NEW up \in Nat, NEW down \in Nat, NEW move \in Int,
           Writes(w, r, after, up, down, move)
    PROVE  ValueInv'
<1>1. KindInv
  BY DEF IInv
<1>2. PICK t \in Transaction : t = txn[w]
  BY <1>1, Opened
<1>3. PICK m : m = Wrote(t, r, after, up, down, move)
  OBVIOUS
<1>4. /\ m \in Transaction /\ m.up = t.up + up /\ m.down = t.down + down
      /\ DOMAIN m.rows = DOMAIN t.rows \cup {r} /\ m.rows[r] = after
      /\ \A q \in DOMAIN t.rows : q # r => m.rows[q] = t.rows[q]
  BY <1>3, WroteFields
<1>5. Set(w, m) /\ UNCHANGED tables /\ after.value = RowSeenBy(w, r).value + up - down
  BY <1>2, <1>3 DEF Writes
<1>6. PICK f : f = Change(t)
  OBVIOUS
<1>7. PICK g : g = Change(m)
  OBVIOUS
<1>8. f \in [Rows -> Int] /\ g \in [Rows -> Int] /\ SumFunction(f) = t.up - t.down
  BY <1>1, <1>2, <1>4, <1>6, <1>7, ChangeType DEF ValueInv
<1>9. \A q \in Rows \ {r} : g[q] = f[q]
  BY <1>4, <1>6, <1>7 DEF Change
<1>10. g[r] = f[r] + up - down
  <2>1. stock[r].value \in Int /\ (r \in DOMAIN t.rows => t.rows[r].value \in Int)
    BY <1>1, Fields DEF KindInv, State
  <2>2. g[r] = after.value - stock[r].value
    BY <1>4, <1>7 DEF Change
  <2>3. CASE r \in DOMAIN t.rows
    <3>1. RowSeenBy(w, r).value = t.rows[r].value /\ f[r] = t.rows[r].value - stock[r].value
      BY <1>2, <1>6, <2>3 DEF RowSeenBy, Change
    <3>2. QED
      BY <1>5, <2>1, <2>2, <2>3, <3>1
  <2>4. CASE r \notin DOMAIN t.rows
    <3>1. RowSeenBy(w, r).value = stock[r].value /\ f[r] = 0
      BY <1>2, <1>6, <2>4 DEF RowSeenBy, Change
    <3>2. QED
      BY <1>5, <2>1, <2>2, <3>1
  <2>5. QED
    BY <2>3, <2>4
<1>11. SumFunction(g) = SumFunction(f) - f[r] + g[r]
  BY <1>8, <1>9, SumChange, InventoryAssumption
<1>12. SumFunction(g) = m.up - m.down
  <2>1. t.up \in Int /\ t.down \in Int /\ f[r] \in Int
    BY <1>8, Fields
  <2>2. QED
    BY <1>4, <1>8, <1>10, <1>11, <2>1
<1>13. QED
  BY <1>1, <1>5, <1>7, <1>12, ValueQuiet

(* The value of all stock.                                                 *)
Value == SumFunction([r \in Rows |-> stock[r].value])

(* A commit adds to the stock what the transaction added to its rows.      *)
LEMMA StockValue ==
    ASSUME KindInv, NEW t \in Transaction, CommitStock(t)
    PROVE  Value' = Value + SumFunction(Change(t)) /\ Value \in Int
<1>1. PICK f : f = [r \in Rows |-> stock[r].value]
  OBVIOUS
<1>2. PICK g : g = Change(t)
  OBVIOUS
<1>3. PICK h : h = [r \in Rows |-> stock'[r].value]
  OBVIOUS
<1>4. f \in [Rows -> Int] /\ g \in [Rows -> Int] /\ h \in [Rows -> Int]
  <2>1. \A r \in Rows : stock[r].value \in Int /\ stock'[r].value \in Int
    BY StockCommitted DEF KindInv, State
  <2>2. QED
    BY <1>1, <1>2, <1>3, <2>1, ChangeType
<1>5. ASSUME NEW r \in Rows PROVE h[r] = f[r] + g[r]
  <2>1. f[r] = stock[r].value /\ h[r] = stock'[r].value /\ f[r] \in Int /\ h[r] \in Int
    BY <1>1, <1>3, <1>4
  <2>2. CASE r \in DOMAIN t.rows
    <3>1. g[r] = h[r] - f[r]
      BY <1>2, <2>1, <2>2, StockCommitted DEF Change
    <3>2. QED
      BY <2>1, <3>1
  <2>3. CASE r \notin DOMAIN t.rows
    <3>1. g[r] = 0 /\ h[r] = f[r]
      BY <1>2, <2>1, <2>3, StockCommitted DEF Change
    <3>2. QED
      BY <2>1, <3>1
  <2>4. QED
    BY <2>2, <2>3
<1>6. SumFunction(h) = SumFunction(f) + SumFunction(g)
  <2>1. IsFiniteSet(Rows)
    BY InventoryAssumption
  <2>2. \A r \in Rows : h[r] = f[r] + g[r]
    BY <1>5
  <2>3. QED
    BY <1>4, <2>1, <2>2, SumPlus
<1>7. SumFunction(f) \in Int
  BY <1>4, SumInt, InventoryAssumption
<1>8. QED
  BY <1>1, <1>2, <1>3, <1>6, <1>7 DEF Value

(* The balance of the Inventory account.                                   *)
Control == SumFunction([i \in DOMAIN entries |-> entries[i].inventory])

(* A commit adds to it what the new entry says.                            *)
LEMMA ControlValue ==
    ASSUME KindInv, NEW t \in Transaction, CommitEntry(t)
    PROVE  /\ Control \in Int
           /\ Control' = Control + (IF t.number = 0 THEN 0 ELSE t.up - t.down)
<1>1. PICK n \in Nat : n = Len(entries)
  BY DEF KindInv
<1>2. PICK f : f = [i \in DOMAIN entries |-> entries[i].inventory]
  OBVIOUS
<1>3. PICK g : g = [i \in DOMAIN entries' |-> entries'[i].inventory]
  OBVIOUS
<1>4. f \in [1 .. n -> Int] /\ DOMAIN entries = 1 .. n
  <2>1. DOMAIN entries = 1 .. n /\ \A i \in 1 .. n : entries[i] \in Entry
    BY <1>1 DEF KindInv
  <2>2. \A i \in 1 .. n : entries[i].inventory \in Int
    BY <2>1 DEF Entry
  <2>3. QED
    BY <1>2, <2>1, <2>2
<1>5. SumFunction(f) \in Int
  BY <1>4, SumInt, FS_Interval
<1>6. CASE t.number = 0
  <2>1. entries' = entries
    BY <1>6, EntriesCommitted
  <2>2. QED
    BY <1>2, <1>5, <1>6, <2>1 DEF Control
<1>7. CASE t.number # 0
  <2>1. /\ DOMAIN entries' = 1 .. n + 1 /\ entries'[n + 1] = NewEntry(t)
        /\ \A e \in 1 .. n : entries'[e] = entries[e]
    BY <1>1, <1>4, <1>7, EntriesCommitted
  <2>2. /\ \A k \in 1 .. n : g[k] = f[k]
        /\ g[n + 1] = t.up - t.down
    BY <1>1, <1>2, <1>3, <1>4, <2>1 DEF NewEntry
  <2>3. g \in [1 .. n + 1 -> Int]
    <3>1. t.up - t.down \in Int
      BY Fields
    <3>2. \A k \in 1 .. n + 1 : g[k] \in Int
      BY <1>1, <1>4, <2>2, <3>1
    <3>3. QED
      BY <1>3, <2>1, <3>2
  <2>4. SumFunction(g) = SumFunction(f) + g[n + 1]
    BY <1>1, <1>4, <2>2, <2>3, SumAppended
  <2>5. QED
    BY <1>2, <1>3, <1>5, <1>7, <2>2, <2>4 DEF Control
<1>8. QED
  BY <1>6, <1>7

(* A commit keeps both together.                                           *)
LEMMA ValueCommit ==
    ASSUME SafeRetries, IInv, DocumentsInv, ValueInv, NEW w \in Workers,
           Commits(w), StoresDocument(w) \/ StoresCount(w)
    PROVE  ValueInv'
<1>1. /\ KindInv /\ CommitStock(txn[w]) /\ CommitEntry(txn[w]) /\ Set(w, Idle) /\ txn[w] # Idle
  BY DEF IInv, Commits
<1>2. PICK t \in Transaction : t = txn[w]
  BY <1>1, Opened
<1>3. t.up \in Nat /\ t.down \in Nat /\ (t.number # 0 \/ (t.up = 0 /\ t.down = 0))
  BY <1>2, CommitPosts, Fields
<1>4. SumFunction(Change(t)) = t.up - t.down /\ Value = Control
  BY <1>1, <1>2 DEF ValueInv, SubledgerMatchesControl, Value, Control
<1>5. Value' = Value + (t.up - t.down) /\ Control' = Control + (t.up - t.down)
  BY <1>1, <1>2, <1>3, <1>4, StockValue, ControlValue
<1>6. SubledgerMatchesControl'
  BY <1>4, <1>5 DEF SubledgerMatchesControl, Value, Control
<1>7. txn'[w] = Idle /\ \A v \in Workers : v # w => txn'[v] = txn[v]
  BY <1>1, SetTxn
<1>8. ASSUME NEW v \in Workers, NEW s, s = txn'[v], s # Idle
      PROVE  SumFunction(Change(s))' = s.up - s.down
  <2>1. v # w /\ s = txn[v]
    BY <1>7, <1>8
  <2>2. DOMAIN s.rows \cap DOMAIN t.rows = {}
    BY <1>1, <1>2, <1>8, <2>1 DEF IInv, RowsApart
  <2>3. \A r \in DOMAIN s.rows : r \in Rows => stock'[r] = stock[r]
    BY <1>1, <1>2, <2>2, StockCommitted
  <2>4. Change(s)' = Change(s)
    BY <2>3 DEF Change
  <2>5. QED
    BY <1>8, <2>1, <2>4 DEF ValueInv
<1>9. QED
  BY <1>6, <1>8 DEF ValueInv

(* One step of one transaction.                                            *)
LEMMA ValueStep ==
    ASSUME SafeRetries, CountsAreCovered, IInv, DocumentsInv, ValueInv, NEW w \in Workers, StepOf(w)
    PROVE  ValueInv'
<1>1. KindInv
  BY DEF IInv
<1>2. CASE Fail(w)
  BY <1>1, <1>2, ValueQuiet DEF Fail
<1>3. ASSUME NEW m, Fresh(m), Set(w, m), UNCHANGED tables PROVE ValueInv'
  <2>1. \A r \in Rows : Change(m)[r] = 0
    BY <1>3 DEF Fresh, Change
  <2>2. SumFunction(Change(m)) = 0
    BY <1>1, <1>3, <2>1, ChangeType, SumZero, InventoryAssumption DEF Fresh
  <2>3. QED
    BY <1>1, <1>3, <2>2, ValueQuiet DEF Fresh
<1>4. ASSUME txn[w] # Idle, NEW m, Answers(w, m) PROVE ValueInv'
  <2>1. Change(m) = Change(txn[w])
    BY <1>4 DEF Answers, Same, Change
  <2>2. QED
    BY <1>1, <1>4, <2>1, ValueQuiet DEF Answers, Same, ValueInv
<1>5. ASSUME txn[w] # Idle, NEW r \in Rows, NEW after \in State, NEW up \in Nat, NEW down \in Nat,
             NEW move \in Int, Writes(w, r, after, up, down, move)
      PROVE  ValueInv'
  BY <1>5, ValueLine
<1>6. CASE Commits(w) /\ (StoresDocument(w) \/ StoresCount(w))
  BY <1>6, ValueCommit
<1>7. QED
  BY <1>2, <1>3, <1>4, <1>5, <1>6, StepKinds

(* Every step.                                                             *)
LEMMA ValueNext ==
    ASSUME SafeRetries, CountsAreCovered, IInv, DocumentsInv, ValueInv, [Next]_vars
    PROVE  ValueInv'
<1>1. ASSUME UNCHANGED <<stock, entries, txn>> PROVE ValueInv'
  <2>1. SubledgerMatchesControl'
    BY <1>1 DEF ValueInv, SubledgerMatchesControl
  <2>2. ASSUME NEW v \in Workers, NEW s, s = txn[v], s # Idle
        PROVE  SumFunction(Change(s))' = s.up - s.down
    <3>1. Change(s)' = Change(s)
      BY <1>1 DEF Change
    <3>2. QED
      BY <2>2, <3>1 DEF ValueInv
  <2>3. QED
    BY <1>1, <2>1, <2>2 DEF ValueInv
<1>2. ASSUME NEW sheet \in CountSheets, RecordCount(sheet) PROVE ValueInv'
  BY <1>1, <1>2 DEF RecordCount
<1>3. CASE UNCHANGED vars
  BY <1>1, <1>3 DEF vars, tables
<1>4. QED
  BY <1>2, <1>3, ValueStep, NextSteps

(* At first both are nothing.                                              *)
LEMMA ValueInit == Init => ValueInv
<1> SUFFICES ASSUME Init PROVE ValueInv
  OBVIOUS
<1>1. \A r \in Rows : stock[r].value = 0
  BY DEF Init, Nothing
<1>2. PICK f : f = [r \in Rows |-> stock[r].value]
  OBVIOUS
<1>3. SumFunction(f) = 0
  <2>1. f \in [Rows -> Int] /\ \A r \in Rows : f[r] = 0
    BY <1>1, <1>2
  <2>2. QED
    BY <2>1, SumZero, InventoryAssumption
<1>4. PICK g : g = [i \in DOMAIN entries |-> entries[i].inventory]
  OBVIOUS
<1>5. DOMAIN g = {}
  BY <1>4 DEF Init
<1>6. SumFunction(g) = 0
  BY <1>5, SumEmpty
<1>7. SubledgerMatchesControl
  BY <1>2, <1>3, <1>4, <1>6 DEF SubledgerMatchesControl
<1>8. \A w \in Workers : txn[w] = Idle
  BY DEF Init
<1>9. QED
  BY <1>7, <1>8 DEF ValueInv

(* The value of all stock equals the balance of the Inventory control
   account, whatever receives, issues and counts at the same time, as long
   as what is sent again is a receipt or an issue, and no count takes more
   value off a row than the row holds.                                     *)
THEOREM Subledger_matches_control ==
    ASSUME SafeRetries
    PROVE  Spec /\ []CountsAreCovered => []SubledgerMatchesControl
<1>1. CountsAreCovered /\ IInv /\ DocumentsInv /\ ValueInv /\ [Next]_vars => ValueInv'
  BY ValueNext
<1>2. ValueInv => SubledgerMatchesControl
  BY DEF ValueInv
<1>3. QED
  BY <1>1, <1>2, ValueInit, Invariance, DocumentsInvariance, PTL DEF Spec

=============================================================================
