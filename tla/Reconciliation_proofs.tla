------------------------- MODULE Reconciliation_proofs -------------------------
(***************************************************************************)
(* The position arithmetic and, from it, the agreement of the position      *)
(* books and the cause of every halt, for any accounts, symbols, simulated   *)
(* brokers, orders and number of executions, rows replaced and               *)
(* reconciliations under way.                                               *)
(***************************************************************************)
EXTENDS Reconciliation, TLAPS

(* The order service's fill keeps a position well formed and moves the net   *)
(* quantity by exactly the signed fill, also when it flattens or flips       *)
(* (_update_position_from_fill).                                             *)
THEOREM ApplyFillIsNet ==
  ASSUME NEW p, WellFormed(p), NEW side \in Sides, NEW qty \in Nat \ {0}
  PROVE  /\ WellFormed(ApplyFill(p, side, qty))
         /\ Signed(ApplyFill(p, side, qty)) = Signed(p) + Sign(side) * qty
<1> DEFINE q == ApplyFill(p, side, qty)
<1>1. /\ p.side \in PositionSides /\ p.qty \in Nat
      /\ p.qty = 0 <=> p.side \in {"NONE", "FLAT"}
  BY DEF WellFormed, Position
<1>2. \/ side = "BUY" /\ Direction(side) = "LONG" /\ Sign(side) = 1
      \/ side = "SELL" /\ Direction(side) = "SHORT" /\ Sign(side) = -1
  BY DEF Sides, Direction, Sign
<1>3. CASE p.side = "NONE"
  <2>1. q = [side |-> Direction(side), qty |-> qty]
    BY <1>2, <1>3 DEF ApplyFill, Holding
  <2> QED
    BY <1>1, <1>2, <1>3, <2>1 DEF WellFormed, Position, PositionSides, Signed
<1>4. CASE p.side = Direction(side)
  <2>1. q = [side |-> p.side, qty |-> p.qty + qty]
    BY <1>2, <1>4 DEF ApplyFill, Holding
  <2> QED
    BY <1>1, <1>2, <1>4, <2>1 DEF WellFormed, Position, PositionSides, Signed
<1>5. CASE p.side \notin {"NONE", Direction(side)}
  <2>1. q = IF p.qty > qty THEN [side |-> p.side, qty |-> p.qty - qty]
            ELSE IF p.qty = qty THEN [side |-> "FLAT", qty |-> 0]
            ELSE [side |-> Direction(side), qty |-> qty - p.qty]
    BY <1>1, <1>5 DEF ApplyFill, Holding
  <2>2. CASE p.qty > qty
    BY <1>1, <1>2, <1>5, <2>1, <2>2 DEF WellFormed, Position, PositionSides, Signed
  <2>3. CASE p.qty = qty
    BY <1>1, <1>2, <1>5, <2>1, <2>3 DEF WellFormed, Position, PositionSides, Signed
  <2>4. CASE p.qty < qty
    BY <1>1, <1>2, <1>5, <2>1, <2>4 DEF WellFormed, Position, PositionSides, Signed
  <2> QED
    BY <1>1, <2>2, <2>3, <2>4
<1> QED
  BY <1>3, <1>4, <1>5

(* The paper broker, with code of its own, computes the same position from   *)
(* the same fill, so the two books can differ only in which fills they see.  *)
THEOREM BooksApplyFillsAlike ==
  ASSUME NEW p, WellFormed(p), NEW side \in Sides, NEW qty \in Nat \ {0}
  PROVE  PaperFill(p, side, qty) = ApplyFill(p, side, qty)
<1>1. p.qty \in Nat
  BY DEF WellFormed, Position
<1>2. CASE p.side \in {"NONE", Direction(side)}
  BY <1>2 DEF PaperFill, ApplyFill
<1>3. CASE p.side \notin {"NONE", Direction(side)}
  BY <1>1, <1>3 DEF PaperFill, ApplyFill, Holding
<1> QED
  BY <1>2, <1>3

(* After a fill there is a position, if only a flat one.                    *)
LEMMA FillLeavesARow ==
  ASSUME NEW p, WellFormed(p), NEW side \in Sides, NEW qty \in Nat \ {0}
  PROVE  ApplyFill(p, side, qty).side # "NONE"
<1>1. /\ p.side \in PositionSides /\ p.qty \in Nat
      /\ p.qty = 0 <=> p.side \in {"NONE", "FLAT"}
  BY DEF WellFormed, Position
<1>2. Direction(side) # "NONE"
  BY DEF Sides, Direction
<1>3. CASE p.side = "NONE"
  BY <1>2, <1>3 DEF ApplyFill, Holding
<1>4. CASE p.side = Direction(side)
  BY <1>2, <1>4 DEF ApplyFill, Holding
<1>5. CASE p.side \notin {"NONE", Direction(side)}
  BY <1>1, <1>2, <1>5 DEF ApplyFill, Holding
<1> QED
  BY <1>3, <1>4, <1>5

(* A well-formed position is as large as its net quantity.                  *)
LEMMA SizeOfNet ==
  ASSUME NEW p, NEW o, WellFormed(p), WellFormed(o), Signed(p) = Signed(o)
  PROVE  p.qty = o.qty
<1>1. /\ p.side \in PositionSides /\ p.qty \in Nat
      /\ p.qty = 0 <=> p.side \in {"NONE", "FLAT"}
      /\ o.side \in PositionSides /\ o.qty \in Nat
      /\ o.qty = 0 <=> o.side \in {"NONE", "FLAT"}
  BY DEF WellFormed, Position
<1> QED
  BY <1>1 DEF Signed, PositionSides

(* No position is a well-formed one with no net quantity.                   *)
LEMMA NothingIsWellFormed == WellFormed(NoPosition) /\ Signed(NoPosition) = 0
  BY DEF WellFormed, NoPosition, Position, PositionSides, Signed
-----------------------------------------------------------------------------
(* The inductive invariant of the books.                                    *)

BookTypes ==
  /\ row \in PerSymbol(Position)
  /\ object \in PerSymbol({"own"} \cup Filling)
  /\ paper \in [Symbols -> [owner : Accounts \cup {NoAccount}, pos : Position]]
  /\ simulated \in [Simulated -> PerSymbol(Position)]
  /\ live \in [Symbols -> Int]
  /\ executed \in Nat
  /\ fills \in PerSymbol([Filling -> Nat])
  /\ ordered \in PerSymbol(Int)
  /\ unbooked \subseteq Slots
  /\ synced \subseteq Slots /\ copied \subseteq synced
  /\ moved \subseteq Symbols

BooksWellFormed ==
  /\ \A c \in Accounts, r \in Symbols :
       WellFormed(row[c][r]) /\ \A k \in Simulated : WellFormed(simulated[k][c][r])
  /\ \A r \in Symbols : WellFormed(paper[r].pos)

(* The owner of a paper position is an account that traded it.              *)
Ownership ==
  \A r \in Symbols :
    /\ paper[r].pos.side = "NONE" <=> paper[r].owner = NoAccount
    /\ \A c \in Accounts :
         /\ paper[r].owner = c => fills[c][r]["paper"] > 0
         /\ paper[r].owner = NoAccount => fills[c][r]["paper"] = 0

(* A row is a broker's object only after a sync of a position the account    *)
(* has at that broker.                                                      *)
Sharing ==
  \A c \in Accounts, r \in Symbols :
    /\ object[c][r] = "paper" => <<c, r>> \in synced /\ paper[r].owner = c
    /\ \A k \in Simulated :
         object[c][r] = k => <<c, r>> \in synced /\ fills[c][r][k] > 0

(* Nothing comes from nothing.                                              *)
Untouched ==
  /\ \A c \in Accounts, r \in Symbols :
       /\ \A k \in Simulated : fills[c][r][k] = 0 => simulated[k][c][r] = NoPosition
       /\ (\A k \in Filling : fills[c][r][k] = 0) /\ <<c, r>> \notin copied
            => Signed(row[c][r]) = 0
  /\ \A r \in Symbols \ moved : live[r] = 0

(* A row of its own keeps pace with the broker's position.                  *)
OwnRowsKeepPace ==
  \A c \in Accounts, r \in Symbols : object[c][r] = "own" =>
    /\ Paired(c, r, "paper") /\ paper[r].owner = c =>
         Signed(row[c][r]) = Signed(paper[r].pos)
    /\ \A k \in Simulated :
         Paired(c, r, k) => Signed(row[c][r]) = Signed(simulated[k][c][r])

UnsyncedRows ==
  \A c \in Accounts, r \in Symbols :
    <<c, r>> \notin synced => Signed(row[c][r]) = ordered[c][r]

BookInv ==
  /\ BookTypes /\ BooksWellFormed /\ Ownership /\ Sharing
  /\ Untouched /\ OwnRowsKeepPace /\ UnsyncedRows

\* The four ways to keep a book are told apart.
LEMMA NamesApart ==
  /\ "paper" \in Filling /\ Simulated \subseteq Filling /\ Filling \subseteq Books
  /\ "paper" \notin Simulated /\ "own" \notin Filling
  /\ "live" \in Books \ Filling /\ "nobody" \in Books \ Filling
BY ReconciliationAssumption DEF ReconciliationAssumption, Filling, Books

(* Books that stay as they are keep their invariant.                        *)
LEMMA BooksStill ==
  ASSUME BookInv, UNCHANGED <<books, live, history>>
  PROVE  BookInv'
<1>1. /\ row' = row /\ object' = object /\ paper' = paper /\ simulated' = simulated
      /\ live' = live /\ executed' = executed /\ fills' = fills /\ ordered' = ordered
      /\ unbooked' = unbooked /\ synced' = synced /\ copied' = copied /\ moved' = moved
  BY DEF books, history
<1> QED
  BY <1>1 DEF BookInv, BookTypes, BooksWellFormed, Ownership, Sharing, Untouched,
              OwnRowsKeepPace, UnsyncedRows, Paired, Alone, PerSymbol

(* The books are empty at first, and in agreement.                          *)
LEMMA BooksInitially ==
  ASSUME Init
  PROVE  BookInv
<1>1. \A c \in Accounts, r \in Symbols :
        /\ row[c][r] = NoPosition /\ object[c][r] = "own" /\ ordered[c][r] = 0
        /\ \A k \in Simulated : simulated[k][c][r] = NoPosition
        /\ \A k \in Filling : fills[c][r][k] = 0
  BY DEF Init, NothingHeld
<1>2. \A r \in Symbols : paper[r].owner = NoAccount /\ paper[r].pos = NoPosition /\ live[r] = 0
  BY DEF Init
<1>3. BookTypes
  BY DEF Init, BookTypes, PerSymbol, NothingHeld, NoPosition, Position, PositionSides
<1>4. BooksWellFormed
  BY <1>1, <1>2, NothingIsWellFormed DEF BooksWellFormed
<1>5. Ownership
  BY <1>1, <1>2, NamesApart, ReconciliationAssumption
     DEF Ownership, NoPosition, ReconciliationAssumption
<1>6. Sharing
  BY <1>1, NamesApart DEF Sharing
<1>7. Untouched
  BY <1>1, <1>2, NothingIsWellFormed DEF Untouched
<1>8. OwnRowsKeepPace
  BY <1>1, <1>2, NothingIsWellFormed DEF OwnRowsKeepPace
<1>9. UnsyncedRows
  BY <1>1, NothingIsWellFormed DEF UnsyncedRows
<1> QED
  BY <1>3, <1>4, <1>5, <1>6, <1>7, <1>8, <1>9 DEF BookInv

(* Trading that the books can follow could be followed before: what an       *)
(* account did is never undone.                                             *)
LEMMA PairedBefore ==
  ASSUME BookTypes, NEW a \in Accounts, NEW s \in Symbols, NEW b,
         \A c \in Accounts, k \in Filling : fills[c][s][k] <= fills'[c][s][k],
         BookTypes', unbooked \subseteq unbooked', copied \subseteq copied',
         moved \subseteq moved', Paired(a, s, b)'
  PROVE  Paired(a, s, b)
<1>1. \A c \in Accounts, k \in Filling :
        /\ fills[c][s][k] \in Nat /\ fills'[c][s][k] \in Nat
        /\ fills[c][s][k] <= fills'[c][s][k]
  BY DEF BookTypes, PerSymbol
<1>2. Alone(a, s)' => Alone(a, s)
  BY <1>1, NamesApart DEF Alone
<1>3. \A k \in Filling \ {b} : fills[a][s][k] = 0
  BY <1>1 DEF Paired
<1>4. b \in Simulated => fills[a][s][b] <= 1
  BY <1>1, NamesApart DEF Paired
<1> QED
  BY <1>2, <1>3, <1>4 DEF Paired
-----------------------------------------------------------------------------
(* Executions: orders, answered or stuck, and the audit's trial orders.      *)

\* The order service books a fill, or its call is stuck, or there was none.
Outcomes == {"booked", "unbooked"}

\* The position of a slot that refers to one object, once that is settled.
After(o, did, p) == IF did = "booked" THEN ApplyFill(p, o.side, o.qty) ELSE p

(* Booked or not, it is well formed, and its net follows the booked fill.    *)
LEMMA AfterIsSound ==
  ASSUME NEW o \in Order, NEW did \in Outcomes, NEW p, WellFormed(p)
  PROVE  /\ WellFormed(After(o, did, p)) /\ After(o, did, p) \in Position
         /\ p.side # "NONE" => After(o, did, p).side # "NONE"
         /\ Signed(After(o, did, p)) =
              IF did = "booked" THEN Signed(p) + Sign(o.side) * o.qty ELSE Signed(p)
<1>1. o.side \in Sides /\ o.qty \in Nat \ {0}
  BY DEF Order
<1>2. CASE did = "booked"
  BY <1>1, <1>2, ApplyFillIsNet, FillLeavesARow DEF After, WellFormed
<1>3. CASE did # "booked"
  BY <1>3 DEF After, WellFormed
<1> QED
  BY <1>2, <1>3

(* What an execution does to the history.                                   *)
LEMMA ExecuteCounts ==
  ASSUME BookTypes, NEW o \in Order, Execute(o)
  PROVE  /\ \A c \in Accounts, r \in Symbols, k \in Filling :
              /\ fills[c][r][k] \in Nat
              /\ fills'[c][r][k] = IF c = o.acct /\ r = o.sym /\ k = o.broker
                                   THEN fills[c][r][k] + 1 ELSE fills[c][r][k]
         /\ fills' \in PerSymbol([Filling -> Nat]) /\ executed' \in Nat
         /\ UNCHANGED <<live, halted, query, synced, copied, moved>>
<1>1. fills \in [Accounts -> [Symbols -> [Filling -> Nat]]] /\ executed \in Nat
  BY DEF BookTypes, PerSymbol
<1>2. o.acct \in Accounts /\ o.sym \in Symbols /\ o.broker \in Filling
  BY DEF Order
<1>3. fills' = [fills EXCEPT ![o.acct][o.sym][o.broker] = @ + 1] /\ executed' = executed + 1
  BY DEF Execute
<1>4. \A c \in Accounts, r \in Symbols, k \in Filling :
        /\ fills[c][r][k] \in Nat
        /\ fills'[c][r][k] = IF c = o.acct /\ r = o.sym /\ k = o.broker
                             THEN fills[c][r][k] + 1 ELSE fills[c][r][k]
  BY <1>1, <1>2, <1>3
<1>5. fills' \in [Accounts -> [Symbols -> [Filling -> Nat]]]
  BY <1>1, <1>2, <1>3, <1>4
<1> QED
  BY <1>1, <1>3, <1>4, <1>5 DEF PerSymbol, Execute

\* What an execution may leave: the object a row is, its position, the books.
BooksLeft(ref, own, pap, sim) ==
  /\ ref \in {"own"} \cup Filling /\ WellFormed(own)
  /\ pap \in [Symbols -> [owner : Accounts \cup {NoAccount}, pos : Position]]
  /\ \A r \in Symbols : WellFormed(pap[r].pos)
  /\ sim \in [Simulated -> PerSymbol(Position)]
  /\ \A k \in Simulated, c \in Accounts, r \in Symbols : WellFormed(sim[k][c][r])

\* The books after an execution that left sim and pap at the brokers: the object
\* ref of the slot was changed once more if the order service booked the fill.
Followed(o, did, ref, own, pap, sim) ==
  /\ \A c \in Accounts, r \in Symbols :
       LET here == c = o.acct /\ r = o.sym
       IN /\ object'[c][r] = IF here THEN ref ELSE object[c][r]
          /\ row'[c][r] = IF here /\ ref = "own" THEN After(o, did, own) ELSE row[c][r]
          /\ \A k \in Simulated :
               simulated'[k][c][r] = IF here /\ ref = k THEN After(o, did, sim[k][c][r])
                                     ELSE sim[k][c][r]
          /\ ordered'[c][r] = IF here /\ did = "booked" THEN ordered[c][r] + Sign(o.side) * o.qty
                              ELSE ordered[c][r]
          /\ <<c, r>> \in unbooked' <=> <<c, r>> \in unbooked \/ (here /\ did # "booked")
  /\ \A r \in Symbols :
       /\ paper'[r].owner = pap[r].owner
       /\ paper'[r].pos = IF r = o.sym /\ ref = "paper" THEN After(o, did, pap[r].pos)
                          ELSE pap[r].pos
  /\ unbooked \subseteq unbooked' /\ unbooked' \subseteq Slots
  /\ object' \in PerSymbol({"own"} \cup Filling) /\ row' \in PerSymbol(Position)
  /\ paper' \in [Symbols -> [owner : Accounts \cup {NoAccount}, pos : Position]]
  /\ simulated' \in [Simulated -> PerSymbol(Position)]
  /\ ordered' \in PerSymbol(Int)

(* What the order service, or its silence, makes of the brokers' new books.  *)
LEMMA RowFollows ==
  ASSUME BookTypes, NEW o \in Order,
         NEW ref, NEW own, NEW pap, NEW sim, BooksLeft(ref, own, pap, sim),
         BookFill(o, ref, own, pap, sim) \/ LeaveUnbooked(o, ref, own, pap, sim)
  PROVE  \E did \in Outcomes : Followed(o, did, ref, own, pap, sim)
<1> DEFINE a == o.acct
           s == o.sym
           delta == Sign(o.side) * o.qty
<1>1. a \in Accounts /\ s \in Symbols /\ delta \in Int
  BY DEF Order, Sign
<1>0. /\ ref \in {"own"} \cup Filling /\ WellFormed(own)
      /\ pap \in [Symbols -> [owner : Accounts \cup {NoAccount}, pos : Position]]
      /\ \A r \in Symbols : WellFormed(pap[r].pos)
      /\ sim \in [Simulated -> [Accounts -> [Symbols -> Position]]]
      /\ \A k \in Simulated, c \in Accounts, r \in Symbols : WellFormed(sim[k][c][r])
  BY DEF BooksLeft, PerSymbol
<1>2. /\ row \in [Accounts -> [Symbols -> Position]]
      /\ object \in [Accounts -> [Symbols -> {"own"} \cup Filling]]
      /\ ordered \in [Accounts -> [Symbols -> Int]]
      /\ unbooked \subseteq Slots
  BY DEF BookTypes, PerSymbol
<1>3. /\ "paper" \notin Simulated /\ "own" \notin Simulated
  BY NamesApart
<1>4. CASE BookFill(o, ref, own, pap, sim)
  <2> DEFINE f(p) == After(o, "booked", p)
  <2>1. /\ f(own) \in Position
        /\ f(pap[s].pos) \in Position
        /\ \A k \in Simulated : f(sim[k][a][s]) \in Position
    BY <1>0, <1>1, AfterIsSound DEF Outcomes
  <2>2. /\ object' = [object EXCEPT ![a][s] = ref]
        /\ row' = IF ref = "own" THEN [row EXCEPT ![a][s] = f(own)] ELSE row
        /\ paper' = IF ref = "paper" THEN [pap EXCEPT ![s].pos = f(pap[s].pos)] ELSE pap
        /\ simulated' = IF ref \in Simulated
                        THEN [sim EXCEPT ![ref][a][s] = f(sim[ref][a][s])] ELSE sim
        /\ ordered' = [ordered EXCEPT ![a][s] = @ + delta]
        /\ unbooked' = unbooked
    BY <1>0, <1>1, <1>2, <1>4 DEF BookFill, After
  <2> HIDE DEF f, a, s, delta
  <2>3. \A c \in Accounts, r \in Symbols :
          /\ object'[c][r] = IF c = a /\ r = s THEN ref ELSE object[c][r]
          /\ row'[c][r] = IF c = a /\ r = s /\ ref = "own" THEN f(own) ELSE row[c][r]
          /\ ordered'[c][r] = IF c = a /\ r = s THEN ordered[c][r] + delta ELSE ordered[c][r]
    BY <1>0, <1>1, <1>2, <2>2
  <2>4. \A c \in Accounts, r \in Symbols, k \in Simulated :
          simulated'[k][c][r] = IF c = a /\ r = s /\ ref = k THEN f(sim[k][c][r])
                                ELSE sim[k][c][r]
    BY <1>0, <1>1, <1>2, <2>2
  <2>5. \A r \in Symbols :
          /\ paper'[r].owner = pap[r].owner
          /\ paper'[r].pos = IF r = s /\ ref = "paper" THEN f(pap[r].pos) ELSE pap[r].pos
    BY <1>0, <1>1, <2>2
  <2>6. /\ object' \in [Accounts -> [Symbols -> {"own"} \cup Filling]]
        /\ row' \in [Accounts -> [Symbols -> Position]]
        /\ ordered' \in [Accounts -> [Symbols -> Int]]
    BY <1>0, <1>1, <1>2, <2>1, <2>2
  <2>7. simulated' \in [Simulated -> [Accounts -> [Symbols -> Position]]]
    BY <1>0, <1>1, <1>2, <2>1, <2>2
  <2>8. paper' \in [Symbols -> [owner : Accounts \cup {NoAccount}, pos : Position]]
    BY <1>0, <1>1, <2>1, <2>2
  <2>9. /\ \A c \in Accounts, r \in Symbols : <<c, r>> \in unbooked' <=> <<c, r>> \in unbooked
        /\ unbooked \subseteq unbooked' /\ unbooked' \subseteq Slots
    BY <1>2, <2>2
  <2>10. \A c \in Accounts, r \in Symbols :
           /\ object'[c][r] = IF c = o.acct /\ r = o.sym THEN ref ELSE object[c][r]
           /\ row'[c][r] = IF c = o.acct /\ r = o.sym /\ ref = "own" THEN After(o, "booked", own)
                           ELSE row[c][r]
           /\ ordered'[c][r] = IF c = o.acct /\ r = o.sym
                               THEN ordered[c][r] + Sign(o.side) * o.qty ELSE ordered[c][r]
    BY <2>3 DEF f, a, s, delta
  <2>11. \A c \in Accounts, r \in Symbols, k \in Simulated :
           simulated'[k][c][r] = IF c = o.acct /\ r = o.sym /\ ref = k
                                 THEN After(o, "booked", sim[k][c][r]) ELSE sim[k][c][r]
    BY <2>4 DEF f, a, s
  <2>12. \A r \in Symbols :
           /\ paper'[r].owner = pap[r].owner
           /\ paper'[r].pos = IF r = o.sym /\ ref = "paper" THEN After(o, "booked", pap[r].pos)
                              ELSE pap[r].pos
    BY <2>5 DEF f, s
  <2>13. Followed(o, "booked", ref, own, pap, sim)
    BY <2>6, <2>7, <2>8, <2>9, <2>10, <2>11, <2>12 DEF Followed, PerSymbol, Outcomes
  <2> QED
    BY <2>13 DEF Outcomes
<1>5. CASE LeaveUnbooked(o, ref, own, pap, sim)
  <2>1. own \in Position
    BY <1>0 DEF WellFormed
  <2>2. /\ object' = [object EXCEPT ![a][s] = ref]
        /\ row' = IF ref = "own" THEN [row EXCEPT ![a][s] = own] ELSE row
        /\ paper' = pap /\ simulated' = sim /\ ordered' = ordered
        /\ unbooked' = unbooked \cup {<<a, s>>}
    BY <1>5 DEF LeaveUnbooked
  <2>3. \A p : After(o, "unbooked", p) = p
    BY DEF After
  <2> HIDE DEF a, s
  <2>4. \A c \in Accounts, r \in Symbols :
          /\ object'[c][r] = IF c = a /\ r = s THEN ref ELSE object[c][r]
          /\ row'[c][r] = IF c = a /\ r = s /\ ref = "own" THEN own ELSE row[c][r]
          /\ <<c, r>> \in unbooked' <=> <<c, r>> \in unbooked \/ (c = a /\ r = s)
    BY <1>0, <1>1, <1>2, <2>2
  <2>5. /\ object' \in [Accounts -> [Symbols -> {"own"} \cup Filling]]
        /\ row' \in [Accounts -> [Symbols -> Position]]
        /\ unbooked' \subseteq Slots
    BY <1>0, <1>1, <1>2, <2>1, <2>2 DEF Slots
  <2>6. /\ \A r \in Symbols : paper'[r].owner = pap[r].owner /\ paper'[r].pos = pap[r].pos
        /\ paper' \in [Symbols -> [owner : Accounts \cup {NoAccount}, pos : Position]]
        /\ simulated' = sim /\ simulated' \in [Simulated -> PerSymbol(Position)]
        /\ ordered' = ordered /\ ordered' \in [Accounts -> [Symbols -> Int]]
        /\ unbooked \subseteq unbooked'
    BY <1>0, <1>2, <2>2 DEF PerSymbol
  <2>7. Followed(o, "unbooked", ref, own, pap, sim)
    BY <2>3, <2>4, <2>5, <2>6 DEF Followed, PerSymbol, a, s
  <2> QED
    BY <2>7 DEF Outcomes
<1> QED
  BY <1>4, <1>5

(* An execution on paper: the broker's position, and the row, which may be   *)
(* the same one.                                                            *)
LEMMA PaperExecutionKeeps ==
  ASSUME BookInv, NEW o \in Order, o.broker = "paper", Execute(o),
         LET ref == object[o.acct][o.sym]
             own == row[o.acct][o.sym]
         IN \/ BookFill(o, ref, own, PaperAfter(o), simulated)
            \/ LeaveUnbooked(o, ref, own, PaperAfter(o), simulated)
  PROVE  BookInv' /\ unbooked \subseteq unbooked'
<1> DEFINE a == o.acct
           s == o.sym
           ref == object[a][s]
           delta  == Sign(o.side) * o.qty
           filled == ApplyFill(paper[s].pos, o.side, o.qty)
           pap == PaperAfter(o)
<1>1. /\ a \in Accounts /\ s \in Symbols /\ delta \in Int
      /\ o.side \in Sides /\ o.qty \in Nat \ {0}
  BY DEF Order, Sign
<1>2. /\ BookTypes /\ BooksWellFormed /\ Ownership /\ Sharing
      /\ Untouched /\ OwnRowsKeepPace /\ UnsyncedRows
  BY DEF BookInv
<1>3. /\ object \in [Accounts -> [Symbols -> {"own"} \cup Filling]]
      /\ paper \in [Symbols -> [owner : Accounts \cup {NoAccount}, pos : Position]]
      /\ simulated \in [Simulated -> PerSymbol(Position)]
      /\ ref \in {"own"} \cup Filling
  BY <1>1, <1>2 DEF BookTypes, PerSymbol
<1>4. /\ \A c \in Accounts, r \in Symbols, k \in Filling :
           /\ fills[c][r][k] \in Nat
           /\ fills'[c][r][k] = IF c = a /\ r = s /\ k = "paper"
                                THEN fills[c][r][k] + 1 ELSE fills[c][r][k]
      /\ fills' \in PerSymbol([Filling -> Nat]) /\ executed' \in Nat
      /\ live' = live /\ synced' = synced /\ copied' = copied /\ moved' = moved
  <2>1. /\ \A c \in Accounts, r \in Symbols, k \in Filling :
             /\ fills[c][r][k] \in Nat
             /\ fills'[c][r][k] = IF c = o.acct /\ r = o.sym /\ k = o.broker
                                  THEN fills[c][r][k] + 1 ELSE fills[c][r][k]
        /\ fills' \in PerSymbol([Filling -> Nat]) /\ executed' \in Nat
        /\ UNCHANGED <<live, halted, query, synced, copied, moved>>
    BY <1>2, ExecuteCounts
  <2>2. o.broker = "paper"
    OBVIOUS
  <2> QED
    BY <2>1, <2>2
<1>5. /\ WellFormed(paper[s].pos) /\ WellFormed(row[a][s])
      /\ \A k \in Simulated, c \in Accounts, r \in Symbols : WellFormed(simulated[k][c][r])
  BY <1>1, <1>2 DEF BooksWellFormed
<1>6. /\ PaperFill(paper[s].pos, o.side, o.qty) = filled
      /\ WellFormed(filled) /\ filled.side # "NONE" /\ filled \in Position
      /\ Signed(filled) = Signed(paper[s].pos) + delta
  BY <1>1, <1>5, BooksApplyFillsAlike, ApplyFillIsNet, FillLeavesARow DEF WellFormed
<1> HIDE DEF filled
<1>7. /\ pap = [paper EXCEPT ![s] = [owner |-> IF paper[s].pos.side = "NONE" THEN a
                                               ELSE paper[s].owner,
                                     pos   |-> filled]]
      /\ pap \in [Symbols -> [owner : Accounts \cup {NoAccount}, pos : Position]]
      /\ \A r \in Symbols : WellFormed(pap[r].pos)
  <2>1. pap = [paper EXCEPT ![s] = [owner |-> IF paper[s].pos.side = "NONE" THEN a
                                              ELSE paper[s].owner,
                                    pos   |-> filled]]
    BY <1>1, <1>3, <1>6 DEF PaperAfter
  <2>2. \A r \in Symbols : WellFormed(paper[r].pos)
    BY <1>2 DEF BooksWellFormed
  <2> HIDE DEF pap
  <2> QED
    BY <1>1, <1>3, <1>6, <2>1, <2>2
<1>8. /\ \A r \in Symbols \ {s} : pap[r] = paper[r]
      /\ pap[s].owner = IF paper[s].pos.side = "NONE" THEN a ELSE paper[s].owner
      /\ pap[s].pos = filled
  BY <1>1, <1>3, <1>7
<1>9. \/ BookFill(o, ref, row[a][s], pap, simulated)
      \/ LeaveUnbooked(o, ref, row[a][s], pap, simulated)
  OBVIOUS
<1> HIDE DEF pap, ref
<1>10. PICK did \in Outcomes : Followed(o, did, ref, row[a][s], pap, simulated)
  <2>1. BooksLeft(ref, row[a][s], pap, simulated)
    BY <1>3, <1>5, <1>7 DEF BooksLeft
  <2> QED
    BY <1>2, <1>9, <2>1, RowFollows
\* The books after the execution.
<1>11. /\ \A c \in Accounts, r \in Symbols :
            /\ object'[c][r] = object[c][r]
            /\ row'[c][r] = IF c = a /\ r = s /\ ref = "own" THEN After(o, did, row[a][s])
                            ELSE row[c][r]
            /\ \A k \in Simulated :
                 simulated'[k][c][r] = IF c = a /\ r = s /\ ref = k
                                       THEN After(o, did, simulated[k][a][s])
                                       ELSE simulated[k][c][r]
            /\ ordered'[c][r] = IF c = a /\ r = s /\ did = "booked" THEN ordered[c][r] + delta
                                ELSE ordered[c][r]
       /\ did # "booked" => <<a, s>> \in unbooked'
  <2>1. \A c \in Accounts, r \in Symbols :
          /\ object'[c][r] = IF c = a /\ r = s THEN ref ELSE object[c][r]
          /\ row'[c][r] = IF c = a /\ r = s /\ ref = "own" THEN After(o, did, row[a][s])
                          ELSE row[c][r]
          /\ ordered'[c][r] = IF c = a /\ r = s /\ did = "booked" THEN ordered[c][r] + delta
                              ELSE ordered[c][r]
          /\ <<c, r>> \in unbooked' <=> <<c, r>> \in unbooked \/ (c = a /\ r = s /\ did # "booked")
    BY <1>10 DEF Followed
  <2>2. \A c \in Accounts, r \in Symbols, k \in Simulated :
          simulated'[k][c][r] = IF c = a /\ r = s /\ ref = k
                                THEN After(o, did, simulated[k][c][r]) ELSE simulated[k][c][r]
    BY <1>10 DEF Followed
  <2>3. ref = object[a][s]
    BY DEF ref
  <2>4. did # "booked" => <<a, s>> \in unbooked'
    BY <1>1, <2>1
  <2>5. \A c \in Accounts, r \in Symbols : object'[c][r] = object[c][r]
    <3>1. \A c \in Accounts, r \in Symbols :
            object'[c][r] = IF c = a /\ r = s THEN ref ELSE object[c][r]
      BY <2>1
    <3> QED
      BY <2>3, <3>1
  <2>6. \A c \in Accounts, r \in Symbols, k \in Simulated :
          simulated'[k][c][r] = IF c = a /\ r = s /\ ref = k
                                THEN After(o, did, simulated[k][a][s]) ELSE simulated[k][c][r]
    BY <2>2
  <2> QED
    BY <2>1, <2>4, <2>5, <2>6
<1>12. /\ \A r \in Symbols \ {s} : paper'[r].pos = paper[r].pos /\ paper'[r].owner = paper[r].owner
       /\ paper'[s].owner = IF paper[s].pos.side = "NONE" THEN a ELSE paper[s].owner
       /\ paper'[s].pos = IF ref = "paper" THEN After(o, did, filled) ELSE filled
  BY <1>1, <1>8, <1>10 DEF Followed
<1>13. /\ WellFormed(After(o, did, filled)) /\ After(o, did, filled).side # "NONE"
       /\ WellFormed(After(o, did, row[a][s]))
       /\ Signed(After(o, did, row[a][s])) =
            IF did = "booked" THEN Signed(row[a][s]) + delta ELSE Signed(row[a][s])
       /\ \A k \in Simulated : WellFormed(After(o, did, simulated[k][a][s]))
  BY <1>1, <1>5, <1>6, AfterIsSound
<1> HIDE DEF delta
<1>14. BookTypes'
  BY <1>2, <1>4, <1>10 DEF BookTypes, Followed
<1>15. BooksWellFormed'
  <2>1. \A c \in Accounts, r \in Symbols :
          WellFormed(row'[c][r]) /\ \A k \in Simulated : WellFormed(simulated'[k][c][r])
    BY <1>2, <1>11, <1>13 DEF BooksWellFormed
  <2>2. \A r \in Symbols : WellFormed(paper'[r].pos)
    BY <1>2, <1>6, <1>12, <1>13 DEF BooksWellFormed
  <2> QED
    BY <2>1, <2>2 DEF BooksWellFormed
\* Of what was there before, for one account and symbol.
<1>16. \A c \in Accounts, r \in Symbols, k \in Filling : Paired(c, r, k)' => Paired(c, r, k)
  <2>1. \A c \in Accounts, r \in Symbols, k \in Filling : fills[c][r][k] <= fills'[c][r][k]
    BY <1>4
  <2> QED
    <3>1. /\ unbooked \subseteq unbooked' /\ copied \subseteq copied'
          /\ moved \subseteq moved' /\ BookTypes
      BY <1>2, <1>4, <1>10 DEF Followed
    <3> QED
      BY <1>14, <2>1, <3>1, PairedBefore
<1>17. Ownership'
  <2>1. SUFFICES ASSUME NEW r \in Symbols
        PROVE  /\ paper'[r].pos.side = "NONE" <=> paper'[r].owner = NoAccount
               /\ \A c \in Accounts :
                    /\ paper'[r].owner = c => fills'[c][r]["paper"] > 0
                    /\ paper'[r].owner = NoAccount => fills'[c][r]["paper"] = 0
    BY DEF Ownership
  <2>2. CASE r # s
    BY <1>2, <1>4, <1>12, <2>2, NamesApart DEF Ownership
  <2>3. CASE r = s
    <3>1. paper'[s].pos.side # "NONE"
      BY <1>6, <1>12, <1>13
    <3>2. paper'[s].owner # NoAccount
      BY <1>1, <1>2, <1>12, ReconciliationAssumption DEF Ownership, ReconciliationAssumption
    <3>3. \A c \in Accounts : paper'[s].owner = c => fills'[c][s]["paper"] > 0
      BY <1>1, <1>2, <1>4, <1>12, NamesApart DEF Ownership
    <3> QED
      BY <2>3, <3>1, <3>2, <3>3
  <2> QED
    BY <2>2, <2>3
<1>18. Sharing'
  <2>1. \A c \in Accounts, r \in Symbols : paper[r].owner = c => paper'[r].owner = c
    <3>1. \A c \in Accounts : paper[s].owner = c => paper[s].pos.side # "NONE"
      BY <1>1, <1>2, ReconciliationAssumption DEF Ownership, ReconciliationAssumption
    <3> QED
      BY <1>12, <3>1
  <2>2. \A c \in Accounts, r \in Symbols, k \in Simulated :
          fills[c][r][k] > 0 => fills'[c][r][k] > 0
    BY <1>4, NamesApart
  <2> QED
    <3>1. SUFFICES ASSUME NEW c \in Accounts, NEW r \in Symbols
          PROVE  /\ object'[c][r] = "paper" => <<c, r>> \in synced' /\ paper'[r].owner = c
                 /\ \A k \in Simulated :
                      object'[c][r] = k => <<c, r>> \in synced' /\ fills'[c][r][k] > 0
      BY DEF Sharing
    <3>2. /\ object[c][r] = "paper" => <<c, r>> \in synced /\ paper[r].owner = c
          /\ \A k \in Simulated : object[c][r] = k => <<c, r>> \in synced /\ fills[c][r][k] > 0
      BY <1>2 DEF Sharing
    <3>3. object'[c][r] = object[c][r] /\ synced' = synced
      BY <1>4, <1>11
    <3> QED
      BY <2>1, <2>2, <3>2, <3>3
<1>19. Untouched'
  <2>1. ASSUME NEW c \in Accounts, NEW r \in Symbols, NEW k \in Simulated, fills'[c][r][k] = 0
        PROVE  simulated'[k][c][r] = NoPosition
    <3>1. fills[c][r][k] = 0
      BY <1>4, <2>1, NamesApart
    <3>2. object[c][r] # k
      <4>1. object[c][r] = k => fills[c][r][k] > 0
        BY <1>2 DEF Sharing
      <4> QED
        BY <3>1, <4>1
    <3>3. simulated[k][c][r] = NoPosition
      BY <1>2, <3>1 DEF Untouched
    <3> QED
      BY <1>11, <3>2, <3>3 DEF ref
  <2>2. ASSUME NEW c \in Accounts, NEW r \in Symbols, <<c, r>> \notin copied,
               \A k \in Filling : fills'[c][r][k] = 0
        PROVE  Signed(row'[c][r]) = 0
    <3>1. \A k \in Filling : fills[c][r][k] = 0
      BY <1>4, <2>2
    <3>2. ~(c = a /\ r = s)
      BY <1>4, <2>2, NamesApart
    <3> QED
      BY <1>2, <1>11, <2>2, <3>1, <3>2 DEF Untouched
  <2> QED
    BY <1>2, <1>4, <2>1, <2>2 DEF Untouched
<1>20. OwnRowsKeepPace'
  <2>1. SUFFICES ASSUME NEW c \in Accounts, NEW r \in Symbols, object[c][r] = "own"
        PROVE  /\ Paired(c, r, "paper")' /\ paper'[r].owner = c =>
                    Signed(row'[c][r]) = Signed(paper'[r].pos)
               /\ \A k \in Simulated :
                    Paired(c, r, k)' => Signed(row'[c][r]) = Signed(simulated'[k][c][r])
    BY <1>11 DEF OwnRowsKeepPace
  <2>2. CASE r # s
    BY <1>2, <1>11, <1>12, <1>16, <2>1, <2>2, NamesApart DEF OwnRowsKeepPace
  <2>3. CASE r = s /\ c = a
    <3>1. fills'[a][s]["paper"] # 0
      BY <1>1, <1>4, NamesApart
    <3>2. \A k \in Simulated : ~Paired(a, s, k)'
      BY <3>1, NamesApart DEF Paired
    <3>3. ASSUME Paired(a, s, "paper")', paper'[s].owner = a
          PROVE  Signed(row[a][s]) = Signed(paper[s].pos) /\ did = "booked"
      <4>1. Paired(a, s, "paper")
        BY <1>1, <1>16, <3>3, NamesApart
      <4>2. did = "booked"
        BY <1>11, <3>3 DEF Paired
      <4>3. CASE paper[s].owner = a
        BY <1>1, <1>2, <2>1, <2>3, <4>1, <4>2, <4>3 DEF OwnRowsKeepPace
      <4>4. CASE paper[s].owner # a
        <5>1. paper[s].pos.side = "NONE"
          BY <1>12, <3>3, <4>4
        <5>2. paper[s].owner = NoAccount
          BY <1>1, <1>2, <5>1 DEF Ownership
        <5>3. fills[a][s]["paper"] = 0
          BY <1>1, <1>2, <5>2 DEF Ownership
        <5>4. (\A k \in Filling : fills[a][s][k] = 0) /\ <<a, s>> \notin copied
          BY <4>1, <5>3 DEF Paired
        <5>5. Signed(row[a][s]) = 0
          BY <1>1, <1>2, <5>4 DEF Untouched
        <5> QED
          BY <4>2, <5>1, <5>5 DEF Signed
      <4> QED
        BY <4>3, <4>4
    <3>4. ref = "own" /\ ref # "paper"
      BY <2>1, <2>3 DEF ref
    <3> QED
      BY <1>1, <1>6, <1>11, <1>12, <1>13, <2>3, <3>2, <3>3, <3>4
  <2>4. CASE r = s /\ c # a
    <3>1. fills'[a][s]["paper"] > 0
      BY <1>1, <1>4, NamesApart
    <3>2. ASSUME Paired(c, s, "paper")', paper'[s].owner = c
          PROVE  FALSE
      <4>1. fills'[c][s]["paper"] > 0
        BY <1>1, <1>17, <3>2 DEF Ownership
      <4>2. Alone(c, s)'
        BY <3>2 DEF Paired
      <4> QED
        BY <1>1, <2>4, <3>1, <4>1, <4>2 DEF Alone
    <3> QED
      BY <1>2, <1>11, <1>16, <2>1, <2>4, <3>2, NamesApart DEF OwnRowsKeepPace
  <2> QED
    BY <2>2, <2>3, <2>4
<1>21. UnsyncedRows'
  <2>1. SUFFICES ASSUME NEW c \in Accounts, NEW r \in Symbols, <<c, r>> \notin synced
        PROVE  Signed(row'[c][r]) = ordered'[c][r]
    BY <1>4 DEF UnsyncedRows
  <2>2. object[c][r] = "own"
    BY <1>2, <1>3, <2>1 DEF Sharing, Filling
  <2>3. Signed(row[c][r]) = ordered[c][r]
    BY <1>2, <2>1 DEF UnsyncedRows
  <2> QED
    BY <1>11, <1>13, <2>2, <2>3 DEF ref
<1> QED
  BY <1>10, <1>14, <1>15, <1>17, <1>18, <1>19, <1>20, <1>21 DEF BookInv, Followed

(* An execution at a simulated broker: a new object, and a row that keeps    *)
(* the old one.                                                             *)
LEMMA SimulatedExecutionKeeps ==
  ASSUME BookInv, NEW o \in Order, o.broker \in Simulated, Execute(o),
         LET own == Row(o.acct, o.sym)
         IN \/ BookFill(o, Detached(o), own, paper, SimulatedAfter(o))
            \/ LeaveUnbooked(o, Detached(o), own, paper, SimulatedAfter(o))
  PROVE  BookInv' /\ unbooked \subseteq unbooked'
<1> DEFINE a == o.acct
           s == o.sym
           b == o.broker
           ref == Detached(o)
           delta == Sign(o.side) * o.qty
           got == Holding(Direction(o.side), o.qty)
           sim == SimulatedAfter(o)
<1>1. /\ a \in Accounts /\ s \in Symbols /\ b \in Simulated /\ delta \in Int
      /\ o.side \in Sides /\ o.qty \in Nat \ {0}
  BY DEF Order, Sign
<1>2. /\ BookTypes /\ BooksWellFormed /\ Ownership /\ Sharing
      /\ Untouched /\ OwnRowsKeepPace /\ UnsyncedRows
  BY DEF BookInv
<1>3. /\ object \in [Accounts -> [Symbols -> {"own"} \cup Filling]]
      /\ paper \in [Symbols -> [owner : Accounts \cup {NoAccount}, pos : Position]]
      /\ simulated \in [Simulated -> [Accounts -> [Symbols -> Position]]]
      /\ ref \in {"own"} \cup Filling /\ ref # b
      /\ ref = object[a][s] \/ (ref = "own" /\ object[a][s] = b)
  BY <1>1, <1>2, NamesApart DEF BookTypes, PerSymbol, Detached
<1>4. /\ \A c \in Accounts, r \in Symbols, k \in Filling :
           /\ fills[c][r][k] \in Nat
           /\ fills'[c][r][k] = IF c = a /\ r = s /\ k = b
                                THEN fills[c][r][k] + 1 ELSE fills[c][r][k]
      /\ fills' \in PerSymbol([Filling -> Nat]) /\ executed' \in Nat
      /\ live' = live /\ synced' = synced /\ copied' = copied /\ moved' = moved
  BY <1>2, ExecuteCounts
<1>5. /\ \A r \in Symbols : WellFormed(paper[r].pos)
      /\ \A k \in Simulated, c \in Accounts, r \in Symbols : WellFormed(simulated[k][c][r])
      /\ WellFormed(row[a][s])
  BY <1>1, <1>2 DEF BooksWellFormed
<1>6. /\ WellFormed(Row(a, s))
      /\ object[a][s] = "own" => Row(a, s) = row[a][s]
  BY <1>1, <1>3, <1>5 DEF Row, Filling
<1>7. WellFormed(got) /\ Signed(got) = delta /\ got \in Position
  BY <1>1 DEF Holding, Direction, WellFormed, Position, PositionSides, Signed, Sign, Sides
<1> HIDE DEF got, ref
<1>8. /\ sim = [simulated EXCEPT ![b][a][s] = got]
      /\ sim \in [Simulated -> PerSymbol(Position)]
      /\ \A k \in Simulated, c \in Accounts, r \in Symbols :
           /\ sim[k][c][r] = IF k = b /\ c = a /\ r = s THEN got ELSE simulated[k][c][r]
           /\ WellFormed(sim[k][c][r])
  <2>1. sim = [simulated EXCEPT ![b][a][s] = got]
    BY DEF SimulatedAfter, got
  <2> HIDE DEF sim
  <2>2. sim \in [Simulated -> [Accounts -> [Symbols -> Position]]]
    BY <1>1, <1>3, <1>7, <2>1
  <2>3. \A k \in Simulated, c \in Accounts, r \in Symbols :
          sim[k][c][r] = IF k = b /\ c = a /\ r = s THEN got ELSE simulated[k][c][r]
    BY <1>1, <1>3, <2>1
  <2> QED
    BY <1>5, <1>7, <2>1, <2>2, <2>3 DEF PerSymbol
<1>9. \/ BookFill(o, ref, Row(a, s), paper, sim)
      \/ LeaveUnbooked(o, ref, Row(a, s), paper, sim)
  BY DEF ref
<1> HIDE DEF sim
<1>10. PICK did \in Outcomes : Followed(o, did, ref, Row(a, s), paper, sim)
  <2>1. BooksLeft(ref, Row(a, s), paper, sim)
    BY <1>3, <1>5, <1>6, <1>8 DEF BooksLeft
  <2> QED
    BY <1>2, <1>9, <2>1, RowFollows
\* The books after the execution.
<1>11. /\ \A c \in Accounts, r \in Symbols :
            /\ object'[c][r] = IF c = a /\ r = s THEN ref ELSE object[c][r]
            /\ row'[c][r] = IF c = a /\ r = s /\ ref = "own" THEN After(o, did, Row(a, s))
                            ELSE row[c][r]
            /\ \A k \in Simulated :
                 simulated'[k][c][r] = IF c = a /\ r = s /\ k = ref
                                       THEN After(o, did, simulated[k][a][s])
                                       ELSE IF c = a /\ r = s /\ k = b THEN got
                                            ELSE simulated[k][c][r]
            /\ ordered'[c][r] = IF c = a /\ r = s /\ did = "booked" THEN ordered[c][r] + delta
                                ELSE ordered[c][r]
       /\ did # "booked" => <<a, s>> \in unbooked'
  <2>1. \A c \in Accounts, r \in Symbols :
          /\ object'[c][r] = IF c = a /\ r = s THEN ref ELSE object[c][r]
          /\ row'[c][r] = IF c = a /\ r = s /\ ref = "own" THEN After(o, did, Row(a, s))
                          ELSE row[c][r]
          /\ ordered'[c][r] = IF c = a /\ r = s /\ did = "booked" THEN ordered[c][r] + delta
                              ELSE ordered[c][r]
          /\ <<c, r>> \in unbooked' <=> <<c, r>> \in unbooked \/ (c = a /\ r = s /\ did # "booked")
    BY <1>10 DEF Followed
  <2>2. \A c \in Accounts, r \in Symbols, k \in Simulated :
          simulated'[k][c][r] = IF c = a /\ r = s /\ ref = k
                                THEN After(o, did, sim[k][c][r]) ELSE sim[k][c][r]
    BY <1>10 DEF Followed
  <2>3. \A c \in Accounts, r \in Symbols, k \in Simulated :
          simulated'[k][c][r] = IF c = a /\ r = s /\ k = ref
                                THEN After(o, did, simulated[k][a][s])
                                ELSE IF c = a /\ r = s /\ k = b THEN got
                                     ELSE simulated[k][c][r]
    BY <1>3, <1>8, <2>2
  <2>4. did # "booked" => <<a, s>> \in unbooked'
    BY <1>1, <2>1
  <2>5. \A c \in Accounts, r \in Symbols :
          /\ object'[c][r] = IF c = a /\ r = s THEN ref ELSE object[c][r]
          /\ row'[c][r] = IF c = a /\ r = s /\ ref = "own" THEN After(o, did, Row(a, s))
                          ELSE row[c][r]
          /\ ordered'[c][r] = IF c = a /\ r = s /\ did = "booked" THEN ordered[c][r] + delta
                              ELSE ordered[c][r]
    BY <2>1
  <2> HIDE DEF a, s, b, delta
  <2> QED
    BY <2>3, <2>4, <2>5
<1>12. /\ \A r \in Symbols : paper'[r].owner = paper[r].owner
       /\ \A r \in Symbols : r # s \/ ref # "paper" => paper'[r].pos = paper[r].pos
       /\ ref = "paper" => paper'[s].pos = After(o, did, paper[s].pos)
  BY <1>1, <1>10 DEF Followed
<1>13. /\ WellFormed(After(o, did, paper[s].pos))
       /\ paper[s].pos.side # "NONE" => After(o, did, paper[s].pos).side # "NONE"
       /\ WellFormed(After(o, did, Row(a, s)))
       /\ Signed(After(o, did, Row(a, s))) =
            IF did = "booked" THEN Signed(Row(a, s)) + delta ELSE Signed(Row(a, s))
       /\ \A k \in Simulated : WellFormed(After(o, did, simulated[k][a][s]))
  BY <1>1, <1>5, <1>6, AfterIsSound
<1> HIDE DEF delta
<1>14. BookTypes'
  BY <1>2, <1>4, <1>10 DEF BookTypes, Followed
<1>15. BooksWellFormed'
  <2>1. \A c \in Accounts, r \in Symbols :
          WellFormed(row'[c][r]) /\ \A k \in Simulated : WellFormed(simulated'[k][c][r])
    BY <1>2, <1>7, <1>11, <1>13 DEF BooksWellFormed
  <2>2. \A r \in Symbols : WellFormed(paper'[r].pos)
    BY <1>5, <1>12, <1>13
  <2> QED
    BY <2>1, <2>2 DEF BooksWellFormed
<1>16. \A c \in Accounts, r \in Symbols, k \in Filling : Paired(c, r, k)' => Paired(c, r, k)
  <2>1. \A c \in Accounts, r \in Symbols, k \in Filling : fills[c][r][k] <= fills'[c][r][k]
    BY <1>4
  <2> QED
    <3>1. /\ unbooked \subseteq unbooked' /\ copied \subseteq copied'
          /\ moved \subseteq moved' /\ BookTypes
      BY <1>2, <1>4, <1>10 DEF Followed
    <3> QED
      BY <1>14, <2>1, <3>1, PairedBefore
\* A shared paper position is the account's own.
<1>17. ref = "paper" => paper[s].owner = a /\ paper[s].pos.side # "NONE"
  <2>1. ref = "paper" => object[a][s] = "paper"
    BY <1>3
  <2>2. object[a][s] = "paper" => paper[s].owner = a
    BY <1>1, <1>2 DEF Sharing
  <2>3. a # NoAccount
    BY <1>1, ReconciliationAssumption DEF ReconciliationAssumption
  <2>4. paper[s].owner = a => paper[s].pos.side # "NONE"
    BY <1>1, <1>2, <2>3 DEF Ownership
  <2> QED
    BY <2>1, <2>2, <2>4
<1>18. Ownership'
  <2>1. \A r \in Symbols : paper'[r].pos.side = "NONE" <=> paper[r].pos.side = "NONE"
    BY <1>12, <1>13, <1>17
  <2>2. \A c \in Accounts, r \in Symbols : fills'[c][r]["paper"] = fills[c][r]["paper"]
    BY <1>1, <1>4, NamesApart
  <2> QED
    BY <1>2, <1>12, <2>1, <2>2 DEF Ownership
<1>19. Sharing'
  <2>1. SUFFICES ASSUME NEW c \in Accounts, NEW r \in Symbols
        PROVE  /\ object'[c][r] = "paper" => <<c, r>> \in synced /\ paper'[r].owner = c
               /\ \A k \in Simulated :
                    object'[c][r] = k => <<c, r>> \in synced /\ fills'[c][r][k] > 0
    BY <1>4 DEF Sharing
  <2>2. /\ object[c][r] = "paper" => <<c, r>> \in synced /\ paper[r].owner = c
        /\ \A k \in Simulated : object[c][r] = k => <<c, r>> \in synced /\ fills[c][r][k] > 0
    BY <1>2 DEF Sharing
  <2>3. object'[c][r] = object[c][r] \/ object'[c][r] = "own"
    BY <1>3, <1>11
  <2>4. \A k \in Simulated : fills[c][r][k] > 0 => fills'[c][r][k] > 0
    BY <1>4, NamesApart
  <2> QED
    BY <1>12, <2>2, <2>3, <2>4, NamesApart
<1>20. Untouched'
  <2>1. ASSUME NEW c \in Accounts, NEW r \in Symbols, NEW k \in Simulated, fills'[c][r][k] = 0
        PROVE  simulated'[k][c][r] = NoPosition
    <3>1. fills[c][r][k] = 0 /\ ~(c = a /\ r = s /\ k = b)
      BY <1>4, <2>1, NamesApart
    <3>2. ~(c = a /\ r = s /\ k = ref)
      <4>1. object[c][r] = k => fills[c][r][k] > 0
        BY <1>2 DEF Sharing
      <4>2. k # "own"
        BY NamesApart
      <4> QED
        BY <1>3, <3>1, <4>1, <4>2
    <3>3. simulated[k][c][r] = NoPosition
      BY <1>2, <3>1 DEF Untouched
    <3> QED
      BY <1>11, <3>1, <3>2, <3>3
  <2>2. ASSUME NEW c \in Accounts, NEW r \in Symbols, <<c, r>> \notin copied,
               \A k \in Filling : fills'[c][r][k] = 0
        PROVE  Signed(row'[c][r]) = 0
    <3>1. \A k \in Filling : fills[c][r][k] = 0
      BY <1>4, <2>2
    <3>2. ~(c = a /\ r = s)
      BY <1>1, <1>4, <2>2, NamesApart
    <3> QED
      BY <1>2, <1>11, <2>2, <3>1, <3>2 DEF Untouched
  <2> QED
    BY <1>2, <1>4, <2>1, <2>2 DEF Untouched
<1>21. OwnRowsKeepPace'
  <2>1. SUFFICES ASSUME NEW c \in Accounts, NEW r \in Symbols, object'[c][r] = "own"
        PROVE  /\ Paired(c, r, "paper")' /\ paper'[r].owner = c =>
                    Signed(row'[c][r]) = Signed(paper'[r].pos)
               /\ \A k \in Simulated :
                    Paired(c, r, k)' => Signed(row'[c][r]) = Signed(simulated'[k][c][r])
    BY DEF OwnRowsKeepPace
  <2>2. CASE ~(c = a /\ r = s)
    <3>1. paper[r].owner = c => paper'[r].pos = paper[r].pos
      BY <1>12, <1>17, <2>2
    <3>2. object[c][r] = "own" /\ row'[c][r] = row[c][r]
          /\ \A k \in Simulated : simulated'[k][c][r] = simulated[k][c][r]
      BY <1>11, <2>1, <2>2
    <3> QED
      BY <1>2, <1>12, <1>16, <3>1, <3>2, NamesApart DEF OwnRowsKeepPace
  <2>3. CASE c = a /\ r = s
    <3>1. fills'[a][s][b] = fills[a][s][b] + 1 /\ fills[a][s][b] \in Nat
      BY <1>1, <1>4, NamesApart
    <3>2. ~Paired(a, s, "paper")' /\ \A k \in Simulated \ {b} : ~Paired(a, s, k)'
      BY <1>1, <3>1, NamesApart DEF Paired
    <3>3. ASSUME Paired(a, s, b)'
          PROVE  Signed(row'[a][s]) = Signed(simulated'[b][a][s])
      <4>1. /\ did = "booked" /\ <<a, s>> \notin copied
            /\ \A k \in Filling \ {b} : fills'[a][s][k] = 0
            /\ fills'[a][s][b] <= 1
        BY <1>1, <1>4, <1>11, <3>3 DEF Paired
      <4>2. \A k \in Filling : fills[a][s][k] = 0
        BY <1>1, <1>4, <3>1, <4>1
      <4>3. object[a][s] = "own"
        <5>1. \A k \in Simulated : object[a][s] = k => fills[a][s][k] > 0
          BY <1>1, <1>2 DEF Sharing
        <5>2. object[a][s] = "paper" => fills[a][s]["paper"] > 0
          BY <1>1, <1>2 DEF Sharing, Ownership
        <5>3. object[a][s] # "paper"
          BY <1>1, <4>2, <5>2, NamesApart
        <5>4. \A k \in Simulated : object[a][s] # k
          BY <1>1, <4>2, <5>1, NamesApart
        <5> QED
          BY <1>1, <1>3, <1>4, <4>2, <5>3, <5>4 DEF Filling
      <4>4. Signed(row[a][s]) = 0
        BY <1>1, <1>2, <4>1, <4>2 DEF Untouched
      <4>5. ref = "own" /\ b # ref
        BY <1>3, <4>3
      <4>6. row'[a][s] = After(o, did, Row(a, s)) /\ simulated'[b][a][s] = got
        BY <1>1, <1>11, <4>5
      <4> QED
        BY <1>1, <1>6, <1>7, <1>13, <4>1, <4>3, <4>4, <4>6
    <3> QED
      BY <2>3, <3>2, <3>3
  <2> QED
    BY <2>2, <2>3
<1>22. UnsyncedRows'
  <2>1. SUFFICES ASSUME NEW c \in Accounts, NEW r \in Symbols, <<c, r>> \notin synced
        PROVE  Signed(row'[c][r]) = ordered'[c][r]
    BY <1>4 DEF UnsyncedRows
  <2>2. object[c][r] = "own"
    BY <1>2, <1>3, <2>1 DEF Sharing, Filling
  <2>3. Signed(row[c][r]) = ordered[c][r]
    BY <1>2, <2>1 DEF UnsyncedRows
  <2>4. c = a /\ r = s => ref = "own"
    BY <1>3, <2>2
  <2> QED
    BY <1>6, <1>11, <1>13, <2>2, <2>3, <2>4
<1> QED
  BY <1>10, <1>14, <1>15, <1>18, <1>19, <1>20, <1>21, <1>22 DEF BookInv, Followed

-----------------------------------------------------------------------------

(* An execution at the exchange touches no book of the platform.            *)
LEMMA ExecutionKeeps ==
  ASSUME BookInv, NEW s \in Symbols, NEW n \in LiveSizes, ExchangeExecutes(s, n)
  PROVE  BookInv'
<1>1. /\ row' = row /\ object' = object /\ paper' = paper /\ simulated' = simulated
      /\ executed' = executed /\ fills' = fills /\ ordered' = ordered
      /\ unbooked' = unbooked /\ synced' = synced /\ copied' = copied
      /\ live' = [live EXCEPT ![s] = n] /\ moved' = moved \cup {s}
  BY DEF ExchangeExecutes, books
<1>2. BookTypes'
  BY <1>1, ReconciliationAssumption
     DEF BookInv, BookTypes, ReconciliationAssumption, PerSymbol
<1>3. Untouched'
  BY <1>1 DEF BookInv, BookTypes, Untouched
<1>4. BooksWellFormed' /\ Ownership' /\ Sharing' /\ UnsyncedRows'
  BY <1>1 DEF BookInv, BooksWellFormed, Ownership, Sharing, UnsyncedRows
<1>5. OwnRowsKeepPace'
  <2>1. \A c, r : \A k \in Filling : Paired(c, r, k)' => Paired(c, r, k)
    BY <1>1, NamesApart DEF Paired, Alone
  <2> QED
    BY <1>1, <2>1, NamesApart DEF BookInv, OwnRowsKeepPace
<1> QED
  BY <1>2, <1>3, <1>4, <1>5 DEF BookInv

(* A sync with a broker that answers at once makes its objects the rows; one *)
(* with nobody does nothing.                                                *)
LEMMA SyncKeeps ==
  ASSUME BookInv, NEW a \in Accounts, NEW b \in Books \ {"live"}, Sync(a, b)
  PROVE  BookInv'
<1> DEFINE got == Returned(a, b)
<1>1. /\ BookTypes /\ BooksWellFormed /\ Ownership /\ Sharing
      /\ Untouched /\ OwnRowsKeepPace /\ UnsyncedRows
  BY DEF BookInv
<1>2. /\ object' = [c \in Accounts |-> [s \in Symbols |->
                      IF c = a /\ s \in got THEN b ELSE object[c][s]]]
      /\ row' = [c \in Accounts |-> [s \in Symbols |->
                   IF c = a /\ s \in got THEN NoPosition ELSE row[c][s]]]
      /\ synced' = synced \cup ({a} \X got)
      /\ paper' = paper /\ simulated' = simulated /\ live' = live
      /\ executed' = executed /\ fills' = fills /\ ordered' = ordered
      /\ unbooked' = unbooked /\ copied' = copied /\ moved' = moved
  BY DEF Sync, Replaced
<1>3. \A r \in got :
        /\ r \in Symbols /\ b \in Filling
        /\ b = "paper" => paper[r].owner = a
        /\ b \in Simulated => fills[a][r][b] > 0
  <2>1. SUFFICES ASSUME NEW r \in got
        PROVE  /\ r \in Symbols /\ b \in Filling
               /\ b = "paper" => paper[r].owner = a
               /\ b \in Simulated => fills[a][r][b] > 0
    OBVIOUS
  <2>2. r \in Symbols /\ Holds(b, a)[r] # NoPosition
    BY <2>1 DEF Returned
  <2>3. ASSUME b = "paper"
        PROVE  paper[r].owner = a
    <3>1. Holds(b, a) = PaperHolds(a)
      BY <2>3, NamesApart DEF Holds
    <3> QED
      BY <2>2, <3>1 DEF PaperHolds
  <2>4. b \in Filling
    <3>1. CASE b = "nobody"
      BY <2>2, <3>1, NamesApart, ReconciliationAssumption
         DEF Holds, NothingHeld, ReconciliationAssumption
    <3> QED
      BY <3>1 DEF Books
  <2>5. CASE b \in Simulated
    <3>1. simulated[b][a][r] # NoPosition
      BY <2>2, <2>5, NamesApart DEF Holds, SimulatedHolds
    <3>2. fills[a][r][b] # 0
      BY <1>1, <2>2, <2>5, <3>1 DEF Untouched
    <3>3. fills[a][r][b] \in Nat
      BY <1>1, <2>2, <2>4 DEF BookTypes, PerSymbol
    <3> QED
      BY <2>2, <2>3, <2>4, <3>2, <3>3
  <2> QED
    BY <2>2, <2>3, <2>4, <2>5
<1> HIDE DEF got
<1>4. \A c \in Accounts, r \in Symbols :
        /\ object'[c][r] = IF c = a /\ r \in got THEN b ELSE object[c][r]
        /\ row'[c][r] = IF c = a /\ r \in got THEN NoPosition ELSE row[c][r]
        /\ <<c, r>> \in synced' <=> <<c, r>> \in synced \/ (c = a /\ r \in got)
  BY <1>2
<1>5. BookTypes'
  <2>1. row' \in PerSymbol(Position)
    BY <1>1, <1>2, NothingIsWellFormed DEF BookTypes, PerSymbol, WellFormed
  <2>2. object' \in PerSymbol({"own"} \cup Filling)
    BY <1>1, <1>2, <1>3 DEF BookTypes, PerSymbol
  <2>3. synced' \subseteq Slots /\ copied' \subseteq synced'
    BY <1>1, <1>2, <1>3 DEF BookTypes, Slots
  <2> QED
    BY <1>1, <1>2, <2>1, <2>2, <2>3 DEF BookTypes, PerSymbol
<1>6. BooksWellFormed' /\ Ownership'
  BY <1>1, <1>2, <1>4, NothingIsWellFormed DEF BooksWellFormed, Ownership
<1>7. Sharing'
  <2>1. SUFFICES ASSUME NEW c \in Accounts, NEW r \in Symbols
        PROVE  /\ object'[c][r] = "paper" => <<c, r>> \in synced' /\ paper[r].owner = c
               /\ \A k \in Simulated :
                    object'[c][r] = k => <<c, r>> \in synced' /\ fills[c][r][k] > 0
    BY <1>2 DEF Sharing
  <2>2. CASE c = a /\ r \in got
    BY <1>3, <1>4, <2>2
  <2>3. CASE ~(c = a /\ r \in got)
    BY <1>1, <1>4, <2>3 DEF Sharing
  <2> QED
    BY <2>2, <2>3
<1>8. Untouched'
  BY <1>1, <1>2, <1>4, NothingIsWellFormed DEF Untouched
<1>9. OwnRowsKeepPace'
  <2>1. \A c \in Accounts, r \in Symbols :
          object'[c][r] = "own" => object[c][r] = "own" /\ row'[c][r] = row[c][r]
    <3>1. \A r \in got : b # "own"
      BY <1>3, NamesApart
    <3> QED
      BY <1>4, <3>1
  <2>2. \A c, r, k : Paired(c, r, k)' <=> Paired(c, r, k)
    BY <1>2 DEF Paired, Alone
  <2> QED
    BY <1>1, <1>2, <2>1, <2>2 DEF OwnRowsKeepPace
<1>10. UnsyncedRows'
  BY <1>1, <1>2, <1>4 DEF UnsyncedRows
<1> QED
  BY <1>5, <1>6, <1>7, <1>8, <1>9, <1>10 DEF BookInv

(* The live broker's positions are well formed.                             *)
LEMMA LiveHoldsAreWellFormed ==
  ASSUME live \in [Symbols -> Int]
  PROVE  LiveHolds \in [Symbols -> Position] /\ \A s \in Symbols : WellFormed(LiveHolds[s])
<1>1. SUFFICES ASSUME NEW s \in Symbols PROVE WellFormed(LiveHolds[s])
  BY DEF LiveHolds, WellFormed
<1>2. live[s] \in Int
  OBVIOUS
<1>3. CASE live[s] > 0
  BY <1>2, <1>3 DEF LiveHolds, Holding, WellFormed, Position, PositionSides
<1>4. CASE live[s] < 0
  BY <1>2, <1>4 DEF LiveHolds, Holding, WellFormed, Position, PositionSides
<1>5. CASE live[s] = 0
  BY <1>5, NothingIsWellFormed DEF LiveHolds
<1> QED
  BY <1>2, <1>3, <1>4, <1>5

(* A sync with the live broker replaces rows with copies.                   *)
LEMMA LiveSyncKeeps ==
  ASSUME BookInv, NEW q \in Queries, query[q].acct \in Accounts, LiveSyncAnswers(q)
  PROVE  BookInv'
<1> DEFINE a   == query[q].acct
           got == Returned(a, "live")
<1>1. /\ BookTypes /\ BooksWellFormed /\ Ownership /\ Sharing
      /\ Untouched /\ OwnRowsKeepPace /\ UnsyncedRows
  BY DEF BookInv
<1>2. /\ object' = [c \in Accounts |-> [s \in Symbols |->
                      IF c = a /\ s \in got THEN "own" ELSE object[c][s]]]
      /\ row' = [c \in Accounts |-> [s \in Symbols |->
                   IF c = a /\ s \in got THEN LiveHolds[s] ELSE row[c][s]]]
      /\ synced' = synced \cup ({a} \X got) /\ copied' = copied \cup ({a} \X got)
      /\ paper' = paper /\ simulated' = simulated /\ live' = live
      /\ executed' = executed /\ fills' = fills /\ ordered' = ordered
      /\ unbooked' = unbooked /\ moved' = moved
  BY DEF LiveSyncAnswers, Replaced
<1>3. a \in Accounts /\ got \subseteq Symbols
  BY DEF Returned
<1>4. \A s \in Symbols : WellFormed(LiveHolds[s])
  BY <1>1, LiveHoldsAreWellFormed DEF BookTypes
<1> HIDE DEF a, got
<1>5. \A c \in Accounts, r \in Symbols :
        /\ object'[c][r] = IF c = a /\ r \in got THEN "own" ELSE object[c][r]
        /\ row'[c][r] = IF c = a /\ r \in got THEN LiveHolds[r] ELSE row[c][r]
        /\ <<c, r>> \in synced' <=> <<c, r>> \in synced \/ (c = a /\ r \in got)
        /\ <<c, r>> \in copied' <=> <<c, r>> \in copied \/ (c = a /\ r \in got)
  BY <1>2
<1>6. BookTypes'
  <2>1. row' \in PerSymbol(Position)
    BY <1>1, <1>2, <1>4 DEF BookTypes, PerSymbol, WellFormed
  <2>2. object' \in PerSymbol({"own"} \cup Filling)
    BY <1>1, <1>2 DEF BookTypes, PerSymbol
  <2>3. synced' \subseteq Slots /\ copied' \subseteq synced'
    BY <1>1, <1>2, <1>3 DEF BookTypes, Slots
  <2> QED
    BY <1>1, <1>2, <2>1, <2>2, <2>3 DEF BookTypes, PerSymbol
<1>7. BooksWellFormed' /\ Ownership'
  BY <1>1, <1>2, <1>4, <1>5 DEF BooksWellFormed, Ownership
<1>8. Sharing'
  <2>1. SUFFICES ASSUME NEW c \in Accounts, NEW r \in Symbols
        PROVE  /\ object'[c][r] = "paper" => <<c, r>> \in synced' /\ paper[r].owner = c
               /\ \A k \in Simulated :
                    object'[c][r] = k => <<c, r>> \in synced' /\ fills[c][r][k] > 0
    BY <1>2 DEF Sharing
  <2>2. CASE c = a /\ r \in got
    <3>1. object'[c][r] = "own"
      BY <1>5, <2>2
    <3> QED
      BY <3>1, NamesApart
  <2>3. CASE ~(c = a /\ r \in got)
    BY <1>1, <1>5, <2>3 DEF Sharing
  <2> QED
    BY <2>2, <2>3
<1>9. Untouched'
  BY <1>1, <1>2, <1>5 DEF Untouched
<1>10. OwnRowsKeepPace'
  <2>1. \A c \in Accounts, r \in Symbols :
          <<c, r>> \notin copied' /\ object'[c][r] = "own" =>
            <<c, r>> \notin copied /\ object[c][r] = "own" /\ row'[c][r] = row[c][r]
    BY <1>5
  <2>2. \A c \in Accounts, r \in Symbols, k \in Filling :
          Paired(c, r, k)' => Paired(c, r, k) /\ <<c, r>> \notin copied'
    BY <1>2 DEF Paired, Alone
  <2>3. \A k \in Simulated : k \in Filling
    BY NamesApart
  <2>4. "paper" \in Filling
    BY NamesApart
  <2>5. ASSUME NEW c \in Accounts, NEW r \in Symbols, object'[c][r] = "own"
        PROVE  /\ Paired(c, r, "paper")' /\ paper'[r].owner = c =>
                    Signed(row'[c][r]) = Signed(paper'[r].pos)
               /\ \A k \in Simulated :
                    Paired(c, r, k)' => Signed(row'[c][r]) = Signed(simulated'[k][c][r])
    <3>1. CASE <<c, r>> \in copied'
      BY <2>2, <2>3, <2>4, <3>1
    <3>2. CASE <<c, r>> \notin copied'
      <4>1. object[c][r] = "own" /\ row'[c][r] = row[c][r]
        BY <2>1, <2>5, <3>2
      <4> QED
        BY <1>1, <1>2, <2>2, <2>3, <2>4, <4>1 DEF OwnRowsKeepPace
    <3> QED
      BY <3>1, <3>2
  <2> QED
    BY <2>5 DEF OwnRowsKeepPace
<1>11. UnsyncedRows'
  BY <1>1, <1>2, <1>5 DEF UnsyncedRows
<1> QED
  BY <1>6, <1>7, <1>8, <1>9, <1>10, <1>11 DEF BookInv
-----------------------------------------------------------------------------
(* From the books to the reconciliations.                                   *)

(* Where the books can follow, they agree, whichever object the row is.     *)
LEMMA PairedBooksFollow ==
  ASSUME BookInv, NEW a \in Accounts, NEW s \in Symbols, NEW b \in Filling, Paired(a, s, b)
  PROVE  Signed(Row(a, s)) = Signed(Holds(b, a)[s])
<1>1. /\ BookTypes /\ BooksWellFormed /\ Ownership /\ Sharing
      /\ Untouched /\ OwnRowsKeepPace
  BY DEF BookInv
<1>2. /\ object[a][s] \in {"own"} \cup Filling
      /\ \A c \in Accounts, k \in Filling : fills[c][s][k] \in Nat
      /\ WellFormed(paper[s].pos)
  BY <1>1 DEF BookTypes, BooksWellFormed, PerSymbol
<1>3. /\ object[a][s] = "paper" => paper[s].owner = a
      /\ \A k \in Simulated : object[a][s] = k => fills[a][s][k] > 0
      /\ paper[s].owner = a => fills[a][s]["paper"] > 0
  BY <1>1 DEF Sharing, Ownership
<1>4. <<a, s>> \notin copied /\ \A k \in Filling \ {b} : fills[a][s][k] = 0
  BY DEF Paired
<1>5. CASE b = "paper"
  <2>1. Alone(a, s)
    BY <1>5 DEF Paired
  <2>2. Holds(b, a)[s] = IF paper[s].owner = a /\ paper[s].pos.qty > 0
                         THEN paper[s].pos ELSE NoPosition
    <3>1. Holds(b, a) = PaperHolds(a)
      BY <1>5, NamesApart DEF Holds
    <3> QED
      BY <3>1 DEF PaperHolds
  <2>3. paper[s].owner = a => Signed(Holds(b, a)[s]) = Signed(paper[s].pos)
    <3>1. paper[s].pos.qty = 0 => Signed(paper[s].pos) = 0
      BY <1>2 DEF Signed, WellFormed, Position
    <3>2. paper[s].pos.qty \in Nat
      BY <1>2 DEF WellFormed, Position
    <3> QED
      BY <2>2, <3>1, <3>2, NothingIsWellFormed
  <2>4. object[a][s] \in {"own", "paper"}
    BY <1>2, <1>3, <1>4, <1>5, NamesApart DEF Filling
  <2>5. CASE object[a][s] = "paper"
    BY <1>3, <2>3, <2>5 DEF Row
  <2>6. CASE object[a][s] = "own" /\ paper[s].owner = a
    BY <1>1, <1>5, <2>3, <2>6 DEF OwnRowsKeepPace, Row
  <2>7. CASE object[a][s] = "own" /\ paper[s].owner # a
    <3>1. paper[s].owner \in Accounts \cup {NoAccount}
      BY <1>1 DEF BookTypes
    <3>2. fills[a][s]["paper"] = 0
      <4>1. CASE paper[s].owner = NoAccount
        BY <1>1, <4>1 DEF Ownership
      <4>2. CASE paper[s].owner \in Accounts \ {a}
        <5>1. fills[paper[s].owner][s]["paper"] > 0
          BY <1>1, <4>2 DEF Ownership
        <5> QED
          BY <1>2, <2>1, <4>2, <5>1, NamesApart DEF Alone
      <4> QED
        BY <2>7, <3>1, <4>1, <4>2
    <3>3. \A k \in Filling : fills[a][s][k] = 0
      BY <1>4, <1>5, <3>2
    <3>4. Signed(row[a][s]) = 0
      BY <1>1, <1>4, <3>3 DEF Untouched
    <3> QED
      BY <2>2, <2>7, <3>4, NothingIsWellFormed DEF Row
  <2> QED
    BY <2>4, <2>5, <2>6, <2>7
<1>6. CASE b \in Simulated
  <2>1. Holds(b, a)[s] = simulated[b][a][s]
    BY <1>6, NamesApart DEF Holds, SimulatedHolds
  <2>2. fills[a][s]["paper"] = 0 /\ \A k \in Simulated \ {b} : fills[a][s][k] = 0
    BY <1>4, <1>6, NamesApart
  <2>3. object[a][s] = "own" \/ object[a][s] = b
    BY <1>2, <1>3, <2>2 DEF Filling
  <2>4. CASE object[a][s] = "own"
    BY <1>1, <1>6, <2>1, <2>4 DEF OwnRowsKeepPace, Row
  <2>5. CASE object[a][s] = b
    BY <1>6, <2>1, <2>5, NamesApart DEF Row
  <2> QED
    BY <2>3, <2>4, <2>5
<1> QED
  BY <1>5, <1>6 DEF Filling

(* Every position a reconciliation compares is well formed.                 *)
LEMMA ComparedAreWellFormed ==
  ASSUME BookInv, NEW a \in Accounts, NEW s \in Symbols
  PROVE  /\ WellFormed(Row(a, s))
         /\ \A b \in Books : WellFormed(Holds(b, a)[s])
<1>1. /\ WellFormed(row[a][s]) /\ WellFormed(paper[s].pos) /\ WellFormed(LiveHolds[s])
      /\ \A k \in Simulated : WellFormed(simulated[k][a][s])
  BY LiveHoldsAreWellFormed DEF BookInv, BooksWellFormed, BookTypes
<1>2. object[a][s] \in {"own"} \cup Filling
  BY DEF BookInv, BookTypes, PerSymbol
<1>3. WellFormed(Row(a, s))
  BY <1>1, <1>2 DEF Row, Filling
<1>4. ASSUME NEW b \in Books PROVE WellFormed(Holds(b, a)[s])
  BY <1>1, NothingIsWellFormed DEF Holds, PaperHolds, SimulatedHolds, NothingHeld
<1> QED
  BY <1>3, <1>4

(* A symbol the account has traded at no broker that fills has no row yet.  *)
LEMMA UntradedRowsAreEmpty ==
  ASSUME BookInv, NEW a \in Accounts, NEW s \in Symbols, NEW b \in Books \ Filling,
         Paired(a, s, b)
  PROVE  Row(a, s).qty = 0
<1>1. /\ BookTypes /\ Ownership /\ Sharing /\ Untouched
  BY DEF BookInv
<1>2. <<a, s>> \notin copied /\ \A k \in Filling : fills[a][s][k] = 0
  BY DEF Paired
<1>3. /\ object[a][s] = "paper" => fills[a][s]["paper"] > 0
      /\ \A k \in Simulated : object[a][s] = k => fills[a][s][k] > 0
  BY <1>1 DEF Sharing, Ownership
<1>4. object[a][s] = "own"
  <2>1. object[a][s] \in {"own"} \cup Filling
    BY <1>1 DEF BookTypes, PerSymbol
  <2> QED
    <3>1. object[a][s] # "paper"
      BY <1>2, <1>3, NamesApart
    <3>2. ASSUME NEW k \in Simulated
          PROVE  object[a][s] # k
      <4>1. fills[a][s][k] = 0
        BY <1>2, NamesApart
      <4> QED
        BY <1>3, <4>1
    <3> QED
      BY <2>1, <3>1, <3>2 DEF Filling
<1>5. Signed(row[a][s]) = 0
  BY <1>1, <1>2 DEF Untouched
<1>6. Row(a, s) = row[a][s]
  BY <1>4 DEF Row
<1> QED
  BY <1>5, <1>6, ComparedAreWellFormed, NothingIsWellFormed, SizeOfNet DEF NoPosition

(* What a comparison finds is a symbol that cannot be followed.             *)
LEMMA DifferencesHaveACause ==
  ASSUME BookInv, NEW a \in Accounts, NEW b \in Books \ {"live"},
         NEW s \in Discrepancies(Rows(a), Holds(b, a))
  PROVE  s \in Symbols /\ ~Paired(a, s, b)
<1>1. s \in Symbols /\ Row(a, s).qty # Holds(b, a)[s].qty
  BY DEF Discrepancies, Rows
<1>2. CASE b \in Filling
  BY <1>1, <1>2, NamesApart, ComparedAreWellFormed, PairedBooksFollow, SizeOfNet
<1>3. CASE b = "nobody"
  <2>1. Holds(b, a)[s].qty = 0
    BY <1>1, <1>3, NamesApart DEF Holds, NothingHeld, NoPosition
  <2> QED
    BY <1>1, <1>3, <2>1, NamesApart, UntradedRowsAreEmpty
<1> QED
  BY <1>2, <1>3 DEF Books

(* The invariant: while the live broker is queried, the rows found open      *)
(* before and the positions it answered with belong to symbols that cannot   *)
(* be followed.                                                             *)
QueriesHonest ==
  \A q \in Queries : query[q].pc # "idle" =>
    /\ query[q].acct \in Accounts
    /\ \A s \in query[q].open : ~Paired(query[q].acct, s, "live")
    /\ query[q].pc = "funds" /\ ~query[q].failed =>
         \A s \in Open(query[q].held) : ~Paired(query[q].acct, s, "live")

QueryStates ==
  [pc : {"idle", "comparing", "funds", "syncing"}, acct : Accounts \cup {NoAccount},
   open : SUBSET Symbols, replaced : SUBSET Symbols, held : [Symbols -> Position],
   failed : BOOLEAN]

Kept ==
  /\ connected \in [Simulated -> BOOLEAN]
  /\ halted \in BOOLEAN
  /\ query \in [Queries -> QueryStates]

IInv == BookInv /\ Kept /\ QueriesHonest

\* What accounts did stays done.
HistoryGrows ==
  /\ \A c \in Accounts, r \in Symbols, k \in Filling : fills[c][r][k] <= fills'[c][r][k]
  /\ unbooked \subseteq unbooked' /\ copied \subseteq copied' /\ moved \subseteq moved'

\* A query that knows what it knew, and one that has learned something.
Waits(q) ==
  /\ query'[q].pc = query[q].pc /\ query'[q].acct = query[q].acct
  /\ query'[q].open = query[q].open /\ query'[q].held = query[q].held
  /\ query'[q].failed = query[q].failed

Learns(q, a) ==
  /\ query'[q].acct = a
  /\ \A s \in query'[q].open : s \in Symbols /\ ~Paired(a, s, "live")'
  /\ query'[q].pc = "funds" /\ ~query'[q].failed =>
       \A s \in Open(query'[q].held) : ~Paired(a, s, "live")'

(* History that stands still has grown.                                     *)
LEMMA StillGrows ==
  ASSUME BookInv, UNCHANGED <<fills, unbooked>>,
         copied \subseteq copied', moved \subseteq moved'
  PROVE  HistoryGrows
<1>1. \A c \in Accounts, r \in Symbols, k \in Filling : fills[c][r][k] \in Nat
  BY DEF BookInv, BookTypes, PerSymbol
<1> QED
  BY <1>1 DEF HistoryGrows

(* An execution is added to the history.                                    *)
LEMMA ExecutionsGrow ==
  ASSUME BookInv, NEW o \in Order, Execute(o), unbooked \subseteq unbooked'
  PROVE  HistoryGrows
<1>1. \A c \in Accounts, r \in Symbols, k \in Filling :
        /\ fills[c][r][k] \in Nat
        /\ fills'[c][r][k] = IF c = o.acct /\ r = o.sym /\ k = o.broker
                             THEN fills[c][r][k] + 1 ELSE fills[c][r][k]
  BY ExecuteCounts DEF BookInv
<1>2. copied' = copied /\ moved' = moved
  BY DEF Execute
<1> QED
  BY <1>1, <1>2 DEF HistoryGrows

(* What the books can follow they could follow before.                      *)
LEMMA PairedOnce ==
  ASSUME IInv, BookInv', HistoryGrows,
         NEW a \in Accounts, NEW s \in Symbols, NEW b, Paired(a, s, b)'
  PROVE  Paired(a, s, b)
  BY PairedBefore DEF IInv, BookInv, HistoryGrows

(* Queries stay honest while accounts trade on.                             *)
LEMMA QueriesStayHonest ==
  ASSUME IInv, BookInv', HistoryGrows,
         \A q \in Queries :
           query'[q].pc = "idle" \/ Waits(q) \/ \E a \in Accounts : Learns(q, a)
  PROVE  QueriesHonest'
<1>1. SUFFICES ASSUME NEW q \in Queries, query'[q].pc # "idle"
      PROVE  \E a \in Accounts :
               /\ query'[q].acct = a
               /\ \A s \in query'[q].open : ~Paired(a, s, "live")'
               /\ query'[q].pc = "funds" /\ ~query'[q].failed =>
                    \A s \in Open(query'[q].held) : ~Paired(a, s, "live")'
  BY DEF QueriesHonest, Paired, Alone, Open
<1>2. CASE Waits(q)
  <2>1. query[q].pc # "idle" /\ query[q] \in QueryStates
    BY <1>1, <1>2 DEF Waits, IInv, Kept
  <2>2. PICK a \in Accounts : query[q].acct = a
    BY <2>1 DEF IInv, QueriesHonest
  <2>3. /\ \A s \in query[q].open : ~Paired(a, s, "live")
        /\ query[q].pc = "funds" /\ ~query[q].failed =>
             \A s \in Open(query[q].held) : ~Paired(a, s, "live")
    BY <2>1, <2>2 DEF IInv, QueriesHonest
  <2>4. query[q].open \subseteq Symbols /\ Open(query[q].held) \subseteq Symbols
    BY <2>1 DEF QueryStates, Open
  <2>5. \A s \in Symbols : Paired(a, s, "live")' => Paired(a, s, "live")
    BY PairedOnce
  <2> QED
    BY <1>2, <2>2, <2>3, <2>4, <2>5 DEF Waits
<1>3. CASE \E a \in Accounts : Learns(q, a)
  BY <1>3 DEF Learns
<1> QED
  BY <1>1, <1>2, <1>3
-----------------------------------------------------------------------------
(* The steps.                                                               *)

(* Where only the books and the history change, nothing else is disturbed.  *)
LEMMA TradingKeepsTheInvariant ==
  ASSUME IInv, BookInv', HistoryGrows, UNCHANGED query,
         connected' \in [Simulated -> BOOLEAN], halted' \in BOOLEAN
  PROVE  IInv'
<1>1. Kept'
  BY DEF IInv, Kept, QueryStates
<1>2. QueriesHonest'
  BY QueriesStayHonest DEF Waits
<1> QED
  BY <1>1, <1>2 DEF IInv

(* Executions at a broker, followed by the order service's row or not.      *)
LEMMA ExecutionsKeepTheInvariant ==
  ASSUME IInv, NEW o \in Order, Execute(o), connected' \in [Simulated -> BOOLEAN],
         \/ /\ o.broker = "paper"
            /\ LET ref == object[o.acct][o.sym]
                   own == row[o.acct][o.sym]
               IN \/ BookFill(o, ref, own, PaperAfter(o), simulated)
                  \/ LeaveUnbooked(o, ref, own, PaperAfter(o), simulated)
         \/ /\ o.broker \in Simulated
            /\ LET own == Row(o.acct, o.sym)
               IN \/ BookFill(o, Detached(o), own, paper, SimulatedAfter(o))
                  \/ LeaveUnbooked(o, Detached(o), own, paper, SimulatedAfter(o))
  PROVE  IInv'
<1>1. BookInv /\ halted \in BOOLEAN
  BY DEF IInv, Kept
<1>2. BookInv' /\ unbooked \subseteq unbooked'
  BY <1>1, PaperExecutionKeeps, SimulatedExecutionKeeps
<1>3. HistoryGrows
  BY <1>1, <1>2, ExecutionsGrow
<1>4. query' = query /\ halted' = halted
  BY DEF Execute
<1> QED
  BY <1>1, <1>2, <1>3, <1>4, TradingKeepsTheInvariant

(* Orders are executions, whether or not their calls return.                *)
LEMMA OrdersKeepTheInvariant ==
  ASSUME IInv, NEW o \in Orders, PaperOrder(o) \/ SimulatedOrder(o)
  PROVE  IInv'
<1>1. o \in Order
  BY ReconciliationAssumption DEF ReconciliationAssumption
<1>2. Execute(o) /\ connected' \in [Simulated -> BOOLEAN]
  BY DEF PaperOrder, SimulatedOrder, IInv, Kept
<1>3. CASE PaperOrder(o)
  BY <1>1, <1>2, <1>3, ExecutionsKeepTheInvariant DEF PaperOrder
<1>4. CASE SimulatedOrder(o)
  BY <1>1, <1>2, <1>4, ExecutionsKeepTheInvariant DEF SimulatedOrder
<1> QED
  BY <1>3, <1>4

(* Trial orders are executions that nobody books.                           *)
LEMMA TrialsKeepTheInvariant ==
  ASSUME IInv, PaperTrial \/ \E b \in Simulated : SimulatedTrial(b)
  PROVE  IInv'
<1>1. ASSUME NEW b \in Filling
      PROVE  TrialOrder(b) \in Order /\ TrialOrder(b).broker = b
  BY ReconciliationAssumption DEF ReconciliationAssumption, TrialOrder, Order, Sides
<1>2. CASE PaperTrial
  <2> DEFINE o == TrialOrder("paper")
  <2>1. /\ Execute(o) /\ connected' = connected
        /\ LeaveUnbooked(o, object[o.acct][o.sym], row[o.acct][o.sym], PaperAfter(o), simulated)
    BY <1>2 DEF PaperTrial
  <2>2. o \in Order /\ o.broker = "paper"
    BY <1>1, NamesApart
  <2>3. connected' \in [Simulated -> BOOLEAN]
    BY <2>1 DEF IInv, Kept
  <2> HIDE DEF o
  <2> QED
    BY <2>1, <2>2, <2>3, ExecutionsKeepTheInvariant
<1>3. CASE \E b \in Simulated : SimulatedTrial(b)
  <2>1. PICK b \in Simulated : SimulatedTrial(b)
    BY <1>3
  <2> DEFINE o == TrialOrder(b)
  <2>2. /\ Execute(o)
        /\ LeaveUnbooked(o, Detached(o), Row(o.acct, o.sym), paper, SimulatedAfter(o))
        /\ \E up \in BOOLEAN : connected' = [connected EXCEPT ![b] = up]
    BY <2>1 DEF SimulatedTrial
  <2>3. o \in Order /\ o.broker \in Simulated
    BY <1>1, NamesApart
  <2>4. connected' \in [Simulated -> BOOLEAN]
    BY <2>2 DEF IInv, Kept
  <2> HIDE DEF o
  <2> QED
    BY <2>2, <2>3, <2>4, ExecutionsKeepTheInvariant
<1> QED
  BY <1>2, <1>3

(* The exchange, the sessions, the switch's release and stuttering.         *)
LEMMA OthersKeepTheInvariant ==
  ASSUME IInv,
         \/ \E s \in Symbols, n \in LiveSizes : ExchangeExecutes(s, n)
         \/ \E b \in Simulated : Connect(b) \/ Disconnect(b)
         \/ DeactivateKillSwitch \/ UNCHANGED vars
  PROVE  IInv'
<1>1. BookInv /\ connected \in [Simulated -> BOOLEAN] /\ halted \in BOOLEAN
  BY DEF IInv, Kept
<1>2. BookInv'
  BY <1>1, BooksStill, ExecutionKeeps DEF Connect, Disconnect, DeactivateKillSwitch, vars
<1>3. /\ fills' = fills /\ unbooked' = unbooked /\ query' = query
      /\ copied' = copied /\ moved \subseteq moved'
  BY DEF ExchangeExecutes, Connect, Disconnect, DeactivateKillSwitch, vars, history
<1>4. halted' \in BOOLEAN
  BY <1>1 DEF ExchangeExecutes, Connect, Disconnect, DeactivateKillSwitch, vars
<1>5. connected' \in [Simulated -> BOOLEAN]
  BY <1>1 DEF ExchangeExecutes, Connect, Disconnect, DeactivateKillSwitch, vars
<1>6. HistoryGrows
  BY <1>1, <1>3, StillGrows
<1> QED
  BY <1>2, <1>3, <1>4, <1>5, <1>6, TradingKeepsTheInvariant

(* A comparison at once touches nothing but the switch.                     *)
LEMMA ComparisonsKeepTheInvariant ==
  ASSUME IInv, ReconcileAll \/ \E a \in Accounts, b \in Books : Reconcile(a, b)
  PROVE  IInv'
<1>1. BookInv /\ connected \in [Simulated -> BOOLEAN] /\ halted \in BOOLEAN
  BY DEF IInv, Kept
<1>2. UNCHANGED <<books, connected, live, query, history>>
  BY DEF ReconcileAll, Reconcile
<1>3. BookInv'
  BY <1>1, <1>2, BooksStill
<1>4. HistoryGrows
  BY <1>1, <1>2, StillGrows DEF history
<1>5. halted' \in BOOLEAN
  BY DEF ReconcileAll, Reconcile, Conclude
<1> QED
  BY <1>1, <1>2, <1>3, <1>4, <1>5, TradingKeepsTheInvariant

\* A sync marks the rows it replaced in the queries that have read them.
LEMMA MarksKeep ==
  ASSUME IInv, NEW a, NEW got
  PROVE  LET marked == MarkReplaced(a, got)
         IN /\ marked \in [Queries -> QueryStates]
            /\ \A q \in Queries :
                 /\ marked[q].pc = query[q].pc /\ marked[q].acct = query[q].acct
                 /\ marked[q].open = query[q].open /\ marked[q].held = query[q].held
                 /\ marked[q].failed = query[q].failed
<1>1. \A q \in Queries : query[q] \in QueryStates
  BY DEF IInv, Kept
<1> DEFINE mark(x) == [x EXCEPT !.replaced = @ \cup (got \cap x.open)]
<1>2. \A x \in QueryStates :
        /\ mark(x) \in QueryStates /\ mark(x).pc = x.pc /\ mark(x).acct = x.acct
        /\ mark(x).open = x.open /\ mark(x).held = x.held /\ mark(x).failed = x.failed
  BY DEF QueryStates
<1>3. \A q \in Queries :
        MarkReplaced(a, got)[q] = IF query[q].acct = a THEN mark(query[q]) ELSE query[q]
  BY DEF MarkReplaced
<1> HIDE DEF mark
<1>4. \A q \in Queries : MarkReplaced(a, got)[q] \in QueryStates
  BY <1>1, <1>2, <1>3
<1>5. MarkReplaced(a, got) \in [Queries -> QueryStates]
  BY <1>4 DEF MarkReplaced
<1> QED
  BY <1>1, <1>2, <1>3, <1>5

(* A sync changes books, rows and marks.                                    *)
LEMMA SyncKeepsTheInvariant ==
  ASSUME IInv, NEW a \in Accounts, NEW b \in Books, Sync(a, b)
  PROVE  IInv'
<1>1. BookInv /\ connected \in [Simulated -> BOOLEAN] /\ halted \in BOOLEAN
  BY DEF IInv, Kept
<1>2. BookInv'
  <2>1. b \in Books \ {"live"}
    BY DEF Sync
  <2> QED
    BY <1>1, <2>1, SyncKeeps
<1>3. /\ UNCHANGED <<connected, fills, unbooked, copied, moved>>
      /\ query' = MarkReplaced(a, Returned(a, b))
  BY DEF Sync
<1>4. HistoryGrows
  BY <1>1, <1>3, StillGrows
<1>5. query' \in [Queries -> QueryStates] /\ \A q \in Queries : Waits(q)
  BY <1>3, MarksKeep DEF Waits
<1>6. halted' \in BOOLEAN
  BY DEF Sync, Conclude
<1>7. Kept'
  BY <1>1, <1>3, <1>5, <1>6 DEF Kept, QueryStates
<1>8. QueriesHonest'
  BY <1>2, <1>4, <1>5, QueriesStayHonest
<1> QED
  BY <1>2, <1>7, <1>8 DEF IInv

(* One query changes, and the books do not.                                 *)
LEMMA AQueryKeepsTheInvariant ==
  ASSUME IInv, BookInv', HistoryGrows, connected' = connected, halted' \in BOOLEAN,
         NEW q \in Queries, query' \in [Queries -> QueryStates],
         \A p \in Queries \ {q} : Waits(p),
         query'[q].pc = "idle" \/ \E a \in Accounts : Learns(q, a)
  PROVE  IInv'
<1>1. Kept'
  BY DEF IInv, Kept, QueryStates
<1>2. QueriesHonest'
  BY QueriesStayHonest
<1> QED
  BY <1>1, <1>2 DEF IInv

(* A query that is over is a query.                                         *)
LEMMA IdleIsAState == Idle \in QueryStates
  BY NothingIsWellFormed DEF Idle, QueryStates, NothingHeld, WellFormed

(* Reading rows yields a state that compares the open ones.                 *)
LEMMA ReadingIsAState ==
  ASSUME NEW a \in Accounts, NEW held
  PROVE  LET x == Reading(a, held)
         IN /\ x \in QueryStates /\ x.pc = "comparing" /\ x.acct = a
            /\ x.open = Open(held) /\ Open(held) \subseteq Symbols
<1> DEFINE open == Open(held)
<1>1. open \subseteq Symbols
  BY DEF Open
<1> HIDE DEF open
<1>2. [Idle EXCEPT !.pc = "comparing", !.acct = a, !.open = open] \in QueryStates
  BY <1>1, IdleIsAState DEF QueryStates
<1>3. LET x == [Idle EXCEPT !.pc = "comparing", !.acct = a, !.open = open]
      IN x.pc = "comparing" /\ x.acct = a /\ x.open = open
  BY DEF Idle
<1> QED
  BY <1>1, <1>2, <1>3 DEF Reading, open

(* Rows that are open cannot be followed by the live broker's book.         *)
LEMMA OpenRowsAreUnpaired ==
  ASSUME BookInv, NEW a \in Accounts, NEW s \in Open(Rows(a))
  PROVE  s \in Symbols /\ ~Paired(a, s, "live")
<1>1. s \in Symbols /\ Row(a, s).qty # 0
  BY DEF Open, Rows
<1> QED
  BY <1>1, NamesApart, UntradedRowsAreEmpty

(* The rows are read, or a sync begins, or it fails and compares the rows.  *)
LEMMA ReadersKeepTheInvariant ==
  ASSUME IInv, NEW q \in Queries,
         (\E a \in Accounts : LiveReconcile(q, a) \/ LiveSync(q, a)) \/ LiveSyncFails(q)
  PROVE  IInv'
<1>1. /\ BookInv /\ query \in [Queries -> QueryStates] /\ halted \in BOOLEAN
      /\ UNCHANGED <<books, connected, live, halted, history>>
  BY DEF IInv, Kept, LiveReconcile, LiveSync, LiveSyncFails
<1>2. BookInv'
  BY <1>1, BooksStill
<1>3. HistoryGrows
  BY <1>1, StillGrows DEF history
<1>4. PICK x \in QueryStates :
        /\ query' = [query EXCEPT ![q] = x]
        /\ x.pc = "idle" \/ \E a \in Accounts :
             x.acct = a /\ x.open \subseteq Open(Rows(a)) /\ x.pc \in {"comparing", "syncing"}
  <2>1. ASSUME NEW a \in Accounts, query' = [query EXCEPT ![q] = Reading(a, Rows(a))]
        PROVE  \E x \in QueryStates :
                 /\ query' = [query EXCEPT ![q] = x]
                 /\ x.acct = a /\ x.open \subseteq Open(Rows(a)) /\ x.pc = "comparing"
    BY <2>1, ReadingIsAState
  <2>2. CASE \E a \in Accounts : LiveReconcile(q, a)
    BY <2>1, <2>2 DEF LiveReconcile
  <2>3. CASE \E a \in Accounts : LiveSync(q, a)
    <3>1. PICK a \in Accounts : LiveSync(q, a)
      BY <2>3
    <3> DEFINE x == [Idle EXCEPT !.pc = "syncing", !.acct = a]
    <3>2. x \in QueryStates /\ x.acct = a /\ x.pc = "syncing" /\ x.open = {}
      BY IdleIsAState DEF QueryStates, Idle
    <3>3. query' = [query EXCEPT ![q] = x]
      BY <3>1 DEF LiveSync
    <3> HIDE DEF x
    <3> QED
      BY <3>2, <3>3
  <2>4. CASE LiveSyncFails(q)
    <3>1. PICK a \in Accounts : query[q].acct = a
      BY <2>4 DEF LiveSyncFails, IInv, QueriesHonest
    <3>2. CASE query' = [query EXCEPT ![q] = Idle]
      BY <3>2, IdleIsAState DEF Idle
    <3>3. CASE query' = [query EXCEPT ![q] = Reading(a, Rows(a))]
      BY <2>1, <3>3
    <3> QED
      BY <2>4, <3>1, <3>2, <3>3 DEF LiveSyncFails
  <2> QED
    BY <2>2, <2>3, <2>4
<1>5. /\ query'[q] = x /\ query' \in [Queries -> QueryStates]
      /\ \A p \in Queries \ {q} : Waits(p)
  BY <1>1, <1>4 DEF Waits
<1>6. query'[q].pc = "idle" \/ \E a \in Accounts : Learns(q, a)
  <2>1. ASSUME NEW a \in Accounts, x.acct = a, x.open \subseteq Open(Rows(a)),
               x.pc \in {"comparing", "syncing"}
        PROVE  Learns(q, a)
    <3>1. \A s \in Open(Rows(a)) : s \in Symbols /\ ~Paired(a, s, "live")
      BY <1>1, OpenRowsAreUnpaired
    <3>2. \A s \in Symbols : Paired(a, s, "live")' => Paired(a, s, "live")
      BY <1>2, <1>3, PairedOnce
    <3> QED
      BY <1>5, <2>1, <3>1, <3>2 DEF Learns
  <2> QED
    BY <1>4, <1>5, <2>1
<1> QED
  BY <1>1, <1>2, <1>3, <1>5, <1>6, AQueryKeepsTheInvariant

(* The live broker's positions are those of symbols that were executed.     *)
LEMMA LiveAnswersKeepsTheInvariant ==
  ASSUME IInv, NEW q \in Queries, LiveAnswers(q)
  PROVE  IInv'
<1>1. /\ BookInv /\ query \in [Queries -> QueryStates] /\ halted \in BOOLEAN
      /\ UNCHANGED <<books, connected, live, halted, history>>
  BY DEF IInv, Kept, LiveAnswers
<1>2. BookInv'
  BY <1>1, BooksStill
<1>3. HistoryGrows
  BY <1>1, StillGrows DEF history
<1>4. PICK a \in Accounts : query[q].acct = a
  BY DEF LiveAnswers, IInv, QueriesHonest
<1>5. PICK failed \in BOOLEAN, held \in [Symbols -> Position] :
        /\ query' = [query EXCEPT ![q].pc = "funds", ![q].failed = failed, ![q].held = held]
        /\ ~failed => held = LiveHolds
  <2>1. PICK failed \in BOOLEAN :
          query' = [query EXCEPT ![q].pc = "funds", ![q].failed = failed,
                                 ![q].held = IF failed THEN NothingHeld ELSE LiveHolds]
    BY DEF LiveAnswers
  <2>2. LiveHolds \in [Symbols -> Position] /\ NothingHeld \in [Symbols -> Position]
    BY <1>1, LiveHoldsAreWellFormed, NothingIsWellFormed
       DEF BookInv, BookTypes, NothingHeld, WellFormed
  <2>3. CASE failed
    BY <2>1, <2>2, <2>3
  <2>4. CASE ~failed
    BY <2>1, <2>2, <2>4
  <2> QED
    BY <2>3, <2>4
<1> DEFINE x == [query[q] EXCEPT !.pc = "funds", !.failed = failed, !.held = held]
<1>6. /\ x \in QueryStates /\ x.acct = a /\ x.open = query[q].open
      /\ x.held = held /\ x.failed = failed
  BY <1>1, <1>4, <1>5 DEF QueryStates
<1>7. query' = [query EXCEPT ![q] = x]
  BY <1>1, <1>5
<1> HIDE DEF x
<1>8. /\ query'[q] = x /\ query' \in [Queries -> QueryStates]
      /\ \A p \in Queries \ {q} : Waits(p)
  BY <1>1, <1>6, <1>7 DEF Waits
<1>9. Learns(q, a)
  <2>1. \A s \in Symbols : Paired(a, s, "live")' => Paired(a, s, "live")
    BY <1>2, <1>3, PairedOnce
  <2>2. \A s \in query[q].open : s \in Symbols /\ ~Paired(a, s, "live")
    BY <1>1, <1>4 DEF LiveAnswers, IInv, QueriesHonest, QueryStates
  <2>3. ASSUME held = LiveHolds, NEW s \in Open(held)
        PROVE  s \in Symbols /\ ~Paired(a, s, "live")
    <3>1. s \in Symbols /\ live[s] # 0
      BY <2>3 DEF Open, LiveHolds, NoPosition
    <3>2. s \in moved
      BY <1>1, <3>1 DEF BookInv, Untouched
    <3> QED
      BY <3>1, <3>2 DEF Paired
  <2> QED
    BY <1>5, <1>6, <1>8, <2>1, <2>2, <2>3 DEF Learns
<1> QED
  BY <1>1, <1>2, <1>3, <1>8, <1>9, AQueryKeepsTheInvariant

(* The funds or an exception end a reconciliation.                          *)
LEMMA QueryEndsKeepTheInvariant ==
  ASSUME IInv, NEW q \in Queries, FundsAnswer(q) \/ LiveFails(q)
  PROVE  IInv'
<1>1. /\ BookInv /\ query \in [Queries -> QueryStates]
      /\ UNCHANGED <<books, connected, live, history>>
      /\ query' = [query EXCEPT ![q] = Idle]
  BY DEF IInv, Kept, FundsAnswer, LiveFails
<1>2. BookInv'
  BY <1>1, BooksStill
<1>3. HistoryGrows
  BY <1>1, StillGrows DEF history
<1>4. halted' \in BOOLEAN
  BY DEF FundsAnswer, LiveFails, Conclude
<1>5. /\ query'[q].pc = "idle" /\ query' \in [Queries -> QueryStates]
      /\ \A p \in Queries \ {q} : Waits(p)
  BY <1>1, IdleIsAState DEF Waits, Idle
<1> QED
  BY <1>1, <1>2, <1>3, <1>4, <1>5, AQueryKeepsTheInvariant

(* What a live sync replaced cannot be followed any more, and of the rest    *)
(* only rows that could not be are open.                                    *)
LEMMA LiveSyncsKeepTheInvariant ==
  ASSUME IInv, NEW q \in Queries, LiveSyncAnswers(q)
  PROVE  IInv'
<1>1. BookInv /\ query \in [Queries -> QueryStates] /\ halted \in BOOLEAN
  BY DEF IInv, Kept
<1>2. PICK a \in Accounts : query[q].acct = a
  BY DEF LiveSyncAnswers, IInv, QueriesHonest
<1> DEFINE got  == Returned(a, "live")
           rows == [s \in Symbols |-> IF s \in got THEN LiveHolds[s] ELSE Row(a, s)]
<1>3. /\ UNCHANGED <<connected, halted, fills, unbooked, moved>>
      /\ copied' = copied \cup ({a} \X got)
      /\ query' = [MarkReplaced(a, got) EXCEPT ![q] = Reading(a, rows)]
  BY <1>2 DEF LiveSyncAnswers
<1>4. BookInv'
  BY <1>1, <1>2, LiveSyncKeeps
<1>5. HistoryGrows
  <2>1. copied \subseteq copied'
    BY <1>3
  <2> QED
    BY <1>1, <1>3, <2>1, StillGrows
<1>6. \A s \in Open(rows) : s \in Symbols /\ (s \in got \/ s \in Open(Rows(a)))
  BY DEF Open, Rows
<1> HIDE DEF got, rows
<1>7. /\ Reading(a, rows) \in QueryStates
      /\ Reading(a, rows).pc = "comparing" /\ Reading(a, rows).acct = a
      /\ Reading(a, rows).open = Open(rows)
  BY ReadingIsAState
<1>8. /\ query' \in [Queries -> QueryStates]
      /\ query'[q].pc = "comparing" /\ query'[q].acct = a /\ query'[q].open = Open(rows)
      /\ \A p \in Queries \ {q} : Waits(p)
  <2> DEFINE marked == MarkReplaced(a, got)
  <2>1. /\ marked \in [Queries -> QueryStates]
        /\ \A p \in Queries :
             /\ marked[p].pc = query[p].pc /\ marked[p].acct = query[p].acct
             /\ marked[p].open = query[p].open /\ marked[p].held = query[p].held
             /\ marked[p].failed = query[p].failed
    BY MarksKeep
  <2>2. query' = [marked EXCEPT ![q] = Reading(a, rows)]
    BY <1>3
  <2> HIDE DEF marked
  <2> QED
    BY <1>7, <2>1, <2>2 DEF Waits
<1>9. Learns(q, a)
  <2>1. SUFFICES ASSUME NEW s \in Open(rows)
        PROVE  s \in Symbols /\ ~Paired(a, s, "live")'
    BY <1>8 DEF Learns
  <2>2. CASE s \in got
    <3>1. <<a, s>> \in copied'
      BY <1>3, <2>2
    <3> QED
      BY <1>6, <2>1, <3>1 DEF Paired
  <2>3. CASE s \in Open(Rows(a))
    <3>1. s \in Symbols /\ ~Paired(a, s, "live")
      BY <1>1, <2>3, OpenRowsAreUnpaired
    <3> QED
      BY <1>4, <1>5, <3>1, PairedOnce
  <2> QED
    BY <1>6, <2>1, <2>2, <2>3
<1> QED
  BY <1>1, <1>3, <1>4, <1>5, <1>8, <1>9, AQueryKeepsTheInvariant

(* Nothing is held, asked or halted at first.                               *)
LEMMA InvariantInitially ==
  ASSUME Init
  PROVE  IInv
<1>1. BookInv
  BY BooksInitially
<1>2. \A q \in Queries : query[q] = Idle
  BY DEF Init
<1>3. Kept
  BY IdleIsAState DEF Init, Kept
<1>4. QueriesHonest
  BY <1>2 DEF QueriesHonest, Idle
<1> QED
  BY <1>1, <1>3, <1>4 DEF IInv

(* The inductive invariant: the books of BookInv, and queries that have read *)
(* and heard only what is open.                                             *)
THEOREM BooksAndHaltsInvariant == Spec => []IInv
<1>1. Init => IInv
  BY InvariantInitially
<1>2. IInv /\ [Next]_vars => IInv'
  <2>1. SUFFICES ASSUME IInv, [Next]_vars PROVE IInv'
    OBVIOUS
  <2>2. CASE \E o \in Orders : PaperOrder(o) \/ SimulatedOrder(o)
    BY <2>1, <2>2, OrdersKeepTheInvariant
  <2>3. CASE PaperTrial \/ \E b \in Simulated : SimulatedTrial(b)
    BY <2>1, <2>3, TrialsKeepTheInvariant
  <2>4. CASE \/ \E s \in Symbols, n \in LiveSizes : ExchangeExecutes(s, n)
             \/ \E b \in Simulated : Connect(b) \/ Disconnect(b)
             \/ DeactivateKillSwitch \/ UNCHANGED vars
    BY <2>1, <2>4, OthersKeepTheInvariant
  <2>5. CASE \E a \in Accounts, b \in Books : Reconcile(a, b) \/ Sync(a, b)
    BY <2>1, <2>5, ComparisonsKeepTheInvariant, SyncKeepsTheInvariant
  <2>6. CASE ReconcileAll
    BY <2>1, <2>6, ComparisonsKeepTheInvariant
  <2>7. CASE \E q \in Queries :
               \/ \E a \in Accounts : LiveReconcile(q, a) \/ LiveSync(q, a)
               \/ Answer(q)
    BY <2>1, <2>7, ReadersKeepTheInvariant, LiveAnswersKeepsTheInvariant,
       QueryEndsKeepTheInvariant, LiveSyncsKeepTheInvariant DEF Answer
  <2> QED
    BY <2>1, <2>2, <2>3, <2>4, <2>5, <2>6, <2>7 DEF Next, Trade
<1> QED
  BY <1>1, <1>2, PTL DEF Spec

(* Type correctness of the position books and of the reconciliations.       *)
THEOREM TypeCorrect == Spec => []TypeOK
<1>1. IInv => TypeOK
  BY DEF IInv, BookInv, BookTypes, Kept, QueryStates, TypeOK
<1> QED
  BY <1>1, BooksAndHaltsInvariant, PTL

(* An account that trades a symbol at one broker only, in a way its book can *)
(* follow, finds the repository's row and that broker's position equal,      *)
(* although a sync may have made them one object that two writers change.   *)
THEOREM BooksStayPaired == Spec => []PairedBooksAgree
<1>1. IInv => PairedBooksAgree
  BY PairedBooksFollow DEF IInv, PairedBooksAgree
<1> QED
  BY <1>1, BooksAndHaltsInvariant, PTL

(* No reconciliation that reaches its broker halts the platform without a    *)
(* cause, nor does one of a broker that does not exist, also when orders are *)
(* filled and rows replaced while it waits for the live broker.             *)
THEOREM NoFalseAlarm == Spec => HaltsHaveACause
<1>1. IInv /\ [Next]_vars =>
        [~halted /\ halted' =>
           /\ \A a \in Accounts, b \in Books : Reconcile(a, b) \/ Sync(a, b) => Unpaired(a, b)
           /\ \A q \in Queries :
                FundsAnswer(q) /\ ~query[q].failed => Unpaired(query[q].acct, "live")]_vars
  <2>1. SUFFICES ASSUME IInv, ~halted, halted'
        PROVE  /\ \A a \in Accounts, b \in Books :
                    Reconcile(a, b) \/ Sync(a, b) => Unpaired(a, b)
               /\ \A q \in Queries :
                    FundsAnswer(q) /\ ~query[q].failed => Unpaired(query[q].acct, "live")
    OBVIOUS
  <2>2. ASSUME NEW a \in Accounts, NEW b \in Books, Reconcile(a, b) \/ Sync(a, b)
        PROVE  Unpaired(a, b)
    <3>1. b \in Books \ {"live"}
      BY <2>2 DEF Reconcile, Sync
    <3>2. Discrepancies(Rows(a), Holds(b, a)) # {}
      <4>1. CASE Reconcile(a, b)
        BY <2>1, <4>1 DEF Reconcile, Conclude
      <4>2. CASE Sync(a, b)
        <5> DEFINE rows == [s \in Symbols |-> IF s \in Returned(a, b) THEN Holds(b, a)[s]
                                              ELSE Row(a, s)]
        <5>1. Discrepancies(rows, Holds(b, a)) # {}
          BY <2>1, <4>2 DEF Sync, Conclude
        <5>2. Discrepancies(rows, Holds(b, a)) \subseteq Discrepancies(Rows(a), Holds(b, a))
          BY DEF Discrepancies, Rows
        <5> QED
          BY <5>1, <5>2
      <4> QED
        BY <2>2, <4>1, <4>2
    <3> QED
      BY <2>1, <3>1, <3>2, DifferencesHaveACause DEF IInv, Unpaired
  <2>3. ASSUME NEW q \in Queries, FundsAnswer(q), ~query[q].failed
        PROVE  Unpaired(query[q].acct, "live")
    <3>1. PICK differing \in LateDiscrepancies(query[q], query[q].held) : differing # {}
      BY <2>1, <2>3 DEF FundsAnswer, Conclude
    <3>2. differing \subseteq query[q].open \cup Open(query[q].held)
      BY <3>1 DEF LateDiscrepancies
    <3>3. query[q].open \cup Open(query[q].held) \subseteq Symbols
      BY <2>1 DEF IInv, Kept, QueryStates, Open
    <3>4. \A s \in query[q].open \cup Open(query[q].held) : ~Paired(query[q].acct, s, "live")
      BY <2>1, <2>3 DEF FundsAnswer, IInv, QueriesHonest
    <3> QED
      BY <3>1, <3>2, <3>3, <3>4 DEF Unpaired
  <2> QED
    BY <2>2, <2>3
<1> QED
  BY <1>1, BooksAndHaltsInvariant, PTL DEF Spec, HaltsHaveACause

(* A row no sync has replaced is the net of its account's own booked fills,  *)
(* and no row shares a paper position that another account owns.            *)
THEOREM UnsyncedRowsAreOwn == Spec => []UnsyncedRowsFollowFills
<1>1. IInv => UnsyncedRowsFollowFills
  <2>1. SUFFICES ASSUME IInv, NEW a \in Accounts, NEW s \in Symbols
        PROVE  /\ <<a, s>> \notin synced => Signed(Row(a, s)) = ordered[a][s]
               /\ object[a][s] = "paper" => <<a, s>> \in synced /\ paper[s].owner = a
    BY DEF UnsyncedRowsFollowFills
  <2>2. /\ object[a][s] = "paper" => <<a, s>> \in synced /\ paper[s].owner = a
        /\ \A k \in Simulated : object[a][s] = k => <<a, s>> \in synced
        /\ object[a][s] \in {"own"} \cup Filling
    BY <2>1 DEF IInv, BookInv, Sharing, BookTypes, PerSymbol
  <2>3. <<a, s>> \notin synced => Signed(row[a][s]) = ordered[a][s]
    BY <2>1 DEF IInv, BookInv, UnsyncedRows
  <2> QED
    BY <2>2, <2>3 DEF Row, Filling
<1> QED
  BY <1>1, BooksAndHaltsInvariant, PTL
=============================================================================
