--------------------------------- MODULE Fifo ---------------------------------
(***************************************************************************)
(* The cost basis of one symbol from its stored trades                     *)
(* (app/utils/fifo.py, compute_fifo_cost_basis): each trade first closes   *)
(* the oldest open lots of the opposite sign, and what remains of it opens *)
(* a lot.  Quantities are whole shares, a contract is Multiplier of them,  *)
(* and a record of a trade is known by its day, side, quantity and price.  *)
(*                                                                         *)
(* Next to the program's lots the module keeps the holding as a queue of   *)
(* single shares, to which every fill of the market applies share by       *)
(* share: what first in, first out means.  The program goes on when the    *)
(* holding has come as far as it has.                                      *)
(***************************************************************************)
EXTENDS Integers, SequencesExt

CONSTANTS
    Days, Quantities, Prices,
    Multiplier,   \* OPTION_MULTIPLIER
    MaxTrades     \* bound on the number of records

VARIABLES
    option,       \* whether the symbol is an option
    day,          \* records come in the order of their days
    count,
    seen,         \* the records dealt with
    lots,         \* open_positions
    realized,     \* realized_pnl
    remaining,    \* what is left of the trade at hand, 0 between trades
    price,        \* of the trade at hand
    owed,         \* what the holding has yet to see of it
    shares,       \* the holding, share by share
    gain,         \* what the closed shares have earned
    odd           \* a fill was the double of another, or had no price

loop == <<lots, realized, remaining>>
holding == <<owed, shares, gain>>
record == <<option, day, count, seen, price, odd>>
vars == <<loop, holding, record>>

Abs(n) == IF n < 0 THEN -n ELSE n
Sign(n) == IF n < 0 THEN -1 ELSE 1
Least(m, n) == IF m < n THEN m ELSE n

Init ==
    /\ option \in BOOLEAN
    /\ day \in Days /\ count = 0
    /\ seen = {} /\ lots = <<>> /\ realized = 0 /\ remaining = 0 /\ price = 0
    /\ owed = 0 /\ shares = <<>> /\ gain = 0 /\ odd = FALSE

-----------------------------------------------------------------------------
(* One share more of the trade at hand: it closes the oldest share of the  *)
(* other sign, or is held; a stock is not sold short.                      *)
TradeShare ==
    /\ owed # remaining
    /\ owed' = owed - Sign(owed)
    /\ IF shares # <<>> /\ Head(shares).sign # Sign(owed)
       THEN /\ shares' = Tail(shares)
            /\ gain' = gain + Head(shares).sign * (price - Head(shares).price)
       ELSE /\ shares' = IF option \/ owed > 0
                         THEN Append(shares, [sign |-> Sign(owed), price |-> price]) ELSE shares
            /\ UNCHANGED gain
    /\ UNCHANGED <<loop, record>>

(* Any side but BUY is a sale, whatever the sign of its quantity.          *)
Signed(t) ==
    LET quantity == t.quantity * (IF option THEN Multiplier ELSE 1)
    IN  IF t.side = "BUY" THEN quantity ELSE -Abs(quantity)

(* The next record.  One like it has been seen: it is the same fill, once  *)
(* more, or a double of it; both are left out.  So is one without a price. *)
Take(t, double) ==
    /\ remaining = 0 /\ owed = 0 /\ count < MaxTrades /\ t.day >= day
    /\ double => t \in seen
    /\ day' = t.day /\ count' = count + 1 /\ seen' = seen \union {t} /\ price' = t.price
    /\ remaining' = IF t \in seen \/ t.price <= 0 THEN 0 ELSE Signed(t)
    /\ owed' = IF t \in seen /\ ~double THEN 0 ELSE Signed(t)
    /\ odd' = (odd \/ double \/ t.price <= 0)
    /\ UNCHANGED <<option, lots, realized, shares, gain>>

(* Mutant of Oldest: last in, first out.                                   *)
Oldest_Newest == Len(lots)
Oldest == 1

Closes == lots # <<>> /\ Sign(lots[Oldest].quantity) # Sign(remaining)

(* One turn of the inner loop.                                             *)
Close ==
    /\ remaining # 0 /\ owed = remaining /\ Closes
    /\ LET lot == lots[Oldest]
           n == Least(Abs(remaining), Abs(lot.quantity))
       IN  /\ realized' = realized + n * Sign(lot.quantity) * (price - lot.price)
           /\ remaining' = remaining - n * Sign(remaining)
           /\ lots' = IF n = Abs(lot.quantity) THEN RemoveAt(lots, Oldest)
                      ELSE [lots EXCEPT ![Oldest].quantity = @ - n * Sign(@)]
    /\ UNCHANGED <<holding, record>>

Open ==
    /\ remaining # 0 /\ owed = remaining /\ ~Closes
    /\ lots' = IF option \/ remaining > 0
               THEN Append(lots, [quantity |-> remaining, price |-> price]) ELSE lots
    /\ remaining' = 0
    /\ UNCHANGED <<realized, holding, record>>

Record == [day : Days, side : {"BUY", "SELL"}, quantity : Quantities, price : Prices]

Next ==
    \/ \E t \in Record, double \in BOOLEAN : Take(t, double)
    \/ Close \/ Open \/ TradeShare

Spec == Init /\ [][Next]_vars

-----------------------------------------------------------------------------
(* What the caller gets: nothing of a symbol whose lots cost nothing.      *)
Cost == FoldLeft(LAMBDA c, lot : c + Abs(lot.quantity) * lot.price, 0, lots)
Answer == IF Cost > 0 THEN {realized} ELSE {}

(* How many shares there are in the first j lots.                          *)
UpTo(ls) ==
    LET upTo[j \in 0 .. Len(ls)] == IF j = 0 THEN 0 ELSE upTo[j - 1] + Abs(ls[j].quantity)
    IN  upTo

(* Between two trades the lots are the shares that are held, oldest first, *)
(* and the realized result is what the closed ones earned, for longs and   *)
(* shorts, partial closings and positions that change their sign, if no    *)
(* fill was the double of another and all had a price (fifo.py:48-111).    *)
LotsAreTheHolding ==
    remaining = 0 /\ owed = 0 /\ ~odd =>
        /\ realized = gain
        /\ Len(shares) = UpTo(lots)[Len(lots)]
        /\ \A j \in 1 .. Len(lots) : \A i \in UpTo(lots)[j - 1] + 1 .. UpTo(lots)[j] :
              shares[i] = [sign |-> Sign(lots[j].quantity), price |-> lots[j].price]

(* "realized_pnl: cumulative realized PnL" (fifo.py:37): what was realized *)
(* is in the answer.  Not so when the position is closed (fifo.py:117).    *)
RealizedIsAnswered == remaining = 0 /\ owed = 0 /\ ~odd /\ gain # 0 => gain \in Answer
=============================================================================
