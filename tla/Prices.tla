------------------------------- MODULE Prices -------------------------------
(***************************************************************************)
(* The prices map of QuoteGenerator: how the tickers file becomes its      *)
(* keys and the ticker threads (new_from_file, new, start), and            *)
(* generate_quote, which reads a price under one lock and writes its       *)
(* successor under another.  Prices are natural numbers of an arbitrary    *)
(* unit; volumes, which nothing depends on, are left out.                  *)
(***************************************************************************)
EXTENDS Integers, Sequences, Text

CONSTANTS Lines,              \* the lines of the tickers file
          MIN_PRICE, MAX_START_PRICE, ChangeNum, ChangeDen,
          MaxPrice,           \* bound: no price walks above it
          MaxTime,            \* bound: the latest time the clock shows
          NoQuote             \* a ticker that has not been quoted yet

ASSUME PriceAssumption ==
    /\ Lines \in Seq(Seq(STRING))
    /\ MIN_PRICE \in Nat \ {0}
    /\ MAX_START_PRICE \in Nat /\ MIN_PRICE < MAX_START_PRICE
    /\ ChangeNum \in Nat /\ ChangeDen \in Nat \ {0}
    /\ MaxPrice \in Nat /\ MaxPrice >= MAX_START_PRICE
    /\ MaxTime \in Nat
    /\ NoQuote \notin [price : Nat, timestamp : Nat]

\* The name on a line of the file.
Ticker(i) == Trim(Lines[i])

\* Variant: a thread for every line that holds a name.
ThreadPerLine == {i \in DOMAIN Lines : Ticker(i) # <<>>}

\* start spawns one thread for each key of the map.  A name that stands on
\* several lines is one key, here the first of these lines.
Threads == {i \in DOMAIN Lines :
              /\ Ticker(i) # <<>>
              /\ \A j \in DOMAIN Lines : Ticker(j) = Ticker(i) => i <= j}

Tickers == {Ticker(i) : i \in DOMAIN Lines} \ {<<>>}

Data == [price : MIN_PRICE..MaxPrice, timestamp : 0..MaxTime]

VARIABLES prices,             \* price of each ticker, and last_change
          pc,                 \* where in generate_quote a thread is
          new,                \* its locals new_price and timestamp
          quote               \* the last quote generate_quote returned

vars == <<prices, pc, new, quote>>

\* What the change limit allows, before the floor.
Changes(p) == {q \in 0..MaxPrice : /\ (q - p) * ChangeDen <= ChangeNum * p
                                   /\ (p - q) * ChangeDen <= ChangeNum * p}

\* Variant: the new price may fall through the floor.
NewPricesNoFloor(p) == Changes(p)

\* generate_new_price: any price the change limit allows, raised to the floor.
NewPrices(p) == {IF q < MIN_PRICE THEN MIN_PRICE ELSE q : q \in Changes(p)}

\* generate_initial_price
StartPrices == MIN_PRICE..(MAX_START_PRICE - 1)

Init == /\ prices \in [Tickers -> [price : StartPrices, timestamp : {0}]]
        /\ pc = [i \in Threads |-> "read"]
        /\ new = [i \in Threads |-> NoQuote]
        /\ quote = [t \in Tickers |-> NoQuote]

\* The new price is drawn while prices is read-locked, and the time is taken
\* after the lock is gone.  The clock shows any time: it may be set back.
ReadPrice(i) ==
    /\ pc[i] = "read"
    /\ \E p \in NewPrices(prices[Ticker(i)].price), now \in 0..MaxTime :
          new' = [new EXCEPT ![i] = [price |-> p, timestamp |-> now]]
    /\ pc' = [pc EXCEPT ![i] = "write"]
    /\ UNCHANGED <<prices, quote>>

\* A clock before the epoch: unwrap panics, and the ticker has no thread left.
ClockPanics(i) ==
    /\ pc[i] = "read"
    /\ pc' = [pc EXCEPT ![i] = "dead"]
    /\ UNCHANGED <<prices, new, quote>>

\* Variant: the time of the change is not stored.
WriteOnlyPrice(i) ==
    /\ pc[i] = "write"
    /\ prices' = [prices EXCEPT ![Ticker(i)].price = new[i].price]
    /\ pc' = [pc EXCEPT ![i] = "return"]
    /\ UNCHANGED <<new, quote>>

\* Price and time are stored under the write lock.
WritePrice(i) ==
    /\ pc[i] = "write"
    /\ prices' = [prices EXCEPT ![Ticker(i)] = new[i]]
    /\ pc' = [pc EXCEPT ![i] = "return"]
    /\ UNCHANGED <<new, quote>>

\* The quote is handed to the ticker thread's loop.
ReturnQuote(i) ==
    /\ pc[i] = "return"
    /\ quote' = [quote EXCEPT ![Ticker(i)] = new[i]]
    /\ new' = [new EXCEPT ![i] = NoQuote]
    /\ pc' = [pc EXCEPT ![i] = "read"]
    /\ UNCHANGED prices

Next == \E i \in Threads : \/ ReadPrice(i) \/ ClockPanics(i)
                           \/ WritePrice(i) \/ ReturnQuote(i)

Spec == Init /\ [][Next]_vars

-----------------------------------------------------------------------------
\* Every stored, drawn and quoted price is at least MIN_PRICE: the maximum in
\* generate_new_price holds prices up whatever the walk does.
TypeOK == /\ prices \in [Tickers -> Data]
          /\ pc \in [Threads -> {"read", "write", "return", "dead"}]
          /\ new \in [Threads -> Data \cup {NoQuote}]
          /\ quote \in [Tickers -> Data \cup {NoQuote}]

\* Between two calls of generate_quote the map holds what was last quoted, the
\* price as well as its time: no thread's update is lost or overtaken although
\* the price is read and written under two locks.
StoredIsQuoted ==
    \A i \in Threads :
        LET t == Ticker(i)
        IN  pc[i] # "return" /\ quote[t] # NoQuote => prices[t] = quote[t]

\* The quotes of a ticker are a walk within the change limit: two quotes in
\* succession differ by at most MAX_CHANGE_PERCENT, at the floor too, and
\* however the threads' reads and writes interleave.
PW == INSTANCE PriceWalk

PriceWalkSpec == PW!Spec
=============================================================================
