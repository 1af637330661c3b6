---------------------------- MODULE PricesProofs ----------------------------
(***************************************************************************)
(* Proofs about Prices: every tickers file, every floor, change limit and  *)
(* starting price, any number of ticker threads.                           *)
(***************************************************************************)
EXTENDS Prices, TLAPS

\* A price that follows the last quote of t, or a starting price.
Follows(t, p) ==
    IF quote[t] # NoQuote THEN PW!Close(quote[t].price, p)
    ELSE \E start \in StartPrices : PW!Close(start, p)

\* The inductive invariant of one thread.  What it has drawn was drawn from
\* the price that is still stored, since no other thread writes its ticker;
\* and what it has stored and not yet returned follows the last quote.
ThreadInv(i) ==
    LET t == Ticker(i)
    IN  /\ pc[i] = "write" => /\ new[i] \in Data
                              /\ new[i].price \in NewPrices(prices[t].price)
        /\ pc[i] = "return" => /\ new[i] \in Data
                               /\ prices[t] = new[i]
                               /\ Follows(t, new[i].price)
        /\ pc[i] # "return" =>
              IF quote[t] # NoQuote THEN prices[t] = quote[t]
              ELSE prices[t].price \in StartPrices

PricesInv == TypeOK /\ \A i \in Threads : ThreadInv(i)

\* A drawn price lies between the floor and the bound, and within the change
\* limit of the price it was drawn from: raising it to the floor brings it
\* nearer, because the old price was not below the floor either.
LEMMA NewPricesClose ==
    ASSUME NEW p \in MIN_PRICE..MaxPrice, NEW q \in NewPrices(p)
    PROVE  q \in MIN_PRICE..MaxPrice /\ PW!Close(p, q)
<1> USE PriceAssumption
<1>1. PICK r \in 0..MaxPrice : /\ (r - p) * ChangeDen <= ChangeNum * p
                               /\ (p - r) * ChangeDen <= ChangeNum * p
                               /\ q = IF r < MIN_PRICE THEN MIN_PRICE ELSE r
  BY DEF NewPrices, Changes
<1>2. CASE r >= MIN_PRICE
  BY <1>1, <1>2 DEF PW!Close
<1>3. CASE r < MIN_PRICE
  <2>1. q = MIN_PRICE /\ q \in Int /\ r \in Int /\ p \in Int /\ q <= p /\ r < q
    BY <1>1, <1>3
  <2>2. \A a, b, d \in Int : d >= 0 /\ a <= b => a * d <= b * d
    OBVIOUS
  <2>3. (p - q) * ChangeDen <= (p - r) * ChangeDen
    BY <2>1, <2>2
  <2>4. (q - p) * ChangeDen <= 0 * ChangeDen
    BY <2>1, <2>2
  <2>5. ChangeNum * p >= 0 /\ 0 * ChangeDen = 0
    BY <2>1
  <2>6. /\ (p - q) * ChangeDen \in Int /\ (p - r) * ChangeDen \in Int
        /\ (q - p) * ChangeDen \in Int /\ ChangeNum * p \in Int
    BY <2>1
  <2> QED
    BY <1>1, <2>1, <2>3, <2>4, <2>5, <2>6 DEF PW!Close
<1> QED
  BY <1>1, <1>2, <1>3

\* No two threads have the same ticker: start spawns one for each key.
LEMMA OneThreadPerTicker ==
    ASSUME NEW i \in Threads, NEW j \in Threads, Ticker(i) = Ticker(j)
    PROVE  i = j
BY PriceAssumption DEF Threads

\* The ticker of a thread.
LEMMA ThreadTicker ==
    ASSUME NEW i \in Threads
    PROVE  Ticker(i) \in Tickers
BY DEF Threads, Tickers

\* The invariant holds when the generator is built.
LEMMA InitPrices == Init => PricesInv
<1> SUFFICES ASSUME Init PROVE PricesInv
  OBVIOUS
<1> USE PriceAssumption DEF StartPrices
<1>1. TypeOK
  BY DEF Init, TypeOK, Data
<1>2. ASSUME NEW i \in Threads PROVE ThreadInv(i)
  BY ThreadTicker DEF Init, ThreadInv
<1> QED
  BY <1>1, <1>2 DEF PricesInv

\* A step of thread i leaves the invariants of the others alone: it changes
\* only its own locals and the map entry of its own ticker.
LEMMA OthersUndisturbed ==
    ASSUME PricesInv, NEW i \in Threads, NEW j \in Threads, i # j,
           pc'[j] = pc[j], new'[j] = new[j],
           \A t \in Tickers \ {Ticker(i)} :
              prices'[t] = prices[t] /\ quote'[t] = quote[t]
    PROVE  ThreadInv(j)'
<1>1. Ticker(j) \in Tickers \ {Ticker(i)}
  BY OneThreadPerTicker, ThreadTicker
<1>2. /\ prices'[Ticker(j)] = prices[Ticker(j)]
      /\ quote'[Ticker(j)] = quote[Ticker(j)]
  BY <1>1
<1>3. ThreadInv(j)
  BY DEF PricesInv
<1> QED
  BY <1>2, <1>3 DEF ThreadInv, Follows, PW!Close

\* Every step keeps it.
LEMMA NextPrices == PricesInv /\ [Next]_vars => PricesInv'
<1> SUFFICES ASSUME PricesInv, [Next]_vars PROVE PricesInv'
  OBVIOUS
<1> USE PriceAssumption
<1> USE DEF PricesInv
<1>1. ASSUME NEW i \in Threads, ReadPrice(i) PROVE PricesInv'
  <2> DEFINE t == Ticker(i)
  <2>1. PICK p \in NewPrices(prices[t].price), now \in 0..MaxTime :
           new' = [new EXCEPT ![i] = [price |-> p, timestamp |-> now]]
    BY <1>1 DEF ReadPrice
  <2>2. prices[t].price \in MIN_PRICE..MaxPrice
    BY ThreadTicker DEF TypeOK, Data
  <2>3. p \in MIN_PRICE..MaxPrice
    BY <2>1, <2>2, NewPricesClose
  <2>4. [price |-> p, timestamp |-> now] \in Data
    BY <2>1, <2>3 DEF Data
  <2>5. TypeOK'
    BY <1>1, <2>1, <2>4 DEF ReadPrice, TypeOK
  <2>6. ThreadInv(i)'
    BY <1>1, <2>1, <2>4, ThreadInv(i) DEF ReadPrice, TypeOK, ThreadInv
  <2>7. ASSUME NEW j \in Threads, i # j PROVE ThreadInv(j)'
    BY <1>1, <2>1, <2>7, OthersUndisturbed DEF ReadPrice, TypeOK
  <2> QED
    BY <2>5, <2>6, <2>7
<1>2. ASSUME NEW i \in Threads, ClockPanics(i) PROVE PricesInv'
  <2>1. TypeOK'
    BY <1>2 DEF ClockPanics, TypeOK
  <2>2. ThreadInv(i)'
    BY <1>2, ThreadInv(i) DEF ClockPanics, TypeOK, ThreadInv
  <2>3. ASSUME NEW j \in Threads, i # j PROVE ThreadInv(j)'
    BY <1>2, <2>3, OthersUndisturbed DEF ClockPanics, TypeOK
  <2> QED
    BY <2>1, <2>2, <2>3
<1>3. ASSUME NEW i \in Threads, WritePrice(i) PROVE PricesInv'
  <2> DEFINE t == Ticker(i)
  <2>1. /\ new[i] \in Data
        /\ new[i].price \in NewPrices(prices[t].price)
        /\ IF quote[t] # NoQuote THEN prices[t] = quote[t]
           ELSE prices[t].price \in StartPrices
    BY <1>3, ThreadInv(i) DEF WritePrice, ThreadInv
  <2>2. prices[t].price \in MIN_PRICE..MaxPrice
    BY ThreadTicker DEF TypeOK, Data
  <2>3. Follows(t, new[i].price)
    BY <2>1, <2>2, NewPricesClose DEF Follows
  <2>4. TypeOK'
    BY <1>3, <2>1, ThreadTicker DEF WritePrice, TypeOK
  <2>5. ThreadInv(i)'
    BY <1>3, <2>1, <2>3, ThreadTicker
       DEF WritePrice, TypeOK, ThreadInv, Follows, PW!Close
  <2>6. ASSUME NEW j \in Threads, i # j PROVE ThreadInv(j)'
    BY <1>3, <2>6, OthersUndisturbed DEF WritePrice, TypeOK
  <2> QED
    BY <2>4, <2>5, <2>6
<1>4. ASSUME NEW i \in Threads, ReturnQuote(i) PROVE PricesInv'
  <2>1. new[i] \in Data /\ prices[Ticker(i)] = new[i]
    BY <1>4, ThreadInv(i) DEF ReturnQuote, ThreadInv
  <2>2. new[i] # NoQuote
    BY <2>1 DEF Data
  <2>3. TypeOK'
    BY <1>4, <2>1, ThreadTicker DEF ReturnQuote, TypeOK
  <2>4. ThreadInv(i)'
    BY <1>4, <2>1, <2>2, ThreadTicker DEF ReturnQuote, TypeOK, ThreadInv
  <2>5. ASSUME NEW j \in Threads, i # j PROVE ThreadInv(j)'
    BY <1>4, <2>5, OthersUndisturbed DEF ReturnQuote, TypeOK
  <2> QED
    BY <2>3, <2>4, <2>5
<1>5. CASE UNCHANGED vars
  BY <1>5 DEF vars, TypeOK, ThreadInv, Follows, PW!Close
<1> QED
  BY <1>1, <1>2, <1>3, <1>4, <1>5 DEF Next

\* It holds in every reachable state.
LEMMA PricesInvariant == Spec => []PricesInv
BY InitPrices, NextPrices, PTL DEF Spec

\* Every price is at least MIN_PRICE, in the map, in a thread and in a quote.
THEOREM PricesTypeCorrect == Spec => []TypeOK
<1>1. PricesInv => TypeOK
  BY DEF PricesInv
<1> QED
  BY <1>1, PricesInvariant, PTL

\* Between two calls of generate_quote the map holds the last quote.
THEOREM StoredIsQuotedCorrect == Spec => []StoredIsQuoted
<1>1. PricesInv => StoredIsQuoted
  BY DEF PricesInv, ThreadInv, StoredIsQuoted
<1> QED
  BY <1>1, PricesInvariant, PTL

\* generate_quote implements the bounded walk.
THEOREM PriceWalkCorrect == Spec => PriceWalkSpec
<1>1. Init => PW!Init
  BY DEF Init, PW!Init
<1>2. PricesInv /\ [Next]_vars => [PW!Next]_quote
  <2> SUFFICES ASSUME PricesInv, NEW i \in Threads, ReturnQuote(i)
               PROVE  PW!Quote(Ticker(i))
    BY ThreadTicker
       DEF Next, vars, ReadPrice, ClockPanics, WritePrice, PW!Next
  <2> DEFINE t == Ticker(i)
  <2>1. /\ new[i] \in Data
        /\ Follows(t, new[i].price)
        /\ quote' = [quote EXCEPT ![t] = new[i]]
        /\ quote'[t] = new[i]
    BY ThreadTicker DEF PricesInv, ThreadInv, ReturnQuote, TypeOK
  <2>2. new[i] \in [price : Nat, timestamp : Nat] /\ new[i].price >= MIN_PRICE
    BY <2>1, PriceAssumption DEF Data
  <2> QED
    BY <2>1, <2>2 DEF PW!Quote, Follows, StartPrices
<1> QED
  BY <1>1, <1>2, PricesInvariant, PTL DEF Spec, PW!Spec, PriceWalkSpec
=============================================================================
