------------------------------ MODULE ResearchProofs ------------------------------
(***************************************************************************)
(* What a backtest never does, for any history, page size, prices, fees,   *)
(* slippage and leverage.  The inductive invariant is TypeOK with FetchInv *)
(* (how far back the pages reach), BookInv (the signs of what is held) and *)
(* AccountInv (the money accounted for).                                   *)
(***************************************************************************)
EXTENDS Research, FiniteSetTheorems, SequenceTheorems, TLAPS

Inv == TypeOK /\ FetchInv /\ BookInv /\ AccountInv

-----------------------------------------------------------------------------
(* Whole numbers                                                            *)

LEMMA Quotient ==
    ASSUME NEW n \in Nat, NEW d \in Nat \ {0}
    PROVE  n \div d \in Nat /\ (n \div d) * d <= n /\ n \div d <= n
  <1>1. n \div d \in Nat /\ (n \div d) * d <= n
    OBVIOUS
  <1>2. n \div d <= (n \div d) * d
    <2>. DEFINE q == n \div d
    <2>1. q \in Nat
      BY <1>1
    <2>. HIDE DEF q
    <2>2. q <= q * d
      BY <2>1
    <2>. QED
      BY <2>2 DEF q
  <1>3. \A a, b, c \in Int : a <= b /\ b <= c => a <= c
    OBVIOUS
  <1>. QED
    BY <1>1, <1>2, <1>3

LEMMA PartOf ==
    ASSUME NEW n \in Nat \ {0}, NEW d \in Nat \ {0, 1}
    PROVE  n \div d \in Nat /\ n \div d < n
  <1>. DEFINE q == n \div d
  <1>1. q \in Nat /\ q * d <= n
    BY Quotient
  <1>. HIDE DEF q
  <1>2. q * 2 <= q * d
    BY <1>1
  <1>3. q < n
    BY <1>1, <1>2
  <1>. QED
    BY <1>1, <1>3 DEF q

LEMMA AgainstTheSign ==
    ASSUME NEW u \in Int, NEW d \in Int, (u >= 0 /\ d <= 0) \/ (u <= 0 /\ d >= 0)
    PROVE  u * d \in Int /\ u * d <= 0
  OBVIOUS

LEMMA WithTheSign ==
    ASSUME NEW u \in Int, NEW p \in Nat, NEW e \in Nat
    PROVE  /\ u * p \in Int /\ u * (p - e) \in Int /\ u * (p - e) = u * p - u * e
           /\ u >= 0 => u * p >= 0
           /\ Abs(u) \in Nat /\ Abs(u) * p \in Nat
           /\ u >= 0 => Abs(u) = u
  <1>1. Abs(u) \in Nat /\ (u >= 0 => Abs(u) = u)
    BY DEF Abs
  <1>2. u * p \in Int /\ u * (p - e) \in Int /\ u * (p - e) = u * p - u * e
    OBVIOUS
  <1>3. u >= 0 => u * p >= 0
    OBVIOUS
  <1>4. \A n \in Nat : n * p \in Nat
    OBVIOUS
  <1>. QED
    BY <1>1, <1>2, <1>3, <1>4

\* A fee is never negative and never more than what it is taken from.
LEMMA FeeBound ==
    ASSUME NEW n \in Nat
    PROVE  Fee(n) \in Nat /\ Fee(n) <= n
  BY Quotient, MoneyAssumption DEF Fee

\* Slippage moves the price of a fill towards the new side, and never to 0.
LEMMA FillPrice ==
    ASSUME NEW to \in {-1, 0, 1}, NEW open \in Prices
    PROVE  /\ ExecutionPrice(to, open) \in Nat \ {0}
           /\ to = 0 => ExecutionPrice(to, open) = open
           /\ to = 1 => ExecutionPrice(to, open) >= open
           /\ to = -1 => ExecutionPrice(to, open) <= open
  <1>. DEFINE slip == open \div SlipDen
  <1>1. open \in Nat \ {0} /\ slip \in Nat /\ slip < open
    BY PartOf, MoneyAssumption
  <1>2. ExecutionPrice(to, open) = open + to * slip
    BY DEF ExecutionPrice
  <1>. HIDE DEF slip
  <1>3. to * slip = IF to = 0 THEN 0 ELSE IF to = 1 THEN slip ELSE -slip
    BY <1>1
  <1>. QED
    BY <1>1, <1>2, <1>3

-----------------------------------------------------------------------------
(* The pages                                                                *)

\* The candles up to asked, as the list that ends with them.
LEMMA NewestList ==
    ASSUME NEW n \in Nat, NEW a \in Nat, n <= a, a <= MaxTip, MaxTip \in Nat
    PROVE  LET s == [i \in 1..n |-> a - n + i] IN s \in Seq(1..MaxTip) /\ Len(s) = n
  <1>. DEFINE s == [i \in 1..n |-> a - n + i]
  <1>1. \A i \in 1..n : a - n + i \in 1..MaxTip
    OBVIOUS
  <1>2. s \in [1..n -> 1..MaxTip]
    BY <1>1
  <1>3. s \in Seq(1..MaxTip) /\ Len(s) = n
    BY <1>2
  <1>. QED
    BY <1>3

\* A page ending where the list begins makes the list longer.
LEMMA JoinPages ==
    ASSUME NEW n \in Nat, NEW a \in Nat, NEW c \in Nat, c + n <= a
    PROVE  [i \in 1..c |-> (a - n) - c + i] \o [i \in 1..n |-> a - n + i]
             = [i \in 1..(c + n) |-> a - (c + n) + i]
  <1>. DEFINE s == [i \in 1..c |-> (a - n) - c + i]
              t == [i \in 1..n |-> a - n + i]
              u == [i \in 1..(c + n) |-> a - (c + n) + i]
  <1>1. s \in Seq(Int) /\ t \in Seq(Int) /\ u \in Seq(Int)
    OBVIOUS
  <1>2. Len(s) = c /\ Len(t) = n /\ Len(u) = c + n
    OBVIOUS
  <1>3. \A i \in 1..c : s[i] = (a - n) - c + i
    OBVIOUS
  <1>4. \A i \in 1..n : t[i] = a - n + i
    OBVIOUS
  <1>5. \A i \in 1..(c + n) : u[i] = a - (c + n) + i
    OBVIOUS
  <1>. HIDE DEF s, t, u
  <1>6. s \o t \in Seq(Int) /\ Len(s \o t) = c + n
    BY <1>1, <1>2, ConcatProperties
  <1>7. \A i \in 1..(c + n) : (s \o t)[i] = u[i]
    <2>. TAKE i \in 1..(c + n)
    <2>0. i \in Nat /\ (i <= c \/ i > c)
      OBVIOUS
    <2>1. CASE i <= c
      BY <2>1, <1>1, <1>2, <1>3, <1>5, ConcatProperties
    <2>2. CASE i > c
      <3>1. i - c \in 1..n /\ (s \o t)[i] = t[i - c]
        BY <2>2, <1>1, <1>2, ConcatProperties
      <3>. QED
        BY <3>1, <1>4, <1>5
    <2>. QED
      BY <2>0, <2>1, <2>2
  <1>8. s \o t = u
    BY <1>1, <1>2, <1>6, <1>7, SeqEqual
  <1>. QED
    BY <1>8 DEF s, t, u

\* Nothing is removed from a list without one twice.
LEMMA DedupeKeeps ==
    ASSUME NEW n \in Nat, NEW s \in [1..n -> Int],
           \A i, j \in 1..n : i # j => s[i] # s[j]
    PROVE  Dedupe(s) = s
  <1>. DEFINE firsts == {i \in DOMAIN s : \A j \in 1..(i - 1) : s[j] # s[i]}
              Nth(k) == CHOOSE i \in firsts : Cardinality({j \in firsts : j <= i}) = k
  <1>1. firsts = 1..n
    OBVIOUS
  <1>2. \A i \in 1..n : Cardinality({j \in firsts : j <= i}) = i
    <2>. TAKE i \in 1..n
    <2>1. {j \in firsts : j <= i} = 1..i
      BY <1>1
    <2>2. Cardinality(1..i) = i
      BY FS_Interval
    <2>. QED
      BY <2>1, <2>2
  <1>3. Cardinality(firsts) = n
    <2>1. Cardinality(1..n) = n
      BY FS_Interval
    <2>. QED
      BY <1>1, <2>1
  <1>4. Dedupe(s) = [k \in 1..Cardinality(firsts) |-> s[Nth(k)]]
    BY DEF Dedupe
  <1>5. \A k \in 1..n : Nth(k) = k
    <2>. HIDE DEF firsts
    <2>. QED
      BY <1>1, <1>2
  <1>. HIDE DEF firsts, Nth
  <1>. QED
    BY <1>3, <1>4, <1>5

LEMMA LastKeeps ==
    ASSUME NEW s \in Seq(Int), NEW n \in Nat, Len(s) <= n
    PROVE  LastOf(s, n) = s
  <1>1. Lesser(n, Len(s)) = Len(s)
    BY DEF Lesser
  <1>2. SubSeq(s, 1, Len(s)) = s
    BY SubSeqFull
  <1>. QED
    BY <1>1, <1>2 DEF LastOf

LEMMA PageLength ==
    ASSUME NEW a \in Nat, NEW b \in Nat
    PROVE  Lesser(a, b) \in Nat /\ Lesser(a, b) <= a /\ Lesser(a, b) <= b
           /\ (Lesser(a, b) = a \/ Lesser(a, b) = b)
  BY DEF Lesser

\* What a page adds: the candles before the ones there, down to the first of all.
LEMMA PageReaches ==
    ASSUME TypeOK, FetchInv, phase = "fetch"
    PROVE  LET limit == Lesser(PageLimit, remaining)
               left  == asked - Len(candles)
               count == Lesser(limit, left)
               page  == GetKlines(limit, end)
           IN  /\ limit \in Nat \ {0} /\ left \in Nat /\ count \in Nat
               /\ count <= limit /\ count <= left /\ (count = limit \/ count = left)
               /\ page = [i \in 1..count |-> left - count + i] /\ Len(page) = count
               /\ page \o candles = Newest(count + Len(candles))
  <1>. DEFINE limit == Lesser(PageLimit, remaining)
              n     == Len(candles)
              left  == asked - n
              count == Lesser(limit, left)
              page  == GetKlines(limit, end)
  <1>1. n \in Nat /\ asked \in Nat /\ tip \in Nat /\ end \in Nat /\ MaxTip \in Nat
        /\ asked <= tip /\ tip <= MaxTip /\ n <= asked
        /\ remaining \in Nat \ {0} /\ PageLimit \in Nat \ {0}
    BY PagingAssumption DEF TypeOK, FetchInv
  <1>2. left \in Nat
    BY <1>1
  <1>3. limit \in Nat \ {0}
    BY <1>1 DEF Lesser
  <1>4. count \in Nat /\ count <= limit /\ count <= left /\ (count = limit \/ count = left)
    <2>. HIDE DEF limit, left
    <2>. QED
      BY <1>2, <1>3, PageLength
  <1>5. Lesser(end, tip) = left
    <2>1. CASE candles = <<>>
      BY <2>1, <1>1 DEF FetchInv, Lesser
    <2>2. CASE candles # <<>>
      BY <2>2, <1>1 DEF FetchInv, Lesser
    <2>. QED
      BY <2>1, <2>2
  <1>6. page = [i \in 1..count |-> left - count + i]
    <2>. HIDE DEF limit, left
    <2>. QED
      BY <1>5 DEF GetKlines
  <1>7. Len(page) = count
    <2>. HIDE DEF limit, left, page, count
    <2>. QED
      BY <1>4, <1>6
  <1>8. candles = [i \in 1..n |-> asked - n + i]
    BY DEF FetchInv, Newest
  <1>9. page \o candles = Newest(count + n)
    <2>. HIDE DEF limit, page, count, n
    <2>1. count + n <= asked
      BY <1>1, <1>4
    <2>2. [i \in 1..count |-> (asked - n) - count + i] \o [i \in 1..n |-> asked - n + i]
            = [i \in 1..(count + n) |-> asked - (count + n) + i]
      BY <1>1, <1>4, <2>1, JoinPages
    <2>. QED
      BY <1>6, <1>8, <2>2 DEF Newest
  <1>. QED
    BY <1>2, <1>3, <1>4, <1>6, <1>7, <1>9

\* Neither the deduplication nor the cut changes a list that is right.
LEMMA ResultIsNewest ==
    ASSUME NEW n \in Nat, n <= Bars, n <= asked, asked \in 0..MaxTip
    PROVE  LastOf(Dedupe(Newest(n)), Bars) = Newest(n)
  <1>1. Newest(n) \in [1..n -> Int] /\ Newest(n) \in Seq(Int) /\ Len(Newest(n)) = n
    BY DEF Newest
  <1>2. \A i, j \in 1..n : i # j => Newest(n)[i] # Newest(n)[j]
    BY DEF Newest
  <1>3. Dedupe(Newest(n)) = Newest(n)
    BY <1>1, <1>2, DedupeKeeps
  <1>. QED
    BY <1>1, <1>3, LastKeeps, PagingAssumption

LEMMA FetchStep ==
    ASSUME TypeOK, FetchInv, FetchPage
    PROVE  FetchInv' /\ candles' \in Seq(1..MaxTip) /\ remaining' \in 0..Bars
           /\ end' \in 0..MaxTip /\ phase' \in {"fetch", "replay", "short"}
  <1>. DEFINE limit == Lesser(PageLimit, remaining)
              left  == asked - Len(candles)
              c     == Lesser(limit, left)
              page  == GetKlines(limit, end)
              over  == page = <<>> \/ remaining - Len(page) = 0 \/ Len(page) < limit
  <1>1. /\ limit \in Nat \ {0} /\ left \in Nat /\ c \in Nat
        /\ c <= limit /\ c <= left /\ (c = limit \/ c = left)
        /\ page = [i \in 1..c |-> left - c + i] /\ Len(page) = c
        /\ page \o candles = Newest(c + Len(candles))
    BY PageReaches DEF FetchPage
  <1>2. PICK n \in Nat : n = Len(candles)
    BY DEF TypeOK
  <1>3. PICK m \in Nat : m = c + n
    BY <1>1
  <1>4. /\ asked \in Nat /\ asked \in 0..MaxTip /\ tip \in Nat /\ end \in 0..MaxTip
        /\ asked <= tip /\ n <= asked /\ Bars \in Nat \ {0} /\ n < Bars
        /\ remaining = Bars - n /\ limit <= remaining /\ MaxTip \in Nat /\ index = 0
    BY <1>2, PagingAssumption DEF TypeOK, FetchInv, FetchPage, Lesser
  <1>5. /\ remaining' = remaining - Len(page)
        /\ end' = IF page = <<>> THEN end ELSE page[1] - 1
        /\ IF over THEN FetchDone(page \o candles)
                    ELSE candles' = page \o candles /\ phase' = phase
        /\ asked' = asked /\ tip' = tip /\ index' = index /\ phase = "fetch"
    BY DEF FetchPage, configVars
  <1>6. page \in Seq(Int)
    <2>. HIDE DEF limit, c, page, left
    <2>1. \A i \in 1..c : left - c + i \in Int
      BY <1>1
    <2>. QED
      BY <1>1, <2>1
  <1>7. left = asked - n
    BY <1>2
  <1>a. limit \in Nat \ {0} /\ left \in Nat /\ c \in Nat
        /\ c <= limit /\ c <= left /\ (c = limit \/ c = left) /\ Len(page) = c
    BY <1>1
  <1>. HIDE DEF limit, left, c, page, over
  <1>8. page = <<>> <=> c = 0
    BY <1>1, <1>6, EmptySeq
  <1>9. m <= asked /\ m <= Bars /\ remaining' = Bars - m /\ remaining' \in 0..Bars
    BY <1>a, <1>3, <1>4, <1>5, <1>7
  <1>10. c > 0 => end' = asked - m /\ m > 0
    <2>1. c > 0 => page[1] = left - c + 1
      BY <1>1
    <2>2. c > 0 => end' = page[1] - 1
      BY <1>5, <1>8
    <2>3. left - c = asked - m
      BY <1>a, <1>3, <1>4, <1>7
    <2>. HIDE DEF FetchDone
    <2>. QED
      BY <1>a, <1>3, <1>4, <2>1, <2>2, <2>3
  <1>11. end' \in 0..MaxTip
    <2>1. CASE c > 0
      BY <2>1, <1>4, <1>9, <1>10
    <2>2. CASE c = 0
      BY <2>2, <1>4, <1>5, <1>8
    <2>. QED
      BY <1>1, <2>1, <2>2
  <1>12. Newest(m) \in Seq(1..MaxTip) /\ Len(Newest(m)) = m /\ page \o candles = Newest(m)
    <2>1. page \o candles = Newest(m)
      BY <1>1, <1>2, <1>3
    <2>2. m <= asked /\ asked <= MaxTip
      BY <1>4, <1>9
    <2>3. Newest(m) \in Seq(1..MaxTip) /\ Len(Newest(m)) = m
      BY <1>4, <2>2, NewestList DEF Newest
    <2>. QED
      BY <2>1, <2>3
  <1>13. Newest(m)' = Newest(m)
    BY <1>5 DEF Newest
  <1>14. CASE over
    <2>0. c = 0 \/ remaining - c = 0 \/ c < limit
      BY <1>a, <1>8, <1>14 DEF over
    <2>1. Bars <= asked => m = Bars
      BY <1>a, <1>3, <1>4, <1>7, <1>9, <2>0
    <2>2. ~(Bars <= asked) => m = asked
      BY <1>a, <1>3, <1>4, <1>7, <1>9, <2>0
    <2>3. m = Lesser(Bars, asked) /\ m = Lesser(Bars, asked)'
      BY <1>5, <2>1, <2>2 DEF Lesser
    <2>4. candles' = LastOf(Dedupe(Newest(m)), Bars) /\ phase' \in {"replay", "short"}
          /\ (phase' = "replay" => ~(Len(candles') < Required + 1))
      BY <1>5, <1>12, <1>14 DEF FetchDone
    <2>5. candles' = Newest(m)
      BY <1>4, <1>9, <2>4, ResultIsNewest
    <2>6. phase' = "replay" => index' < Len(candles')
      BY <1>4, <1>5, <1>12, <2>4, <2>5, PagingAssumption
    <2>7. candles' = Newest(Lesser(Bars, asked))'
      BY <1>13, <2>3, <2>5 DEF Newest
    <2>8. FetchInv'
      BY <2>4, <2>6, <2>7 DEF FetchInv
    <2>. QED
      BY <1>9, <1>11, <1>12, <2>4, <2>5, <2>8
  <1>15. CASE ~over
    <2>1. candles' = Newest(m) /\ phase' = "fetch" /\ remaining' # 0 /\ c # 0
      BY <1>5, <1>8, <1>12, <1>15 DEF over
    <2>2. Len(candles') = m /\ candles' # <<>>
      BY <1>1, <1>10, <1>12, <2>1, EmptySeq
    <2>3. candles' = Newest(Len(candles))'
      BY <1>13, <2>1, <2>2 DEF Newest
    <2>4. m < Bars /\ end' = asked - m /\ remaining' = Bars - m /\ index' = 0
      <3>1. c > 0 /\ m # Bars
        BY <1>a, <1>4, <1>9, <2>1
      <3>2. index' = 0
        BY <1>4, <1>5
      <3>. QED
        BY <1>4, <1>9, <1>10, <3>1, <3>2
    <2>5. FetchInv'
      BY <1>4, <1>5, <1>9, <2>1, <2>2, <2>3, <2>4 DEF FetchInv
    <2>. QED
      BY <1>9, <1>11, <1>12, <2>1, <2>5
  <1>. QED
    BY <1>14, <1>15

-----------------------------------------------------------------------------
(* The book                                                                 *)

Position == [side : -1..1, units : Int, price : Nat, fees : Nat]
AnyBook == [cash : Int, position : Position, pnl : Int]

\* BookInv and AccountInv of a book.
AccountOf(b) ==
    b.cash + b.position.fees + (IF market = "SPOT" THEN b.position.units * b.position.price ELSE 0)
Sound(b) ==
    /\ b \in AnyBook
    /\ b.position.side = 0 => b.position = Flat
    /\ b.position.side = 1 => b.position.units >= 0 /\ b.position.price > 0
    /\ b.position.side = -1 => b.position.units <= 0 /\ b.position.price > 0
    /\ market = "SPOT" => b.position.side # -1 /\ b.cash >= 0
    /\ AccountOf(b) <= Capital + b.pnl
    /\ market # "SPOT" => AccountOf(b) = Capital + b.pnl
Exact(b) == AccountOf(b) = Capital + b.pnl

LEMMA FlatPosition == Flat \in Position /\ Flat.side = 0 /\ Flat.units = 0 /\ Flat.fees = 0
  BY DEF Flat, Position

LEMMA WorthType ==
    ASSUME NEW b \in AnyBook, NEW p \in Nat
    PROVE  Worth(b, p) \in Int /\ (b.position = Flat => Worth(b, p) = b.cash)
  <1>1. b.cash \in Int /\ b.position.units \in Int /\ b.position.price \in Nat
    BY DEF AnyBook, Position
  <1>2. b.position.units * p \in Int /\ b.position.units * (p - b.position.price) \in Int
    BY <1>1, WithTheSign
  <1>3. b.position = Flat => b.position.units * p = 0 /\ b.position.units * (p - b.position.price) = 0
    BY <1>1, FlatPosition
  <1>. QED
    BY <1>1, <1>2, <1>3 DEF Worth

\* Closing leaves nothing held and the money accounted for, and costs: against the book
\* marked at a price that is no worse for the position than the one it is closed at.
LEMMA CloseIsSound ==
    ASSUME NEW b, Sound(b), b.position.side # 0, NEW p \in Nat \ {0}
    PROVE  /\ Sound(ClosePosition(b, p)) /\ ClosePosition(b, p).position = Flat
           /\ Exact(b) => Exact(ClosePosition(b, p))
           /\ \A open \in Nat :
                 (b.position.side = 1 /\ p <= open) \/ (b.position.side = -1 /\ open <= p)
                   => Worth(ClosePosition(b, p), open) <= Worth(b, open)
  <1>. DEFINE u     == b.position.units
              e     == b.position.price
              gross == Abs(u) * p
              gain  == u * (p - e)
              c     == ClosePosition(b, p)
  <1>1. /\ b.cash \in Int /\ b.pnl \in Int /\ u \in Int /\ e \in Nat /\ b.position.fees \in Nat
        /\ b.position.side \in {-1, 1}
        /\ b.position.side = 1 => u >= 0
        /\ b.position.side = -1 => u <= 0
        /\ market = "SPOT" => b.position.side = 1 /\ b.cash >= 0
    BY DEF Sound, AnyBook, Position
  <1>2. gross \in Nat /\ gain \in Int /\ gain = u * p - u * e /\ (u >= 0 => gross = u * p)
        /\ u * p \in Int /\ u * e \in Int
    <2>. HIDE DEF u, e
    <2>1. u * e \in Int
      BY <1>1
    <2>. QED
      BY <1>1, <2>1, WithTheSign
  <1>3. Fee(gross) \in Nat /\ Fee(gross) <= gross
    BY <1>2, FeeBound
  <1>4. /\ c.cash = b.cash + (IF market = "SPOT" THEN gross ELSE gain) - Fee(gross)
        /\ c.position = Flat
        /\ c.pnl = b.pnl + gain - b.position.fees - Fee(gross)
        /\ c = [cash |-> c.cash, position |-> Flat, pnl |-> c.pnl]
    BY DEF ClosePosition
  <1>5. /\ AccountOf(b) = b.cash + b.position.fees + (IF market = "SPOT" THEN u * e ELSE 0)
        /\ AccountOf(b) <= Capital + b.pnl
        /\ market # "SPOT" => AccountOf(b) = Capital + b.pnl
    BY DEF Sound, AccountOf
  <1>6. \A open \in Nat :
           /\ Worth(b, open) = b.cash + (IF market = "SPOT" THEN u * open ELSE u * (open - e))
           /\ u * open \in Int /\ u * (open - e) \in Int /\ u * (open - e) = u * open - u * e
           /\ u * (p - open) \in Int /\ u * (p - open) = u * p - u * open
    BY <1>1, WithTheSign DEF Worth
  <1>. HIDE DEF u, e, gross, gain, c
  <1>. DEFINE fee == Fee(gross)
  <1>7. fee \in Nat /\ fee <= gross
    BY <1>3
  <1>8. /\ c.cash = b.cash + (IF market = "SPOT" THEN gross ELSE gain) - fee
        /\ c.pnl = b.pnl + gain - b.position.fees - fee
    BY <1>4
  <1>. HIDE DEF fee
  <1>9. c.cash \in Int /\ c.pnl \in Int /\ (market = "SPOT" => c.cash >= 0)
    BY <1>1, <1>2, <1>7, <1>8
  <1>10. c \in AnyBook
    BY <1>4, <1>9, FlatPosition DEF AnyBook
  <1>11. AccountOf(c) = c.cash
    <2>1. Flat.units * Flat.price = 0 /\ Flat.fees = 0
      BY DEF Flat
    <2>. QED
      BY <1>4, <1>9, <2>1 DEF AccountOf
  <1>12. c.cash <= Capital + c.pnl /\ (market # "SPOT" \/ Exact(b) => c.cash = Capital + c.pnl)
    <2>. DEFINE acc == AccountOf(b)
    <2>1. /\ acc = b.cash + b.position.fees + (IF market = "SPOT" THEN u * e ELSE 0)
          /\ acc <= Capital + b.pnl
          /\ market # "SPOT" \/ Exact(b) => acc = Capital + b.pnl
      BY <1>5 DEF Exact
    <2>2. Capital \in Int
      BY MoneyAssumption
    <2>. HIDE DEF acc
    <2>3. CASE market = "SPOT"
      BY <2>1, <2>2, <2>3, <1>1, <1>2, <1>7, <1>8
    <2>4. CASE market # "SPOT"
      BY <2>1, <2>2, <2>4, <1>1, <1>2, <1>7, <1>8
    <2>. QED
      BY <2>3, <2>4
  <1>13. ASSUME NEW open \in Nat,
                (b.position.side = 1 /\ p <= open) \/ (b.position.side = -1 /\ open <= p)
         PROVE  Worth(c, open) <= Worth(b, open)
    <2>1. Worth(c, open) = c.cash
      BY <1>4, <1>10, WorthType
    <2>2. u * (p - open) <= 0
      BY <1>1, <1>13, AgainstTheSign
    <2>3. u * p <= u * open
      BY <1>2, <1>6, <2>2
    <2>4. u * open \in Int /\ u * (open - e) = u * open - u * e
          /\ Worth(b, open) = b.cash + (IF market = "SPOT" THEN u * open ELSE u * (open - e))
      BY <1>6
    <2>5. CASE market = "SPOT"
      BY <1>1, <1>2, <1>7, <1>8, <2>1, <2>3, <2>4, <2>5
    <2>6. CASE market # "SPOT"
      BY <1>1, <1>2, <1>7, <1>8, <2>1, <2>3, <2>4, <2>6
    <2>. QED
      BY <2>5, <2>6
  <1>14. Sound(c) /\ c.position = Flat /\ (Exact(b) => Exact(c))
    <2>1. Flat.side = 0
      BY FlatPosition
    <2>. QED
      BY <1>4, <1>9, <1>10, <1>11, <1>12, <2>1 DEF Sound, Exact
  <1>. QED
    BY <1>13, <1>14 DEF c

\* Opening buys what the money pays for, and costs against the book marked at a price that
\* is no better for the position than the one it is opened at.
LEMMA OpenIsSound ==
    ASSUME NEW b, Sound(b), b.position = Flat, NEW to \in {-1, 1}, market = "SPOT" => to = 1,
           NEW p \in Nat \ {0}
    PROVE  LET o == OpenPosition(b, to, p)
           IN  /\ Sound(o)
               /\ o.position.side \in {0, to}
               /\ Exact(b) /\ (market = "SPOT" /\ o.position # Flat =>
                                 o.position.units * o.position.price + o.position.fees = b.cash)
                    => Exact(o)
               /\ \A open \in Nat : (to = 1 /\ open <= p) \/ (to = -1 /\ p <= open)
                                       => Worth(o, open) <= Worth(b, open)
  <1>. DEFINE n     == IF market = "SPOT" THEN b.cash ELSE Worth(b, p) * Leverage
              fee   == Fee(n)
              spent == IF market = "SPOT" THEN n - fee ELSE n
              q     == spent \div p
              o     == OpenPosition(b, to, p)
  <1>1. b.cash \in Int /\ b.pnl \in Int /\ Worth(b, p) = b.cash /\ b \in AnyBook
        /\ (market = "SPOT" => b.cash >= 0)
    BY WorthType DEF Sound, AnyBook
  <1>2. n \in Int
    <2>1. \A k, l \in Int : k * l \in Int
      OBVIOUS
    <2>. QED
      BY <1>1, <2>1, MoneyAssumption
  <1>3. CASE n <= 0
    <2>1. o = b
      BY <1>3 DEF OpenPosition
    <2>2. o.position.side = 0
      BY <2>1, FlatPosition
    <2>3. \A open \in Nat : Worth(o, open) <= Worth(b, open)
      BY <1>1, <2>1, WorthType
    <2>. HIDE DEF o
    <2>4. Sound(o) /\ (Exact(b) => Exact(o))
      BY <2>1
    <2>. QED
      BY <2>2, <2>3, <2>4 DEF o
  <1>4. CASE ~(n <= 0)
    <2>1. n \in Nat \ {0}
      BY <1>2, <1>4
    <2>. HIDE DEF n
    <2>2. fee \in Nat /\ fee <= n
      BY <2>1, FeeBound
    <2>3. spent \in Nat /\ spent <= n /\ (market = "SPOT" => spent = n - fee)
      BY <2>1, <2>2
    <2>4. q \in Nat /\ q * p <= spent /\ q * p \in Nat
      <3>. HIDE DEF spent
      <3>1. q \in Nat /\ q * p <= spent
        BY <2>3, Quotient
      <3>. HIDE DEF q
      <3>. QED
        BY <3>1
    <2>5. /\ o.cash = b.cash - (IF market = "SPOT" THEN n ELSE fee)
          /\ o.position = [side |-> to, units |-> to * q, price |-> p, fees |-> fee]
          /\ o.pnl = b.pnl
          /\ o = [cash |-> o.cash, position |-> o.position, pnl |-> o.pnl]
      BY <1>4 DEF OpenPosition, n
    <2>6. (market = "SPOT" => n = b.cash)
      BY DEF n
    <2>. HIDE DEF fee, spent, q, o
    <2>7. to * q \in Int /\ (to = 1 => to * q = q) /\ (to = -1 => to * q = -q)
      BY <2>4
    <2>8. o.cash \in Int /\ o.pnl \in Int /\ o.position \in Position
          /\ (market = "SPOT" => o.cash = 0)
      <3>1. o.cash \in Int /\ (market = "SPOT" => o.cash = 0)
        BY <1>1, <2>1, <2>2, <2>5, <2>6
      <3>2. o.position \in Position
        BY <2>2, <2>5, <2>7 DEF Position
      <3>. QED
        BY <1>1, <2>5, <3>1, <3>2
    <2>9. /\ o.position.side = to /\ o.position.units = to * q
          /\ o.position.price = p /\ o.position.fees = fee
      BY <2>5
    <2>10. o \in AnyBook
      BY <2>5, <2>8 DEF AnyBook
    <2>11. b.cash <= Capital + b.pnl /\ (market # "SPOT" \/ Exact(b) => b.cash = Capital + b.pnl)
      <3>1. Flat.units * Flat.price = 0 /\ Flat.fees = 0
        BY DEF Flat
      <3>2. AccountOf(b) = b.cash
        BY <1>1, <3>1 DEF AccountOf
      <3>. QED
        BY <3>2 DEF Sound, Exact
    <2>12. AccountOf(o) = o.cash + fee + (IF market = "SPOT" THEN q * p ELSE 0)
      <3>1. market = "SPOT" => to * q = q
        BY <2>7
      <3>. QED
        BY <2>9, <3>1 DEF AccountOf
    <2>13. /\ AccountOf(o) <= Capital + o.pnl
           /\ market # "SPOT" => AccountOf(o) = Capital + o.pnl
           /\ Exact(b) /\ (market = "SPOT" => q * p + fee = b.cash) => Exact(o)
      <3>1. Capital \in Int
        BY MoneyAssumption
      <3>2. CASE market = "SPOT"
        <4>1. AccountOf(o) = fee + q * p
          BY <2>2, <2>4, <2>8, <2>12, <3>2
        <4>2. AccountOf(o) <= b.cash
          BY <1>1, <2>1, <2>2, <2>3, <2>4, <2>6, <3>2, <4>1
        <4>3. AccountOf(o) <= Capital + o.pnl
          BY <1>1, <2>2, <2>4, <2>5, <2>11, <3>1, <4>1, <4>2
        <4>4. Exact(b) /\ q * p + fee = b.cash => Exact(o)
          BY <2>2, <2>4, <2>5, <2>11, <4>1 DEF Exact
        <4>. QED
          BY <3>2, <4>3, <4>4
      <3>3. CASE market # "SPOT"
        <4>1. AccountOf(o) = b.cash
          BY <1>1, <2>2, <2>5, <2>12, <3>3
        <4>. QED
          BY <1>1, <2>5, <2>11, <3>1, <3>3, <4>1 DEF Exact
      <3>. QED
        BY <3>2, <3>3
    <2>14. Sound(o)
      BY <2>4, <2>7, <2>8, <2>9, <2>10, <2>13 DEF Sound
    <2>15. ASSUME NEW open \in Nat, (to = 1 /\ open <= p) \/ (to = -1 /\ p <= open)
           PROVE  Worth(o, open) <= Worth(b, open)
      <3>1. Worth(b, open) = b.cash
        BY <1>1, WorthType
      <3>2. CASE market = "SPOT"
        <4>1. to = 1 /\ to * q = q /\ q * (open - p) <= 0 /\ q * (open - p) = q * open - q * p
              /\ q * open \in Int
          BY <2>4, <2>7, <2>15, <3>2, AgainstTheSign, WithTheSign
        <4>2. Worth(o, open) = q * open
          BY <2>8, <2>9, <3>2, <4>1 DEF Worth
        <4>. QED
          BY <1>1, <2>1, <2>2, <2>3, <2>4, <2>6, <3>1, <3>2, <4>1, <4>2
      <3>3. CASE market # "SPOT"
        <4>1. to * q * (open - p) <= 0 /\ to * q * (open - p) \in Int
          BY <2>4, <2>7, <2>15, AgainstTheSign
        <4>2. Worth(o, open) = b.cash - fee + to * q * (open - p)
          BY <2>5, <2>9, <3>3 DEF Worth
        <4>. QED
          BY <1>1, <2>2, <3>1, <4>1, <4>2
      <3>. QED
        BY <3>2, <3>3
    <2>16. market = "SPOT" => (o.position.units * o.position.price + o.position.fees = b.cash
                                 <=> q * p + fee = b.cash)
      BY <2>7, <2>9
    <2>17. o.position # Flat
      BY <2>9, FlatPosition
    <2>18. Exact(b) /\ (market = "SPOT" /\ o.position # Flat =>
                          o.position.units * o.position.price + o.position.fees = b.cash) => Exact(o)
      BY <2>13, <2>16, <2>17
    <2>. QED
      BY <2>9, <2>14, <2>15, <2>18 DEF o
  <1>. QED
    BY <1>2, <1>3, <1>4

LEMMA BookIsSound ==
    ASSUME TypeOK, BookInv, AccountInv
    PROVE  /\ Sound(Book) /\ Book.cash = cash /\ Book.position = position /\ Book.pnl = pnl
           /\ AccountOf(Book) = Account
  <1>1. Book.cash = cash /\ Book.position = position /\ Book.pnl = pnl /\ Book \in AnyBook
    BY DEF Book, AnyBook, Position, TypeOK
  <1>2. AccountOf(Book) = Account
    BY <1>1 DEF AccountOf, Account
  <1>. QED
    BY <1>1, <1>2 DEF Sound, BookInv, AccountInv

\* The whole fill: what is closed, opened or turned around leaves a sound book that is
\* worth no more than before.
LEMMA FillIsSound ==
    ASSUME TypeOK, BookInv, AccountInv, NEW open \in Prices
    PROVE  LET new == Filled(open)
           IN  /\ Sound(new)
               /\ Worth(new, open) <= Worth(Book, open)
               /\ Account = Capital + pnl
                  /\ (market = "SPOT" /\ position = Flat /\ new.position # Flat =>
                        new.position.units * new.position.price + new.position.fees = cash)
                    => Exact(new)
  <1>. DEFINE new   == Filled(open)
              price == ExecutionPrice(target, open)
              closed == IF position.side \notin {0, target} THEN ClosePosition(Book, price) ELSE Book
  <1>1. /\ Sound(Book) /\ Book.cash = cash /\ Book.position = position /\ Book.pnl = pnl
        /\ Exact(Book) <=> Account = Capital + pnl
    BY BookIsSound DEF Exact
  <1>2. open \in Nat \ {0} /\ position.side \in {-1, 0, 1} /\ target \in {-1, 0, 1, NoTarget}
        /\ (market = "SPOT" => target # -1 /\ position.side # -1) /\ (position.side = 0 => position = Flat)
    BY MoneyAssumption DEF TypeOK, BookInv
  <1>3. Worth(Book, open) \in Int
    BY <1>1, <1>2, WorthType DEF Sound
  <1>4. CASE target = NoTarget
    <2>1. new = Book
      BY <1>4 DEF Filled
    <2>. QED
      BY <1>1, <1>3, <2>1
  <1>5. CASE target # NoTarget
    <2>1. target \in {-1, 0, 1}
      BY <1>2, <1>5
    <2>2. /\ price \in Nat \ {0}
          /\ target = 0 => price = open
          /\ target = 1 => price >= open
          /\ target = -1 => price <= open
      BY <2>1, FillPrice
    <2>3. new = IF target # 0 /\ closed.position.side # target
                  THEN OpenPosition(closed, target, price) ELSE closed
      BY <1>5 DEF Filled
    <2>. HIDE DEF price, new
    <2>4. /\ Sound(closed)
          /\ Worth(closed, open) <= Worth(Book, open)
          /\ Exact(Book) => Exact(closed)
          /\ closed.position.side \in {0, target} /\ (closed.position.side = 0 => closed.position = Flat)
      <3>1. CASE position.side \notin {0, target}
        <4>1. closed = ClosePosition(Book, price)
          BY <3>1
        <4>2. (position.side = 1 /\ price <= open) \/ (position.side = -1 /\ open <= price)
          BY <1>2, <2>1, <2>2, <3>1
        <4>. HIDE DEF closed
        <4>3. Sound(closed) /\ closed.position = Flat /\ (Exact(Book) => Exact(closed))
              /\ Worth(closed, open) <= Worth(Book, open)
          BY <1>1, <1>2, <2>2, <3>1, <4>1, <4>2, CloseIsSound
        <4>. QED
          BY <4>3, FlatPosition
      <3>2. CASE position.side \in {0, target}
        <4>1. closed = Book
          BY <3>2
        <4>. HIDE DEF closed
        <4>. QED
          BY <1>1, <1>2, <1>3, <3>2, <4>1
      <3>. QED
        BY <3>1, <3>2
    <2>5. market = "SPOT" /\ target = 1 /\ closed.position.side = 0 =>
            closed.cash = cash /\ position = Flat
      <3>1. market = "SPOT" /\ target = 1 => position.side \in {0, target}
        BY <1>2
      <3>2. position.side \in {0, target} => closed = Book
        OBVIOUS
      <3>. HIDE DEF closed
      <3>. QED
        BY <1>1, <1>2, <3>1, <3>2
    <2>. HIDE DEF closed
    <2>6. CASE target # 0 /\ closed.position.side # target
      <3>1. new = OpenPosition(closed, target, price) /\ closed.position.side = 0 /\ closed.position = Flat
            /\ target \in {-1, 1} /\ (market = "SPOT" => target = 1)
        BY <1>2, <2>1, <2>3, <2>4, <2>6
      <3>2. (target = 1 /\ open <= price) \/ (target = -1 /\ price <= open)
        BY <1>2, <2>2, <3>1
      <3>3. /\ Sound(new) /\ Worth(new, open) <= Worth(closed, open)
            /\ Exact(closed) /\ (market = "SPOT" /\ new.position # Flat =>
                 new.position.units * new.position.price + new.position.fees = closed.cash)
                 => Exact(new)
        BY <1>2, <2>2, <2>4, <3>1, <3>2, OpenIsSound
      <3>4. Worth(closed, open) \in Int /\ Worth(new, open) \in Int
        BY <1>2, <2>4, <3>3, WorthType DEF Sound
      <3>5. Worth(new, open) <= Worth(Book, open)
        BY <1>3, <2>4, <3>3, <3>4
      <3>. QED
        BY <1>1, <2>4, <2>5, <3>1, <3>3, <3>5 DEF new
    <2>7. CASE ~(target # 0 /\ closed.position.side # target)
      <3>1. new = closed
        BY <2>3, <2>7
      <3>. QED
        BY <1>1, <2>4, <3>1 DEF new
    <2>. QED
      BY <2>6, <2>7
  <1>. QED
    BY <1>4, <1>5

-----------------------------------------------------------------------------
(* The steps                                                                *)

LEMMA InitInv == Init => Inv
  <1>. SUFFICES ASSUME Init PROVE Inv
    OBVIOUS
  <1>1. <<>> \in Seq(1..MaxTip) /\ Len(<<>>) = 0
    OBVIOUS
  <1>2. TypeOK
    BY <1>1, FlatPosition, MoneyAssumption, PagingAssumption DEF Init, TypeOK, Position, NoTarget
  <1>3. FetchInv
    <2>1. <<>> = [i \in 1..0 |-> asked - 0 + i]
      OBVIOUS
    <2>. QED
      BY <1>1, <2>1, PagingAssumption DEF Init, FetchInv, Newest
  <1>4. BookInv
    BY FlatPosition, MoneyAssumption DEF Init, BookInv, NoTarget
  <1>5. AccountInv
    <2>1. Flat.units * Flat.price = 0 /\ Flat.fees = 0 /\ Capital \in Int
      BY MoneyAssumption DEF Flat
    <2>. QED
      BY <2>1 DEF Init, AccountInv, Account
  <1>. QED
    BY <1>2, <1>3, <1>4, <1>5 DEF Inv

\* A book the next state takes over is sound there.
LEMMA SoundNext ==
    ASSUME NEW b, Sound(b), market' = market,
           cash' = b.cash, position' = b.position, pnl' = b.pnl
    PROVE  /\ cash' \in Int /\ pnl' \in Int /\ position' \in Position
           /\ AccountInv'
           /\ position'.side = 0 => position' = Flat
           /\ position'.side = 1 => position'.units >= 0 /\ position'.price > 0
           /\ position'.side = -1 => position'.units <= 0 /\ position'.price > 0
           /\ market = "SPOT" => position'.side # -1 /\ cash' >= 0
           /\ Account' = AccountOf(b)
  <1>1. Account' = AccountOf(b)
    BY DEF Account, AccountOf
  <1>. QED
    BY <1>1 DEF Sound, AnyBook, AccountInv

LEMMA PageStep == Inv /\ FetchPage => Inv'
  <1>. SUFFICES ASSUME Inv, FetchPage PROVE Inv'
    OBVIOUS
  <1>1. FetchInv' /\ candles' \in Seq(1..MaxTip) /\ remaining' \in 0..Bars
        /\ end' \in 0..MaxTip /\ phase' \in {"fetch", "replay", "short"}
    BY FetchStep DEF Inv
  <1>2. /\ UNCHANGED <<market, side, tip, asked, index, bar, cash, position, target, pnl, equity>>
        /\ phase = "fetch"
    BY DEF FetchPage, configVars
  <1>3. index' \in 0..Len(candles')
    <2>1. index = 0
      BY <1>2 DEF Inv, FetchInv
    <2>2. Len(candles') \in Nat
      BY <1>1
    <2>. QED
      BY <1>2, <2>1, <2>2
  <1>4. TypeOK'
    BY <1>1, <1>2, <1>3 DEF Inv, TypeOK
  <1>5. BookInv'
    BY <1>1, <1>2 DEF Inv, BookInv
  <1>6. AccountInv'
    BY <1>2 DEF Inv, AccountInv, Account
  <1>. QED
    BY <1>1, <1>4, <1>5, <1>6 DEF Inv

LEMMA CandleStep == Inv /\ CandleOpens => Inv'
  <1>. SUFFICES ASSUME Inv, CandleOpens PROVE Inv'
    OBVIOUS
  <1>1. /\ UNCHANGED <<market, side, phase, asked, remaining, end, candles, index, bar, cash,
                       position, target, pnl, equity>>
        /\ phase = "fetch" /\ tip < MaxTip /\ candles # <<>> /\ tip' = tip + 1
    BY DEF CandleOpens, configVars
  <1>2. tip \in Nat /\ asked \in Nat /\ MaxTip \in Nat
    BY PagingAssumption DEF Inv, TypeOK
  <1>3. TypeOK'
    <2>1. tip' \in 0..MaxTip
      BY <1>1, <1>2
    <2>. QED
      BY <1>1, <2>1 DEF Inv, TypeOK
  <1>4. FetchInv'
    <2>1. Newest(Len(candles))' = Newest(Len(candles))
      BY <1>1 DEF Newest
    <2>2. asked <= tip => asked' <= tip'
      BY <1>1, <1>2
    <2>. QED
      BY <1>1, <2>1, <2>2 DEF Inv, FetchInv
  <1>5. BookInv' /\ AccountInv'
    BY <1>1 DEF Inv, BookInv, AccountInv, Account
  <1>. QED
    BY <1>3, <1>4, <1>5 DEF Inv

LEMMA TargetType ==
    ASSUME TypeOK, NEW signal \in {-1, 0, 1}, NEW current \in {-1, 0, 1}
    PROVE  /\ Target(signal, current) \in {-1, 0, 1, NoTarget}
           /\ market = "SPOT" => Target(signal, current) # -1
  BY DEF Target, SpotTarget, FuturesTarget, NoTarget

LEMMA BarStep == Inv /\ ReplayBar => Inv'
  <1>. SUFFICES ASSUME Inv, ReplayBar PROVE Inv'
    OBVIOUS
  <1>1. phase = "replay" /\ index' = index + 1
        /\ UNCHANGED <<market, side, tip, asked, remaining, end, candles>>
    BY DEF ReplayBar, configVars, fetchVars
  <1>2. PICK open \in Prices, close \in Prices, signal \in {-1, 0, 1} :
          LET book == Filled(open) IN
            /\ bar' = [open |-> open, close |-> close]
            /\ cash' = book.cash /\ position' = book.position /\ pnl' = book.pnl
            /\ equity' = Worth(book, close)
            /\ IF equity' <= 0
                 THEN phase' = "final" /\ target' = NoTarget
                 ELSE /\ phase' = IF index' = Len(candles) THEN "final" ELSE phase
                      /\ target' = IF index' = Len(candles) \/ index' < Required \/ signal = 0
                                     THEN NoTarget ELSE Target(signal, book.position.side)
    BY DEF ReplayBar
  <1>. DEFINE book == Filled(open)
  <1>3. Sound(book)
    BY FillIsSound DEF Inv
  <1>4. /\ bar' = [open |-> open, close |-> close]
        /\ cash' = book.cash /\ position' = book.position /\ pnl' = book.pnl
        /\ equity' = Worth(book, close)
        /\ phase' \in {"replay", "final"}
        /\ phase' = "replay" => index' # Len(candles)
        /\ target' \in {NoTarget, Target(signal, book.position.side)}
    BY <1>1, <1>2
  <1>. HIDE DEF book
  <1>5. /\ cash' \in Int /\ pnl' \in Int /\ position' \in Position
        /\ AccountInv'
        /\ position'.side = 0 => position' = Flat
        /\ position'.side = 1 => position'.units >= 0 /\ position'.price > 0
        /\ position'.side = -1 => position'.units <= 0 /\ position'.price > 0
        /\ market = "SPOT" => position'.side # -1 /\ cash' >= 0
    BY <1>1, <1>3, <1>4, SoundNext
  <1>6. book.position.side \in {-1, 0, 1}
    BY <1>3 DEF Sound, AnyBook, Position
  <1>7. target' \in {-1, 0, 1, NoTarget} /\ (market = "SPOT" => target' # -1)
    BY <1>4, <1>6, TargetType DEF Inv, NoTarget
  <1>8. equity' \in Int /\ (position' = Flat => equity' = cash')
    <2>1. book \in AnyBook /\ close \in Nat
      BY <1>3, MoneyAssumption DEF Sound
    <2>. QED
      BY <1>4, <2>1, WorthType
  <1>9. index' \in 0..Len(candles) /\ (phase' = "replay" => index' < Len(candles))
    <2>1. index \in Nat /\ Len(candles) \in Nat /\ index < Len(candles)
      BY <1>1 DEF Inv, TypeOK, FetchInv
    <2>. QED
      BY <1>1, <1>4, <2>1
  <1>10. TypeOK'
    <2>1. bar' \in [open : Prices \cup {0}, close : Prices \cup {0}] /\ bar'.close \in Prices
      BY <1>4
    <2>. QED
      BY <1>1, <1>4, <1>5, <1>7, <1>8, <1>9, <2>1 DEF Inv, TypeOK, Position
  <1>11. FetchInv'
    <2>1. candles = Newest(Lesser(Bars, asked))
      BY <1>1 DEF Inv, FetchInv
    <2>2. candles' = Newest(Lesser(Bars, asked))'
      BY <1>1, <2>1 DEF Newest, Lesser
    <2>. QED
      BY <1>1, <1>4, <1>9, <2>2 DEF FetchInv
  <1>12. BookInv'
    <2>1. bar'.close \in Prices
      BY <1>4
    <2>. QED
      BY <1>1, <1>4, <1>5, <1>7, <1>8, <2>1 DEF BookInv
  <1>. QED
    BY <1>5, <1>10, <1>11, <1>12 DEF Inv

LEMMA MarkStep == Inv /\ FinalMark => Inv'
  <1>. SUFFICES ASSUME Inv, FinalMark PROVE Inv'
    OBVIOUS
  <1>1. phase = "final" /\ phase' = "done"
        /\ UNCHANGED <<market, side, tip, asked, remaining, end, candles, index, target>>
    BY DEF FinalMark, configVars, fetchVars
  <1>2. FetchInv'
    <2>1. candles = Newest(Lesser(Bars, asked))
      BY <1>1 DEF Inv, FetchInv
    <2>2. candles' = Newest(Lesser(Bars, asked))'
      BY <1>1, <2>1 DEF Newest, Lesser
    <2>. QED
      BY <1>1, <2>2 DEF FetchInv
  <1>3. CASE position = Flat
    <2>1. UNCHANGED <<bar, cash, position, pnl, equity>>
      BY <1>3 DEF FinalMark
    <2>2. TypeOK'
      BY <1>1, <2>1 DEF Inv, TypeOK
    <2>3. BookInv'
      BY <1>1, <1>3, <2>1 DEF Inv, BookInv
    <2>4. AccountInv'
      BY <1>1, <2>1 DEF Inv, AccountInv, Account
    <2>. QED
      BY <1>2, <2>2, <2>3, <2>4 DEF Inv
  <1>4. CASE position # Flat
    <2>1. PICK last \in IF index = Len(candles) THEN {bar.close} ELSE Prices :
             LET book == ClosePosition(Book, last) IN
               /\ bar' = [bar EXCEPT !.close = last]
               /\ cash' = book.cash /\ position' = book.position /\ pnl' = book.pnl
               /\ equity' = book.cash
      BY <1>4 DEF FinalMark
    <2>2. last \in Prices
      BY <1>1 DEF Inv, BookInv
    <2>3. last \in Nat \ {0} /\ position.side # 0
      BY <1>4, <2>2, MoneyAssumption DEF Inv, BookInv
    <2>. DEFINE book == ClosePosition(Book, last)
    <2>4. Sound(book) /\ book.position = Flat
      <3>1. Sound(Book) /\ Book.position = position
        BY BookIsSound DEF Inv
      <3>. QED
        BY <2>3, <3>1, CloseIsSound
    <2>5. /\ bar' = [bar EXCEPT !.close = last]
          /\ cash' = book.cash /\ position' = book.position /\ pnl' = book.pnl /\ equity' = book.cash
      BY <2>1
    <2>. HIDE DEF book
    <2>6. /\ cash' \in Int /\ pnl' \in Int /\ position' \in Position /\ AccountInv'
          /\ market = "SPOT" => cash' >= 0
      BY <1>1, <2>4, <2>5, SoundNext
    <2>7. TypeOK'
      <3>1. bar' \in [open : Prices \cup {0}, close : Prices \cup {0}]
        BY <2>2, <2>5 DEF Inv, TypeOK
      <3>. QED
        BY <1>1, <2>5, <2>6, <3>1 DEF Inv, TypeOK, Position
    <2>8. BookInv'
      BY <1>1, <2>4, <2>5, <2>6, FlatPosition DEF Inv, BookInv
    <2>. QED
      BY <1>2, <2>6, <2>7, <2>8 DEF Inv
  <1>. QED
    BY <1>3, <1>4

LEMMA NextInv == Inv /\ [Next]_vars => Inv'
  <1>1. Inv /\ UNCHANGED vars => Inv'
    <2>. SUFFICES ASSUME Inv, UNCHANGED vars PROVE Inv'
      OBVIOUS
    <2>1. FetchInv'
      <3>1. Newest(Len(candles))' = Newest(Len(candles))
            /\ Newest(Lesser(Bars, asked))' = Newest(Lesser(Bars, asked))
        BY DEF vars, Newest, Lesser
      <3>. QED
        BY <3>1 DEF Inv, FetchInv, vars
    <2>2. TypeOK' /\ BookInv' /\ AccountInv'
      BY DEF Inv, TypeOK, BookInv, AccountInv, Account, vars
    <2>. QED
      BY <2>1, <2>2 DEF Inv
  <1>. QED
    BY <1>1, PageStep, CandleStep, BarStep, MarkStep DEF Next

LEMMA InvAlways == Spec => []Inv
  BY InitInv, NextInv, PTL DEF Spec

-----------------------------------------------------------------------------
(* The theorems                                                             *)

\* Every state of a backtest is well formed.
THEOREM TypeCorrect == Spec => []TypeOK
  <1>1. Inv => TypeOK
    BY DEF Inv
  <1>. QED
    BY <1>1, InvAlways, PTL

\* However long the history, the pages and the candles that open between them, what is
\* fetched are the last Bars candles there were at the first request.
THEOREM FetchedAlwaysRecent == Spec => []FetchedIsRecent
  <1>1. Inv => FetchedIsRecent
    BY DEF Inv, FetchInv, FetchedIsRecent, Newest
  <1>. QED
    BY <1>1, InvAlways, PTL

\* A spot backtest never sells what it does not hold nor spends cash it does not have.
THEOREM SpotNeverShort == Spec => []SpotIsLongOnly
  <1>1. Inv => SpotIsLongOnly
    <2>. SUFFICES ASSUME Inv, market = "SPOT" PROVE position.units >= 0 /\ cash >= 0
      BY DEF SpotIsLongOnly
    <2>1. position.side \in {-1, 0, 1} /\ position.side # -1 /\ cash >= 0
      BY DEF Inv, TypeOK, BookInv
    <2>2. position.side = 0 => position.units = 0
      BY FlatPosition DEF Inv, BookInv
    <2>. QED
      BY <2>1, <2>2 DEF Inv, BookInv
  <1>. QED
    BY <1>1, InvAlways, PTL

\* Whatever is closed, opened or turned around, with any fee, slippage and leverage, the
\* book is worth no more after a fill than before it.
THEOREM FillsAlwaysCost == Spec => TradingCosts
  <1>. DEFINE Costs == index' = index + 1 =>
                 Worth([cash |-> cash', position |-> position', pnl |-> pnl'], bar'.open)
                   <= Worth(Book, bar'.open)
  <1>1. Inv /\ [Next]_vars => [Costs]_vars
    <2>. SUFFICES ASSUME Inv, Next, index' = index + 1
                  PROVE  Worth([cash |-> cash', position |-> position', pnl |-> pnl'], bar'.open)
                           <= Worth(Book, bar'.open)
      OBVIOUS
    <2>1. ReplayBar
      <3>1. index \in Int
        BY DEF Inv, TypeOK
      <3>2. index' # index
        BY <3>1
      <3>. QED
        BY <3>2 DEF Next, FetchPage, CandleOpens, FinalMark
    <2>2. PICK open \in Prices :
             /\ bar'.open = open
             /\ cash' = Filled(open).cash /\ position' = Filled(open).position /\ pnl' = Filled(open).pnl
      BY <2>1 DEF ReplayBar
    <2>3. Sound(Filled(open)) /\ Worth(Filled(open), open) <= Worth(Book, open)
      BY FillIsSound DEF Inv
    <2>4. Filled(open) \in AnyBook
      BY <2>3 DEF Sound
    <2>5. Filled(open) = [cash |-> cash', position |-> position', pnl |-> pnl']
      BY <2>2, <2>4 DEF AnyBook
    <2>. QED
      BY <2>2, <2>3, <2>5
  <1>2. Spec => [][Costs]_vars
    BY <1>1, InvAlways, PTL DEF Spec
  <1>. QED
    BY <1>2 DEF TradingCosts

\* The trades never claim less than the cash shows; with futures they claim exactly it. The
\* quantity of a spot entry is a division that may round down here.
THEOREM LedgerNeverAhead ==
    Spec => [](position = Flat => cash <= Capital + pnl /\ (market # "SPOT" => cash = Capital + pnl))
  <1>1. ASSUME Inv, position = Flat
        PROVE  cash <= Capital + pnl /\ (market # "SPOT" => cash = Capital + pnl)
    <2>1. Flat.units * Flat.price = 0 /\ Flat.fees = 0 /\ cash \in Int
      BY <1>1 DEF Flat, Inv, TypeOK
    <2>2. Account = cash
      BY <1>1, <2>1 DEF Account
    <2>. QED
      BY <1>1, <2>2 DEF Inv, AccountInv
  <1>2. Inv => (position = Flat => cash <= Capital + pnl /\ (market # "SPOT" => cash = Capital + pnl))
    BY <1>1
  <1>. QED
    BY <1>2, InvAlways, PTL

\* With quantities that are not rounded, as the floats of the code are not, the trades
\* account for the money to the last unit, on both markets.
THEOREM LedgerAlwaysBalances == Spec /\ WholeQuantities => []LedgerBalances
  <1>. DEFINE Whole == market = "SPOT" /\ position = Flat /\ position' # Flat =>
                         position'.units * position'.price + position'.fees = cash
              Balanced == Account = Capital + pnl
  <1>1. Init => Balanced
    <2>1. Flat.units * Flat.price = 0 /\ Flat.fees = 0 /\ Capital \in Int
      BY MoneyAssumption DEF Flat
    <2>. QED
      BY <2>1 DEF Init, Account
  <1>2. Inv /\ Balanced /\ [Next]_vars /\ [Whole]_vars => Balanced'
    <2>. SUFFICES ASSUME Inv, Balanced, [Next]_vars, [Whole]_vars PROVE Balanced'
      OBVIOUS
    <2>1. CASE FetchPage \/ CandleOpens \/ UNCHANGED vars
      BY <2>1 DEF FetchPage, CandleOpens, vars, configVars, Account
    <2>2. CASE ReplayBar
      <3>1. PICK open \in Prices :
               cash' = Filled(open).cash /\ position' = Filled(open).position /\ pnl' = Filled(open).pnl
        BY <2>2 DEF ReplayBar
      <3>2. index' # index
        <4>1. index \in Int /\ index' = index + 1
          BY <2>2 DEF ReplayBar, Inv, TypeOK
        <4>. QED
          BY <4>1
      <3>3. Whole
        BY <3>2 DEF vars
      <3>4. Sound(Filled(open)) /\ Exact(Filled(open))
        BY <3>1, <3>3, FillIsSound DEF Inv
      <3>5. market' = market
        BY <2>2 DEF ReplayBar, configVars
      <3>6. Account' = AccountOf(Filled(open))
        BY <3>1, <3>4, <3>5, SoundNext
      <3>. QED
        BY <3>1, <3>4, <3>6 DEF Exact
    <2>3. CASE FinalMark /\ position = Flat
      BY <2>3 DEF FinalMark, configVars, Account
    <2>4. CASE FinalMark /\ position # Flat
      <3>1. PICK last \in IF index = Len(candles) THEN {bar.close} ELSE Prices :
               LET book == ClosePosition(Book, last) IN
                 cash' = book.cash /\ position' = book.position /\ pnl' = book.pnl
        BY <2>4 DEF FinalMark
      <3>2. last \in Nat \ {0} /\ position.side # 0
        BY <2>4, MoneyAssumption DEF Inv, BookInv, FinalMark
      <3>3. Sound(Book) /\ Book.position = position /\ Exact(Book)
        BY BookIsSound DEF Inv, Exact, Book
      <3>4. Sound(ClosePosition(Book, last)) /\ Exact(ClosePosition(Book, last))
        BY <3>2, <3>3, CloseIsSound
      <3>5. market' = market
        BY <2>4 DEF FinalMark, configVars
      <3>6. Account' = AccountOf(ClosePosition(Book, last))
        BY <3>1, <3>4, <3>5, SoundNext
      <3>. QED
        BY <3>1, <3>4, <3>6 DEF Exact
    <2>. QED
      BY <2>1, <2>2, <2>3, <2>4 DEF Next
  <1>3. Inv /\ Balanced => LedgerBalances
    <2>. SUFFICES ASSUME Inv, Balanced PROVE LedgerBalances
      OBVIOUS
    <2>1. position = Flat => Account = cash
      <3>1. Flat.units * Flat.price = 0 /\ Flat.fees = 0 /\ cash \in Int
        BY DEF Flat, Inv, TypeOK
      <3>. QED
        BY <3>1 DEF Account
    <2>. QED
      BY <2>1 DEF Inv, BookInv, LedgerBalances
  <1>. HIDE DEF Whole, Balanced
  <1>4. Spec /\ [][Whole]_vars => []Balanced
    BY <1>1, <1>2, InvAlways, PTL DEF Spec
  <1>5. WholeQuantities <=> [][Whole]_vars
    BY DEF WholeQuantities, Whole
  <1>. QED
    BY <1>3, <1>4, <1>5, InvAlways, PTL
===================================================================================
