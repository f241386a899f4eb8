--------------------------- MODULE BuiltinStrategiesProofs ---------------------------
(***************************************************************************)
(* The window of a built-in strategy is the recent past (WindowIsRecent),  *)
(* for every WindowSize, every history and any loss of candles; and no     *)
(* strategy but the standing ones says the same of two bars in a row       *)
(* (CrossingsFireOnce), whatever the bars and the periods are, nor does    *)
(* one that looks at the last bars only say other things live than in a    *)
(* backtest (LiveMatchesBacktest).  In the market turned upside down every *)
(* strategy but the lopsided ones says the opposite (SidesMirror): the     *)
(* last half of the module carries that reflection through the exact       *)
(* fractions, the averages, the indicators and the rules, one by one.      *)
(***************************************************************************)
EXTENDS BuiltinStrategies, SequenceTheorems, FiniteSetTheorems, TLAPS

Candle == [at : Nat, bar : Shapes]

(* WindowIsRecent does not say how far ahead of the exchange the window may be: by the one
   candle that was open at the start, and only until it closes.  Positions start at 1. *)
Ahead ==
    phase # "new" => /\ opened \in 1..(Len(bars) + 1)
                     /\ last <= Len(bars) \/ last = opened
                     /\ \A i \in DOMAIN window : window[i].at > 0

(* Positions increase along a window. *)
Increasing(w) == \A i, j \in DOMAIN w : i < j => w[i].at < w[j].at

(* A window is another one with a candle appended and the oldest ones dropped. *)
Follows(new, old, c) ==
    /\ new \in Seq(Candle) /\ new # <<>> /\ Len(new) <= WindowSize
    /\ new[Len(new)] = c
    /\ Increasing(new)
    /\ \A i \in DOMAIN new : new[i] = c \/ \E j \in DOMAIN old : new[i] = old[j]
    /\ \A j \in DOMAIN old : new[1].at <= old[j].at => \E i \in DOMAIN new : new[i] = old[j]

(* A window is what on_start makes of the closed candles and the open one. *)
Shows(new, closed) ==
    /\ new \in Seq(Candle) /\ new # <<>> /\ Len(new) <= WindowSize
    /\ new[Len(new)].at = Len(closed) + 1
    /\ Increasing(new)
    /\ \A i \in DOMAIN new : new[i].at > 0
    /\ \A i \in DOMAIN new :
         new[i].at # Len(closed) + 1 => new[i].at <= Len(closed) /\ new[i].bar = closed[new[i].at]
    /\ \A at \in new[1].at..Len(closed) : \E i \in DOMAIN new : new[i].at = at

FeedInv == FeedTypeOK /\ Ahead /\ WindowIsRecent

-----------------------------------------------------------------------------
(* Newest keeps the end of a sequence: what is left out is a prefix, and something is kept
   of what is not empty. *)
LEMMA NewestKeepsTheEnd ==
    ASSUME NEW S, NEW s \in Seq(S), s # <<>>
    PROVE  /\ Newest(s) \in Seq(S) /\ Newest(s) # <<>> /\ Len(Newest(s)) <= WindowSize
           /\ \E k \in Nat : /\ Len(s) = Len(Newest(s)) + k
                             /\ \A i \in 1..Len(Newest(s)) : Newest(s)[i] = s[i + k]
<1> USE FeedAssumption
<1>1. Len(s) \in Nat /\ Len(s) > 0
  OBVIOUS
<1>2. CASE Len(s) <= WindowSize
  <2>1. Newest(s) = s
    BY <1>2 DEF Newest
  <2>2. Len(s) = Len(s) + 0 /\ \A i \in 1..Len(s) : s[i] = s[i + 0]
    BY <1>1
  <2> QED BY <1>2, <2>1, <2>2
<1>3. CASE Len(s) > WindowSize
  <2> DEFINE k == Len(s) - WindowSize
  <2>1. k \in Nat /\ k + 1 \in 1..Len(s)
    BY <1>1, <1>3
  <2>2. Newest(s) = SubSeq(s, k + 1, Len(s))
    BY <1>1, <1>3 DEF Newest
  <2>3. /\ Newest(s) \in Seq(S) /\ Len(Newest(s)) = WindowSize
        /\ \A i \in 1..WindowSize : Newest(s)[i] = s[i + k]
    BY <1>1, <1>3, <2>1, <2>2
  <2>4. Newest(s) # <<>> /\ Len(s) = Len(Newest(s)) + k
    BY <1>1, <2>3
  <2> HIDE DEF k
  <2> QED BY <2>1, <2>3, <2>4
<1> QED BY <1>1, <1>2, <1>3

(* A newer candle appended to a window of increasing positions, with the oldest ones
   dropped: still increasing, and what is left out is older than the first one kept. *)
LEMMA AppendedWindow ==
    ASSUME NEW old \in Seq(Candle), NEW c \in Candle,
           Increasing(old), \A i \in DOMAIN old : old[i].at < c.at
    PROVE  Follows(Newest(Append(old, c)), old, c)
<1> DEFINE new == Newest(Append(old, c))
<1>0. \A i, j \in DOMAIN old : i < j => old[i].at < old[j].at
  BY DEF Increasing
<1> DEFINE s == Append(old, c)
<1>1. s \in Seq(Candle) /\ s # <<>> /\ Len(s) = Len(old) + 1
      /\ s[Len(s)] = c /\ \A i \in 1..Len(old) : s[i] = old[i]
  <2>1. s \in Seq(Candle) /\ Len(s) = Len(old) + 1 /\ Len(old) \in Nat
    OBVIOUS
  <2>2. s[Len(s)] = c
    BY <2>1
  <2>3. \A i \in 1..Len(old) : s[i] = old[i]
    OBVIOUS
  <2> QED BY <2>1, <2>2, <2>3
<1>2. \A i, j \in 1..Len(s) : i < j => s[i].at < s[j].at
  <2> SUFFICES ASSUME NEW i \in 1..Len(s), NEW j \in 1..Len(s), i < j PROVE s[i].at < s[j].at
    OBVIOUS
  <2>1. CASE j = Len(s)
    BY <1>1, <2>1
  <2>2. CASE j # Len(s)
    BY <1>0, <1>1, <2>2
  <2> QED BY <2>1, <2>2
<1>3. /\ new \in Seq(Candle) /\ new # <<>> /\ Len(new) <= WindowSize
      /\ \E k \in Nat : /\ Len(s) = Len(new) + k
                        /\ \A i \in 1..Len(new) : new[i] = s[i + k]
  <2>1. new = Newest(s)
    OBVIOUS
  <2> HIDE DEF new
  <2>2. s \in Seq(Candle) /\ s # <<>>
    BY <1>1
  <2> HIDE DEF s
  <2>3. /\ Newest(s) \in Seq(Candle) /\ Newest(s) # <<>> /\ Len(Newest(s)) <= WindowSize
        /\ \E k \in Nat : /\ Len(s) = Len(Newest(s)) + k
                          /\ \A i \in 1..Len(Newest(s)) : Newest(s)[i] = s[i + k]
    BY ONLY <2>2, NewestKeepsTheEnd, Zenon
  <2> QED BY ONLY <2>1, <2>3
<1> HIDE DEF new
<1>4. PICK k \in Nat : /\ Len(s) = Len(new) + k
                       /\ \A i \in 1..Len(new) : new[i] = s[i + k]
  BY <1>3
<1>5. Len(new) \in Nat /\ Len(new) > 0 /\ Len(old) \in Nat
  BY <1>3
<1>6. new[Len(new)] = c
  BY <1>1, <1>4, <1>5
<1>7. \A i, j \in DOMAIN new : i < j => new[i].at < new[j].at
  <2> SUFFICES ASSUME NEW i \in 1..Len(new), NEW j \in 1..Len(new), i < j
               PROVE  new[i].at < new[j].at
    BY <1>3, <1>5
  <2>1. i + k \in 1..Len(s) /\ j + k \in 1..Len(s) /\ i + k < j + k
    BY <1>4, <1>5
  <2> QED BY <1>2, <1>4, <2>1
<1>8. \A i \in DOMAIN new : new[i] = c \/ \E j \in DOMAIN old : new[i] = old[j]
  <2> SUFFICES ASSUME NEW i \in 1..Len(new)
               PROVE  new[i] = c \/ \E j \in 1..Len(old) : new[i] = old[j]
    BY <1>3
  <2>1. i + k \in 1..Len(s) /\ new[i] = s[i + k]
    BY <1>4, <1>5
  <2>2. i + k = Len(s) \/ i + k \in 1..Len(old)
    BY <1>1, <1>5, <2>1
  <2> QED BY <1>1, <2>1, <2>2
<1>9. \A j \in DOMAIN old : new[1].at <= old[j].at => \E i \in DOMAIN new : new[i] = old[j]
  <2> SUFFICES ASSUME NEW j \in 1..Len(old), new[1].at <= old[j].at
               PROVE  \E i \in 1..Len(new) : new[i] = old[j]
    BY <1>3
  <2>1. new[1] = s[1 + k] /\ 1 + k \in 1..Len(s) /\ j \in 1..Len(s) /\ s[j] = old[j]
    BY <1>1, <1>4, <1>5
  <2>2. s[1 + k].at \in Nat /\ s[j].at \in Nat
    <3>1. s[1 + k] \in Candle /\ s[j] \in Candle
      BY <1>1, <2>1
    <3> QED BY <3>1 DEF Candle
  <2>3. ~(j < 1 + k)
    <3>1. j < 1 + k => s[j].at < s[1 + k].at
      BY <1>2, <2>1
    <3>2. new[1] = s[1 + k] /\ s[j] = old[j]
      BY <2>1
    <3> HIDE DEF s
    <3> QED BY <2>2, <3>1, <3>2
  <2>4. j - k \in 1..Len(new) /\ new[j - k] = s[(j - k) + k]
    BY <1>4, <1>5, <2>1, <2>3
  <2>5. (j - k) + k = j
    OBVIOUS
  <2> QED BY <2>1, <2>4, <2>5
<1> QED BY <1>3, <1>6, <1>7, <1>8, <1>9 DEF Follows, Increasing, new

-----------------------------------------------------------------------------
(* What on_start makes of the answer of REST. *)
LEMMA InitialWindow ==
    ASSUME NEW s \in Seq(Shapes), NEW closed \in Seq(Candle), NEW open \in Candle,
           Len(closed) = Len(s), open.at = Len(s) + 1,
           \A i \in DOMAIN closed : closed[i].at = i /\ closed[i].bar = s[i]
    PROVE  Shows(Newest(Append(closed, open)), s)
<1> DEFINE new == Newest(Append(closed, open))
<1>1. DOMAIN closed = 1..Len(s) /\ Len(s) \in Nat /\ closed \in Seq(Candle)
      /\ open \in Candle /\ open.at = Len(s) + 1
  OBVIOUS
<1>2. \A i \in DOMAIN closed : closed[i].at = i /\ closed[i].bar = s[i]
  OBVIOUS
<1>3. Increasing(closed) /\ \A i \in DOMAIN closed : closed[i].at < open.at
  BY <1>1, <1>2 DEF Increasing
<1>4. Follows(new, closed, open)
  BY <1>1, <1>3, AppendedWindow
<1> HIDE DEF new
<1>5. /\ new \in Seq(Candle) /\ new # <<>> /\ Len(new) <= WindowSize
      /\ new[Len(new)] = open
      /\ \A i \in DOMAIN new : new[i] = open \/ \E j \in DOMAIN closed : new[i] = closed[j]
      /\ \A j \in DOMAIN closed : new[1].at <= closed[j].at => \E i \in DOMAIN new : new[i] = closed[j]
  BY <1>4 DEF Follows
<1>6. \A i \in DOMAIN new :
        new[i].at # Len(s) + 1 => new[i].at <= Len(s) /\ new[i].bar = s[new[i].at]
  BY <1>1, <1>2, <1>5
<1>7. \A i \in DOMAIN new : new[i].at > 0
  <2> SUFFICES ASSUME NEW i \in DOMAIN new PROVE new[i].at > 0
    OBVIOUS
  <2>1. CASE new[i] = open
    BY <1>1, <2>1
  <2>2. CASE \E j \in DOMAIN closed : new[i] = closed[j]
    <3>1. PICK j \in DOMAIN closed : new[i] = closed[j]
      BY <2>2
    <3>2. j > 0 /\ closed[j].at = j
      BY <1>1, <1>2
    <3> QED BY <3>1, <3>2
  <2> QED BY <1>5, <2>1, <2>2
<1>8. \A at \in new[1].at..Len(s) : \E i \in DOMAIN new : new[i].at = at
  <2>1. new[1] \in Candle
    BY <1>5
  <2>2. new[1].at \in Nat
    BY <2>1 DEF Candle
  <2>3. new[1].at > 0
    <3>1. 1 \in DOMAIN new
      BY <1>5
    <3> QED BY <1>1, <1>2, <1>5, <3>1
  <2> SUFFICES ASSUME NEW at \in new[1].at..Len(s) PROVE \E i \in DOMAIN new : new[i].at = at
    OBVIOUS
  <2>4. at \in DOMAIN closed /\ new[1].at <= closed[at].at
    BY <1>1, <1>2, <2>2, <2>3
  <2>5. PICK i \in DOMAIN new : new[i] = closed[at]
    BY <1>5, <2>4
  <2>6. closed[at].at = at
    BY <1>2, <2>4
  <2> QED BY <2>5, <2>6
<1> QED BY <1>1, <1>4, <1>5, <1>6, <1>7, <1>8 DEF Follows, Shows, new

-----------------------------------------------------------------------------
(* An order is a buy, a sell or none. *)
LEMMA BuildOrderType == \A d \in Directions : BuildOrder(d) \in {"none", "error", "BUY", "SELL"}
BY DEF BuildOrder, Directions

LEMMA InitFeed == Init => FeedInv
<1> SUFFICES ASSUME Init PROVE FeedInv
  OBVIOUS
<1>1. FeedTypeOK
  BY FeedAssumption DEF Init, FeedTypeOK
<1>2. Ahead /\ WindowIsRecent
  BY DEF Init, Ahead, WindowIsRecent
<1> QED BY <1>1, <1>2 DEF FeedInv

LEMMA OnStartKeepsFeed == FeedInv /\ OnStart => FeedInv'
<1> SUFFICES ASSUME FeedInv, OnStart PROVE FeedInv'
  OBVIOUS
<1>1. bars \in Seq(Shapes) /\ Len(bars) \in Nat /\ bars' = bars /\ phase' = "running"
      /\ opened' = Len(bars) + 1 /\ last' = Len(bars) + 1 /\ lost' = lost /\ order' = order
  BY DEF FeedInv, FeedTypeOK, OnStart
<1>2. PICK unfinished \in Shapes :
        window' = Newest(Append([i \in DOMAIN bars |-> [at |-> i, bar |-> bars[i]]],
                                [at |-> Len(bars) + 1, bar |-> unfinished]))
  BY DEF OnStart
<1>3. Shows(window', bars)
  <2> DEFINE closed == [i \in DOMAIN bars |-> [at |-> i, bar |-> bars[i]]]
             open == [at |-> Len(bars) + 1, bar |-> unfinished]
  <2>1. window' = Newest(Append(closed, open))
    BY <1>2
  <2>2. bars \in Seq(Shapes) /\ closed \in Seq(Candle) /\ Len(closed) = Len(bars)
    <3>1. Len(bars) \in Nat /\ DOMAIN bars = 1..Len(bars) /\ \A i \in 1..Len(bars) : bars[i] \in Shapes
      BY <1>1
    <3>2. closed \in [1..Len(bars) -> Candle] /\ DOMAIN closed = 1..Len(bars)
      BY <3>1 DEF Candle
    <3>3. closed \in Seq(Candle)
      BY <3>1, <3>2, SeqDef
    <3> QED BY <1>1, <3>1, <3>2, <3>3
  <2>4. open \in Candle /\ open.at = Len(bars) + 1
    BY <1>1, <1>2 DEF Candle
  <2>5. \A i \in DOMAIN closed : closed[i].at = i /\ closed[i].bar = bars[i]
    OBVIOUS
  <2> HIDE DEF closed, open
  <2>3. Shows(Newest(Append(closed, open)), bars)
    BY ONLY <2>2, <2>4, <2>5, InitialWindow
  <2> QED BY <2>1, <2>3
<1>4. FeedTypeOK'
  BY <1>1, <1>3 DEF FeedInv, FeedTypeOK, Candle, Shows
<1>5. Ahead'
  BY <1>1, <1>3 DEF Ahead, Shows
<1>6. WindowIsRecent'
  BY <1>1, <1>3 DEF WindowIsRecent, Shows, Increasing
<1> QED BY <1>4, <1>5, <1>6 DEF FeedInv

(* The open candle closes and the stream brings it, or does not. *)
LEMMA CandleClosesKeepsFeed == FeedInv /\ CandleCloses => FeedInv'
<1> SUFFICES ASSUME FeedInv, CandleCloses PROVE FeedInv'
  OBVIOUS
<1>1. PICK bar \in Shapes :
        /\ bars' = Append(bars, bar)
        /\ \/ /\ \E direction \in Directions : OnMarketEvent(Len(bars'), bar, direction)
              /\ lost' = lost
           \/ /\ lost' = lost \cup {Len(bars')}
              /\ UNCHANGED <<window, last, phase, order>>
  BY DEF CandleCloses
<1> DEFINE n == Len(bars)
<1>2. /\ n \in Nat /\ bars \in Seq(Shapes) /\ bars' \in Seq(Shapes) /\ Len(bars') = n + 1
      /\ bars'[n + 1] = bar /\ \A at \in 1..n : bars'[at] = bars[at]
  BY <1>1 DEF FeedInv, FeedTypeOK
<1>3. /\ phase = "running" /\ opened' = opened /\ opened \in 1..(n + 1)
      /\ last \in Nat /\ (last <= n \/ last = opened) /\ last <= n + 1
      /\ window \in Seq(Candle) /\ window # <<>> /\ lost \subseteq Nat /\ order \in {"none", "BUY", "SELL"}
  BY <1>2 DEF FeedInv, FeedTypeOK, Ahead, WindowIsRecent, CandleCloses, Candle
<1>4. /\ \A i, j \in DOMAIN window : i < j => window[i].at < window[j].at
      /\ window[Len(window)].at = last /\ Len(window) <= WindowSize
      /\ \A i \in DOMAIN window :
           window[i].at # opened => window[i].at <= n /\ window[i].bar = bars[window[i].at]
      /\ \A at \in window[1].at..n : at \in lost \/ \E i \in DOMAIN window : window[i].at = at
  BY <1>3 DEF FeedInv, WindowIsRecent
<1>5. /\ DOMAIN window = 1..Len(window) /\ Len(window) \in Nat /\ Len(window) > 0
      /\ \A i \in DOMAIN window : window[i] \in Candle /\ window[i].at \in Nat
  <2>1. DOMAIN window = 1..Len(window) /\ Len(window) \in Nat /\ Len(window) > 0
        /\ \A i \in DOMAIN window : window[i] \in Candle
    BY <1>3
  <2>2. \A x \in Candle : x.at \in Nat
    BY DEF Candle
  <2> QED BY <2>1, <2>2
<1>6. \A i \in DOMAIN window : window[i].at <= last
  <2> SUFFICES ASSUME NEW i \in DOMAIN window PROVE window[i].at <= last
    OBVIOUS
  <2>1. i = Len(window) \/ i < Len(window)
    BY <1>5
  <2> QED BY <1>3, <1>4, <1>5, <2>1
<1>7. \A i \in DOMAIN window : window[i].at > 0
  BY <1>3 DEF FeedInv, Ahead
<1>8. \A i \in DOMAIN window :
        window[i].at # opened => window[i].at <= n + 1 /\ window[i].bar = bars'[window[i].at]
  <2> SUFFICES ASSUME NEW i \in DOMAIN window, window[i].at # opened
               PROVE  window[i].at <= n + 1 /\ window[i].bar = bars'[window[i].at]
    OBVIOUS
  <2>1. window[i].at \in 1..n /\ window[i].bar = bars[window[i].at]
    BY <1>2, <1>4, <1>5, <1>7
  <2> QED BY <1>2, <2>1
<1>9. \/ /\ \E direction \in Directions : OnMarketEvent(Len(bars'), bar, direction)
         /\ lost' = lost
      \/ /\ lost' = lost \cup {Len(bars')}
         /\ UNCHANGED <<window, last, phase, order>>
  BY <1>1
<1> HIDE DEF n
<1>10. CASE UNCHANGED <<window, last, phase, order>> /\ ((last = n + 1 /\ lost' = lost) \/ lost' = lost \cup {n + 1})
  <2>1. FeedTypeOK'
    <3>1. opened' \in Nat /\ lost' \subseteq Nat /\ n + 1 \in Nat
      <4>1. opened' \in Nat /\ n + 1 \in Nat
        BY <1>2, <1>3
      <4>2. lost' = lost \/ lost' = lost \cup {n + 1}
        BY <1>10
      <4> QED BY <1>3, <4>1, <4>2
    <3> QED BY <1>2, <1>10, <3>1 DEF FeedInv, FeedTypeOK
  <2>2. Ahead'
    BY <1>2, <1>3, <1>7, <1>10 DEF Ahead, n
  <2>3. \A at \in window[1].at..(n + 1) : at \in lost' \/ \E i \in DOMAIN window : window[i].at = at
    <3> SUFFICES ASSUME NEW at \in window[1].at..(n + 1)
                 PROVE  at \in lost' \/ \E i \in DOMAIN window : window[i].at = at
      OBVIOUS
    <3>1. 1 \in DOMAIN window /\ window[1].at \in Nat
      BY <1>5
    <3>2. at = n + 1 \/ at \in window[1].at..n
      BY <1>2, <3>1
    <3>3. CASE at = n + 1
      BY <1>4, <1>5, <1>10, <3>3
    <3> QED BY <1>4, <1>10, <3>2, <3>3
  <2>4. WindowIsRecent'
    <3>1. Len(bars') = n + 1
      BY <1>2
    <3> QED BY <1>3, <1>4, <1>8, <1>10, <2>3, <3>1 DEF WindowIsRecent
  <2> QED BY <2>1, <2>2, <2>4 DEF FeedInv
<1>11. CASE lost' = lost /\ \E direction \in Directions : OnMarketEvent(Len(bars'), bar, direction) /\ n + 1 # last
  <2> DEFINE c == [at |-> n + 1, bar |-> bar]
  <2>1. /\ lost' = lost /\ last' = n + 1 /\ n + 1 # last
        /\ window' = Newest(Append(window, c))
        /\ order' \in {"none", "BUY", "SELL"} /\ phase' \in {"running", "failed", "stopped"}
    <3>1. PICK direction \in Directions : OnMarketEvent(Len(bars'), bar, direction) /\ n + 1 # last
      BY <1>11
    <3> DEFINE side == IF Len(window') < RequiredBars THEN "none" ELSE BuildOrder(direction)
    <3>2. side \in {"none", "error", "BUY", "SELL"}
      BY BuildOrderType
    <3>3. /\ last' = n + 1 /\ window' = Newest(Append(window, c))
          /\ order' = IF side = "error" THEN "none" ELSE side
          /\ phase' = IF side = "error" THEN "failed" ELSE IF side = "none" THEN "running" ELSE "stopped"
      BY <1>2, <3>1 DEF OnMarketEvent, c
    <3> HIDE DEF side
    <3> QED BY <1>11, <3>1, <3>2, <3>3
  <2>2. c \in Candle /\ c.at = n + 1 /\ c.bar = bar
    BY <1>2 DEF Candle
  <2> HIDE DEF c
  <2>3. last < n + 1
    BY <1>2, <1>3, <2>1
  <2>4. /\ window' \in Seq(Candle) /\ window' # <<>> /\ Len(window') <= WindowSize
        /\ window'[Len(window')] = c
        /\ \A i, j \in DOMAIN window' : i < j => window'[i].at < window'[j].at
        /\ \A i \in DOMAIN window' : window'[i] = c \/ \E j \in DOMAIN window : window'[i] = window[j]
        /\ \A j \in DOMAIN window : window'[1].at <= window[j].at => \E i \in DOMAIN window' : window'[i] = window[j]
    <3>1. Increasing(window) /\ \A i \in DOMAIN window : window[i].at < c.at
      BY <1>2, <1>3, <1>4, <1>5, <1>6, <2>2, <2>3 DEF Increasing
    <3>2. Follows(Newest(Append(window, c)), window, c)
      BY <1>3, <2>2, <3>1, AppendedWindow
    <3> QED BY <2>1, <3>2 DEF Follows, Increasing
  <2>5. FeedTypeOK'
    BY <1>2, <1>3, <2>1, <2>4 DEF FeedInv, FeedTypeOK, Candle
  <2>6. Ahead'
    <3>1. \A i \in DOMAIN window' : window'[i].at > 0
      BY <1>2, <1>7, <2>2, <2>4
    <3> QED BY <1>2, <1>3, <2>1, <3>1 DEF Ahead, n
  <2>7. \A i \in DOMAIN window' :
          window'[i].at # opened => window'[i].at <= n + 1 /\ window'[i].bar = bars'[window'[i].at]
    <3> SUFFICES ASSUME NEW i \in DOMAIN window', window'[i].at # opened
                 PROVE  window'[i].at <= n + 1 /\ window'[i].bar = bars'[window'[i].at]
      OBVIOUS
    <3>1. CASE window'[i] = c
      BY <1>2, <2>2, <3>1
    <3>2. CASE \E j \in DOMAIN window : window'[i] = window[j]
      BY <1>8, <3>2
    <3> QED BY <2>4, <3>1, <3>2
  <2>8. \A at \in window'[1].at..(n + 1) : at \in lost \/ \E i \in DOMAIN window' : window'[i].at = at
    <3> SUFFICES ASSUME NEW at \in window'[1].at..(n + 1)
                 PROVE  at \in lost \/ \E i \in DOMAIN window' : window'[i].at = at
      OBVIOUS
    <3>1. /\ 1 \in DOMAIN window /\ window[1].at \in Nat
          /\ 1 \in DOMAIN window' /\ window'[1].at \in Nat /\ Len(window') \in DOMAIN window'
      <4>1. window'[1] \in Candle /\ 1 \in DOMAIN window' /\ Len(window') \in DOMAIN window'
        BY <2>4
      <4> QED BY <1>5, <4>1 DEF Candle
    <3>2. window[1].at <= window'[1].at
      <4>1. CASE window'[1] = c
        BY <1>2, <1>3, <1>6, <2>2, <2>3, <3>1, <4>1
      <4>2. CASE \E j \in DOMAIN window : window'[1] = window[j]
        <5>1. PICK j \in DOMAIN window : window'[1] = window[j]
          BY <4>2
        <5>2. j = 1 \/ 1 < j
          BY <1>5
        <5> QED BY <1>4, <1>5, <3>1, <5>1, <5>2
      <4> QED BY <2>4, <3>1, <4>1, <4>2
    <3>3. CASE at = n + 1
      BY <2>2, <2>4, <3>1, <3>3
    <3>4. CASE at # n + 1
      <4>1. at \in window[1].at..n
        BY <1>2, <3>1, <3>2, <3>4
      <4>2. CASE at \in lost
        BY <4>2
      <4>3. CASE \E j \in DOMAIN window : window[j].at = at
        <5>1. PICK j \in DOMAIN window : window[j].at = at
          BY <4>3
        <5>2. window'[1].at <= window[j].at
          BY <3>1, <5>1
        <5>3. PICK i \in DOMAIN window' : window'[i] = window[j]
          BY <2>4, <5>2
        <5> QED BY <5>1, <5>3
      <4> QED BY <1>4, <4>1, <4>2, <4>3
    <3> QED BY <3>3, <3>4
  <2>9. WindowIsRecent'
    <3>1. Len(bars') = n + 1 /\ window'[Len(window')].at = last'
      BY <1>2, <2>1, <2>2, <2>4
    <3> QED BY <1>3, <2>1, <2>4, <2>7, <2>8, <3>1 DEF WindowIsRecent
  <2> QED BY <2>5, <2>6, <2>9 DEF FeedInv
<1>12. CASE last = n + 1 /\ lost' = lost /\ \E direction \in Directions : OnMarketEvent(Len(bars'), bar, direction)
  <2>1. UNCHANGED <<window, last, phase, order>>
    BY <1>2, <1>12 DEF OnMarketEvent
  <2> QED BY <1>10, <1>12, <2>1
<1>13. CASE lost' = lost \cup {Len(bars')} /\ UNCHANGED <<window, last, phase, order>>
  BY <1>2, <1>10, <1>13
<1>14. CASE lost' = lost /\ \E direction \in Directions : OnMarketEvent(Len(bars'), bar, direction)
  <2>1. PICK direction \in Directions : OnMarketEvent(Len(bars'), bar, direction)
    BY <1>14
  <2>2. CASE last = n + 1
    BY <1>12, <1>14, <2>2
  <2>3. CASE n + 1 # last
    BY <1>11, <1>14, <2>1, <2>3
  <2> QED BY <2>2, <2>3
<1> QED BY <1>9, <1>13, <1>14

LEMMA NextKeepsFeed == FeedInv /\ [Next]_vars => FeedInv'
<1> SUFFICES ASSUME FeedInv, [Next]_vars PROVE FeedInv'
  OBVIOUS
<1>1. CASE OnStart
  BY <1>1, OnStartKeepsFeed
<1>2. CASE CandleCloses
  BY <1>2, CandleClosesKeepsFeed
<1>3. CASE UNCHANGED vars
  BY <1>3 DEF FeedInv, FeedTypeOK, Ahead, WindowIsRecent, vars
<1> QED BY <1>1, <1>2, <1>3 DEF Next

(* What a built-in strategy computes its signal from is the recent past of the exchange:
   on_start and on_market_event keep every candle once, in order and as it closed, but for
   the candle that was open at the start and for those the stream lost. *)
THEOREM WindowStaysRecent == Spec => [](FeedTypeOK /\ WindowIsRecent)
<1>1. FeedInv => FeedTypeOK /\ WindowIsRecent
  BY DEF FeedInv
<1> QED BY <1>1, InitFeed, NextKeepsFeed, PTL DEF Spec

-----------------------------------------------------------------------------
(* A set of numbers that is not empty has a least one. *)
LEMMA LeastNat ==
    ASSUME NEW T, T \subseteq Nat, T # {}
    PROVE  \E n \in T : \A m \in T : n <= m
<1>1. PICK t \in T : TRUE
  OBVIOUS
<1> DEFINE F == {0..k : k \in {k \in T : k <= t}}
<1>2. F \subseteq FiniteSubsetsOf(0..t) /\ F # {}
  <2>1. IsFiniteSet(0..t)
    BY <1>1, FS_Interval
  <2>2. \A k \in {k \in T : k <= t} : 0..k \in SUBSET (0..t)
    BY <1>1
  <2>3. F \subseteq SUBSET (0..t) /\ F # {}
    BY <1>1, <2>2
  <2> QED BY <2>1, <2>3, FS_FiniteSubsetsOfFinite
<1>3. \E x \in F : \A y \in F : <<y, x>> \notin StrictSubsetOrdering(0..t)
  BY <1>2, FS_StrictSubsetOrderingWellFounded, WFMin
<1>4. PICK n \in T : n <= t /\ \A y \in F : <<y, 0..n>> \notin StrictSubsetOrdering(0..t)
  BY <1>3
<1>5. ASSUME NEW m \in T, m < n PROVE FALSE
  <2>1. 0..m \in F /\ 0..m \in SUBSET (0..t) /\ 0..n \in SUBSET (0..t)
    BY <1>5, <1>4, <1>1
  <2>2. 0..m \subseteq 0..n /\ 0..m # 0..n
    <3>1. n \in 0..n /\ n \notin 0..m BY <1>5
    <3> QED BY <3>1, <1>5
  <2> QED BY <2>1, <2>2, <1>4 DEF StrictSubsetOrdering
<1> QED BY <1>5

(* Induction, over a set of numbers. *)
LEMMA Induct ==
    ASSUME NEW T, 0 \in T, \A n \in Nat : n \in T => n + 1 \in T
    PROVE  \A n \in Nat : n \in T
  <1>1. ASSUME Nat \ T # {} PROVE FALSE
    <2>1. PICK n \in Nat \ T : \A m \in Nat \ T : n <= m
      BY <1>1, LeastNat
    <2>2. n # 0
      BY <2>1
    <2>3. n - 1 \in Nat /\ n - 1 \in T
      BY <2>1, <2>2
    <2>4. n - 1 + 1 = n
      BY <2>1
    <2>. QED
      BY <2>1, <2>3, <2>4
  <1>. QED
    BY <1>1

\* A sequence of lists, each the one before with a value appended.
Growing(f, n) ==
    /\ \E z : f[0] = <<z>>
    /\ \A i \in 1..n : \E x : f[i] = Append(f[i - 1], x)

IsList(s, n) == \E S : s \in Seq(S) /\ Len(s) = n

(* What is appended to a list leaves the list in front of it. *)
LEMMA AppendToList ==
    ASSUME NEW s, NEW n \in Nat, IsList(s, n), NEW x
    PROVE  /\ IsList(Append(s, x), n + 1)
           /\ SubSeq(Append(s, x), 1, n) = s
           /\ \A i \in 1..n : Append(s, x)[i] = s[i]
  <1>1. PICK S : s \in Seq(S) /\ Len(s) = n
    BY DEF IsList
  <1>2. s \in Seq(S \cup {x}) /\ x \in S \cup {x}
    BY <1>1, SeqMonotonic
  <1>. DEFINE V == S \cup {x}
              t == Append(s, x)
  <1>3. s \in Seq(V) /\ x \in V
    BY <1>2
  <1>. HIDE DEF V
  <1>4. t \in Seq(V) /\ Len(t) = n + 1 /\ \A i \in 1..n : t[i] = s[i]
    BY <1>1, <1>3, AppendProperties
  <1>5. SubSeq(t, 1, n) = s
    <2>. HIDE DEF t
    <2>1. SubSeq(t, 1, n) \in Seq(V) /\ Len(SubSeq(t, 1, n)) = n
          /\ \A i \in 1..n : SubSeq(t, 1, n)[i] = t[i]
      BY <1>4
    <2>. QED
      BY <1>1, <1>3, <1>4, <2>1, SeqEqual
  <1>. QED
    BY <1>4, <1>5 DEF IsList

(* A list that grows by one value at a time has one value more than it grew. *)
LEMMA GrowingLists ==
    ASSUME NEW f, NEW n \in Nat, Growing(f, n)
    PROVE  \A i \in 0..n : IsList(f[i], i + 1)
  <1>. DEFINE T == {i \in Nat : i <= n => IsList(f[i], i + 1)}
  <1>1. 0 \in T
    <2>1. PICK z : f[0] = <<z>>
      BY DEF Growing
    <2>2. <<z>> \in Seq({z}) /\ Len(<<z>>) = 0 + 1
      OBVIOUS
    <2>3. IsList(<<z>>, 0 + 1)
      BY <2>2 DEF IsList
    <2>4. 0 \in Nat /\ IsList(f[0], 0 + 1)
      BY <2>1, <2>3
    <2>. QED
      BY <2>4
  <1>2. ASSUME NEW i \in Nat, i \in T PROVE i + 1 \in T
    <2>1. CASE i + 1 <= n
      <3>1. IsList(f[i], i + 1)
        BY <1>2, <2>1
      <3>2. PICK j \in Nat : j = i + 1
        OBVIOUS
      <3>3. j \in 1..n /\ j - 1 = i
        BY <2>1, <3>2
      <3>4. PICK x : f[j] = Append(f[i], x)
        BY <3>3 DEF Growing
      <3>5. IsList(Append(f[i], x), j + 1)
        BY <3>1, <3>2, AppendToList
      <3>6. j \in T
        BY <3>4, <3>5
      <3>. QED
        BY <3>2, <3>6
    <2>. QED
      BY <2>1
  <1>. HIDE DEF T
  <1>3. \A i \in Nat : i \in T
    BY <1>1, <1>2, Induct
  <1>. QED
    BY <1>3 DEF T

(* What is appended last is what the list before does not have. *)
LEMMA GrowingFront ==
    ASSUME NEW f, NEW n \in Nat \ {0}, Growing(f, n)
    PROVE  Front(f[n]) = f[n - 1] /\ \A i \in 1..n : f[n][i] = f[n - 1][i]
  <1>1. n - 1 \in Nat /\ n - 1 \in 0..n /\ n - 1 + 1 = n /\ n \in 1..n /\ n \in 0..n
    OBVIOUS
  <1>2. IsList(f[n - 1], n) /\ IsList(f[n], n + 1)
    BY <1>1, GrowingLists
  <1>3. PICK x : f[n] = Append(f[n - 1], x)
    BY <1>1 DEF Growing
  <1>4. SubSeq(f[n], 1, n) = f[n - 1] /\ \A i \in 1..n : f[n][i] = f[n - 1][i]
    BY <1>2, <1>3, AppendToList
  <1>5. Len(f[n]) = n + 1
    BY <1>2 DEF IsList
  <1>6. Len(f[n]) - 1 = n
    BY <1>5
  <1>. QED
    BY <1>4, <1>6 DEF Front

-----------------------------------------------------------------------------
(* A line crossed at one bar was on the other side at the bar before. *)
LEMMA NotAgain ==
    ASSUME NEW x00, NEW x0, NEW x, NEW l00, NEW l0, NEW l
    PROVE  /\ ~(Rises(x00, x0, l00, l0) /\ Rises(x0, x, l0, l))
           /\ ~(Falls(x00, x0, l00, l0) /\ Falls(x0, x, l0, l))
  BY DEF Rises, Falls, \prec, \preceq

(* So is a crossing of a line, and leaving a band. *)
LEMMA CrossesOnce ==
    ASSUME NEW x00, NEW x0, NEW x, NEW l00, NEW l0, NEW l, Crosses(x0, x, l0, l) # 0
    PROVE  Crosses(x0, x, l0, l) # Crosses(x00, x0, l00, l0)
  BY NotAgain DEF Crosses, Choose

LEMMA LeavesOnce ==
    ASSUME NEW x00, NEW x0, NEW x, NEW low, NEW high, Leaves(x0, x, low, high) # 0
    PROVE  Leaves(x0, x, low, high) # Leaves(x00, x0, low, high)
  BY NotAgain DEF Leaves, Choose

(* Front leaves the last element out. *)
LEMMA FrontProperties ==
    ASSUME NEW S, NEW s \in Seq(S), Len(s) > 0
    PROVE  /\ Front(s) \in Seq(S) /\ Len(Front(s)) = Len(s) - 1
           /\ \A i \in 1..(Len(s) - 1) : Front(s)[i] = s[i]
  <1>1. Len(s) \in Nat
    OBVIOUS
  <1>. DEFINE n == Len(s) - 1
  <1>2. n \in Nat /\ \A i \in 1..n : s[i] \in S
    BY <1>1
  <1>3. Front(s) = SubSeq(s, 1, n)
    BY DEF Front
  <1>. HIDE DEF n
  <1>4. /\ SubSeq(s, 1, n) \in Seq(S)
        /\ Len(SubSeq(s, 1, n)) = IF 1 <= n THEN n - 1 + 1 ELSE 0
        /\ \A i \in 1..(n - 1 + 1) : SubSeq(s, 1, n)[i] = s[1 + i - 1]
    BY <1>2, SubSeqProperties
  <1>5. Len(SubSeq(s, 1, n)) = n /\ n - 1 + 1 = n /\ \A i \in 1..n : 1 + i - 1 = i
    BY <1>2, <1>4
  <1>. QED
    BY <1>3, <1>4, <1>5 DEF n

(* The closes of all bars but the last. *)
LEMMA ClosesFront ==
    ASSUME NEW S, NEW some \in Seq(S), Len(some) > 0
    PROVE  Closes(Front(some)) = Front(Closes(some))
  <1>1. Front(some) \in Seq(S) /\ Len(Front(some)) = Len(some) - 1
        /\ \A i \in 1..(Len(some) - 1) : Front(some)[i] = some[i]
    BY FrontProperties
  <1>2. DOMAIN some = 1..Len(some) /\ DOMAIN Front(some) = 1..(Len(some) - 1)
    BY <1>1
  <1>. DEFINE c == Closes(some)
              V == {Whole(some[i].close) : i \in DOMAIN some}
  <1>3. c \in [1..Len(some) -> V] /\ c = [i \in 1..Len(some) |-> Whole(some[i].close)]
    BY <1>2 DEF Closes
  <1>a. \A i \in 1..Len(some) : c[i] = Whole(some[i].close)
    <2>. HIDE DEF c, V
    <2>. QED
      BY <1>3
  <1>4. c \in Seq(V) /\ Len(c) = Len(some)
    <2>. HIDE DEF c, V
    <2>. QED
      BY <1>3
  <1>5. Front(c) \in Seq(V) /\ Len(Front(c)) = Len(some) - 1
        /\ \A i \in 1..(Len(some) - 1) : Front(c)[i] = c[i]
    <2>. HIDE DEF c, V
    <2>. QED
      BY <1>4, FrontProperties
  <1>6. Front(c) = [i \in 1..(Len(some) - 1) |-> Whole(some[i].close)]
    <2>1. Front(c) = [i \in 1..(Len(some) - 1) |-> Front(c)[i]]
      <3>. HIDE DEF c, V
      <3>. QED
        BY <1>5
    <2>2. \A i \in 1..(Len(some) - 1) : Front(c)[i] = Whole(some[i].close)
      <3>. HIDE DEF V, c
      <3>. QED
        BY <1>a, <1>5
    <2>. HIDE DEF c, V
    <2>. QED
      BY <2>1, <2>2
  <1>7. Closes(Front(some)) = [i \in 1..(Len(some) - 1) |-> Whole(some[i].close)]
    BY <1>1, <1>2 DEF Closes
  <1>. QED
    BY <1>6, <1>7

(* No strategy of a group says the same of the bars and of all but the last of them. *)
LEMMA AverageOnce ==
    ASSUME NEW s, Closes(Front(s)) = Front(Closes(s)),
           NEW name \in DOMAIN AverageSignals(s), AverageSignals(s)[name] # 0
    PROVE  AverageSignals(s)[name] # AverageSignals(Front(s))[name]
  <1>0. DOMAIN AverageSignals(s) = {"sma_crossover", "ema_crossover", "macd_signal", "macd_zero"}
    BY DEF AverageSignals
  <1>1. CASE name = "sma_crossover"
    BY <1>1, CrossesOnce DEF AverageSignals
  <1>2. CASE name = "ema_crossover"
    BY <1>2, CrossesOnce DEF AverageSignals
  <1>3. CASE name = "macd_signal"
    BY <1>3, CrossesOnce DEF AverageSignals
  <1>4. CASE name = "macd_zero"
    BY <1>4, CrossesOnce DEF AverageSignals
  <1>. QED
    BY <1>0, <1>1, <1>2, <1>3, <1>4

LEMMA OscillatorOnce ==
    ASSUME NEW s, Closes(Front(s)) = Front(Closes(s)),
           NEW name \in DOMAIN OscillatorSignals(s), OscillatorSignals(s)[name] # 0
    PROVE  OscillatorSignals(s)[name] # OscillatorSignals(Front(s))[name]
  <1>0. DOMAIN OscillatorSignals(s) = {"rsi_mean_reversion", "rsi_regime", "stoch_rsi", "slow_stochastic"}
    BY DEF OscillatorSignals
  <1>1. CASE name = "rsi_mean_reversion"
    BY <1>1, LeavesOnce DEF OscillatorSignals
  <1>2. CASE name = "rsi_regime"
    BY <1>2, LeavesOnce DEF OscillatorSignals
  <1>3. CASE name = "stoch_rsi"
    BY <1>3, NotAgain DEF OscillatorSignals, Choose
  <1>4. CASE name = "slow_stochastic"
    BY <1>4, NotAgain DEF OscillatorSignals, Choose
  <1>. QED
    BY <1>0, <1>1, <1>2, <1>3, <1>4

LEMMA BandOnce ==
    ASSUME NEW s, NEW name \in DOMAIN BandSignals(s) \ Standing, BandSignals(s)[name] # 0
    PROVE  BandSignals(s)[name] # BandSignals(Front(s))[name]
  <1>0. DOMAIN BandSignals(s) = {"bollinger_mean_reversion", "cci_breakout", "cci_mean_reversion", "bollinger_squeeze_breakout"}
    BY DEF BandSignals
  <1>1. CASE name = "bollinger_mean_reversion"
    BY <1>1, NotAgain DEF BandSignals, Choose
  <1>2. CASE name = "cci_breakout"
    BY <1>2, LeavesOnce DEF BandSignals
  <1>3. CASE name = "cci_mean_reversion"
    BY <1>3, LeavesOnce DEF BandSignals
  <1>. QED
    BY <1>0, <1>1, <1>2, <1>3 DEF Standing

(* obv_confirmation compares what Obv made of all bars with what it made of all but the last. *)
LEMMA VolumeOnce ==
    ASSUME NEW s, Obv(Front(s)) = Front(Obv(s)),
           NEW name \in DOMAIN VolumeSignals(s), VolumeSignals(s)[name] # 0
    PROVE  VolumeSignals(s)[name] # VolumeSignals(Front(s))[name]
  <1>0. DOMAIN VolumeSignals(s) = {"obv_confirmation", "cmf_breakout", "mfi_mean_reversion"}
    BY DEF VolumeSignals
  <1>1. CASE name = "obv_confirmation"
    BY <1>1, CrossesOnce DEF VolumeSignals
  <1>2. CASE name = "cmf_breakout"
    BY <1>2, CrossesOnce DEF VolumeSignals
  <1>3. CASE name = "mfi_mean_reversion"
    BY <1>3, LeavesOnce DEF VolumeSignals
  <1>. QED
    BY <1>0, <1>1, <1>2, <1>3

LEMMA TrendOnce ==
    ASSUME NEW s, Closes(Front(s)) = Front(Closes(s)),
           NEW name \in DOMAIN TrendSignals(s) \ Standing, TrendSignals(s)[name] # 0
    PROVE  TrendSignals(s)[name] # TrendSignals(Front(s))[name]
  <1>0. DOMAIN TrendSignals(s) = {"dmi_adx_trend", "aroon_trend", "keltner_breakout", "ichimoku_trend", "atr_breakout"}
    BY DEF TrendSignals
  <1>1. CASE name = "dmi_adx_trend"
    BY <1>1, CrossesOnce DEF TrendSignals
  <1>2. CASE name = "aroon_trend"
    BY <1>2, NotAgain DEF TrendSignals, Choose
  <1>3. CASE name = "keltner_breakout"
    BY <1>3, NotAgain DEF TrendSignals, Choose
  <1>4. CASE name = "ichimoku_trend"
    BY <1>4, NotAgain DEF TrendSignals, Choose
  <1>. QED
    BY <1>0, <1>1, <1>2, <1>3, <1>4 DEF Standing

LEMMA PullbackOnce ==
    ASSUME NEW s, Closes(Front(s)) = Front(Closes(s)),
           NEW name \in DOMAIN PullbackSignals(s), PullbackSignals(s)[name] # 0
    PROVE  PullbackSignals(s)[name] # PullbackSignals(Front(s))[name]
  <1>0. DOMAIN PullbackSignals(s) = {"ema_pullback", "triple_ma_trend", "vwap_mean_reversion"}
    BY DEF PullbackSignals
  <1>1. CASE name = "ema_pullback"
    BY <1>1, NotAgain DEF PullbackSignals, Choose
  <1>2. CASE name = "triple_ma_trend"
    BY <1>2 DEF PullbackSignals, Choose
  <1>3. CASE name = "vwap_mean_reversion"
    BY <1>3, NotAgain DEF PullbackSignals, Choose
  <1>. QED
    BY <1>0, <1>1, <1>2, <1>3

-----------------------------------------------------------------------------
\* What Obv scans: the positions of the bars after the first, and the sums so far.
Later(s) == [k \in 1..(Len(s) - 1) |-> k + 1]
ObvStep(s, sum, i) ==
    LET rise == s[i].close - s[i - 1].close IN
    IF rise > 0 THEN sum + s[i].volume ELSE IF rise < 0 THEN sum - s[i].volume ELSE sum
ObvRun(f, s) ==
    f = [i \in 0..Len(Later(s)) |->
            IF i = 0 THEN <<0>>
            ELSE LET done == f[i - 1] IN Append(done, ObvStep(s, Last(done), Later(s)[i]))]

(* Obv is the last value of a recursive function, spelled out, and so is HeikinAshi. *)
LEMMA ObvIsRun == ASSUME NEW s PROVE Obv(s) = (CHOOSE f : ObvRun(f, s))[Len(Later(s))]
  BY DEF Obv, Scan, ObvRun, ObvStep, Later

HeikinClose(bar) == Fraction(bar.open + bar.high + bar.low + bar.close, 4)
HeikinStep(candle, bar) == [open |-> (candle.open ++ candle.close) // Whole(2), close |-> HeikinClose(bar)]
HeikinStart(bar) == [open |-> Fraction(bar.open + bar.close, 2), close |-> HeikinClose(bar)]
HeikinRun(f, s) ==
    f = [i \in 0..Len(Tail(s)) |->
            IF i = 0 THEN <<HeikinStart(s[1])>>
            ELSE LET done == f[i - 1] IN Append(done, HeikinStep(Last(done), Tail(s)[i]))]

LEMMA HeikinIsRun == ASSUME NEW s PROVE HeikinAshi(s) = (CHOOSE f : HeikinRun(f, s))[Len(Tail(s))]
  BY DEF HeikinAshi, Scan, HeikinRun, HeikinStep, HeikinStart, HeikinClose

(* The recursive functions exist. *)
LEMMA ObvExists ==
    ASSUME NEW s, NEW n \in Nat
    PROVE  \E f : f = [i \in 0..n |->
                          IF i = 0 THEN <<0>>
                          ELSE LET done == f[i - 1] IN Append(done, ObvStep(s, Last(done), Later(s)[i]))]
  <1>. DEFINE next(done, i) == Append(done, ObvStep(s, Last(done), Later(s)[i]))
              Run(f, k) == f = [i \in 0..k |-> IF i = 0 THEN <<0>> ELSE next(f[i - 1], i)]
              T == {k \in Nat : \E f : Run(f, k)}
  <1>. HIDE DEF next
  <1>1. 0 \in T
    <2>1. Run([i \in 0..0 |-> <<0>>], 0)
      OBVIOUS
    <2>. QED
      BY <2>1
  <1>2. ASSUME NEW k \in Nat, k \in T PROVE k + 1 \in T
    <2>1. PICK g : Run(g, k)
      BY <1>2
    <2>. DEFINE h == [i \in 0..(k + 1) |-> IF i = k + 1 THEN next(g[k], k + 1) ELSE g[i]]
    <2>2. \A i \in 0..(k + 1) : h[i] = IF i = 0 THEN <<0>> ELSE next(h[i - 1], i)
      <3>. SUFFICES ASSUME NEW i \in 0..(k + 1) PROVE h[i] = IF i = 0 THEN <<0>> ELSE next(h[i - 1], i)
        OBVIOUS
      <3>1. CASE i = k + 1
        <4>1. i - 1 = k /\ k \in 0..(k + 1) /\ k # k + 1 /\ i # 0
          BY <3>1
        <4>2. h[k] = g[k] /\ h[i] = next(g[k], i)
          BY <3>1, <4>1
        <4>. HIDE DEF h
        <4>. QED
          BY <4>1, <4>2
      <3>2. CASE i # k + 1
        <4>1. i \in 0..k
          BY <3>2
        <4>2. g[i] = IF i = 0 THEN <<0>> ELSE next(g[i - 1], i)
          BY <2>1, <4>1
        <4>3. h[i] = g[i]
          BY <3>2
        <4>4. CASE i = 0
          BY <4>2, <4>3, <4>4
        <4>5. CASE i # 0
          <5>1. i - 1 \in 0..(k + 1) /\ i - 1 # k + 1
            BY <4>1, <4>5
          <5>2. h[i - 1] = g[i - 1]
            BY <5>1
          <5>. HIDE DEF h, Run
          <5>. QED
            BY <4>2, <4>3, <4>5, <5>2
        <4>. QED
          BY <4>4, <4>5
      <3>. QED
        BY <3>1, <3>2
    <2>3. Run(h, k + 1)
      <3>1. h = [i \in 0..(k + 1) |-> h[i]]
        OBVIOUS
      <3>. HIDE DEF h
      <3>. QED
        BY <2>2, <3>1
    <2>. HIDE DEF Run, h
    <2>. QED
      BY <2>3
  <1>3. n \in T
    <2>. HIDE DEF T
    <2>. QED
      BY <1>1, <1>2, Induct
  <1>4. \E f : Run(f, n)
    BY <1>3
  <1>. QED
    BY <1>4 DEF next

LEMMA HeikinExists ==
    ASSUME NEW s, NEW n \in Nat
    PROVE  \E f : f = [i \in 0..n |->
                          IF i = 0 THEN <<HeikinStart(s[1])>>
                          ELSE LET done == f[i - 1] IN Append(done, HeikinStep(Last(done), Tail(s)[i]))]
  <1>. DEFINE start == <<HeikinStart(s[1])>>
              next(done, i) == Append(done, HeikinStep(Last(done), Tail(s)[i]))
              Run(f, k) == f = [i \in 0..k |-> IF i = 0 THEN start ELSE next(f[i - 1], i)]
              T == {k \in Nat : \E f : Run(f, k)}
  <1>. HIDE DEF next, start
  <1>1. 0 \in T
    <2>1. Run([i \in 0..0 |-> start], 0)
      OBVIOUS
    <2>. QED
      BY <2>1
  <1>2. ASSUME NEW k \in Nat, k \in T PROVE k + 1 \in T
    <2>1. PICK g : Run(g, k)
      BY <1>2
    <2>. DEFINE h == [i \in 0..(k + 1) |-> IF i = k + 1 THEN next(g[k], k + 1) ELSE g[i]]
    <2>2. \A i \in 0..(k + 1) : h[i] = IF i = 0 THEN start ELSE next(h[i - 1], i)
      <3>. SUFFICES ASSUME NEW i \in 0..(k + 1) PROVE h[i] = IF i = 0 THEN start ELSE next(h[i - 1], i)
        OBVIOUS
      <3>1. CASE i = k + 1
        <4>1. i - 1 = k /\ k \in 0..(k + 1) /\ k # k + 1 /\ i # 0
          BY <3>1
        <4>2. h[k] = g[k] /\ h[i] = next(g[k], i)
          BY <3>1, <4>1
        <4>. HIDE DEF h
        <4>. QED
          BY <4>1, <4>2
      <3>2. CASE i # k + 1
        <4>1. i \in 0..k
          BY <3>2
        <4>2. g[i] = IF i = 0 THEN start ELSE next(g[i - 1], i)
          BY <2>1, <4>1
        <4>3. h[i] = g[i]
          BY <3>2
        <4>4. CASE i = 0
          BY <4>2, <4>3, <4>4
        <4>5. CASE i # 0
          <5>1. i - 1 \in 0..(k + 1) /\ i - 1 # k + 1
            BY <4>1, <4>5
          <5>2. h[i - 1] = g[i - 1]
            BY <5>1
          <5>. HIDE DEF h, Run
          <5>. QED
            BY <4>2, <4>3, <4>5, <5>2
        <4>. QED
          BY <4>4, <4>5
      <3>. QED
        BY <3>1, <3>2
    <2>3. Run(h, k + 1)
      <3>1. h = [i \in 0..(k + 1) |-> h[i]]
        OBVIOUS
      <3>. HIDE DEF h
      <3>. QED
        BY <2>2, <3>1
    <2>. HIDE DEF Run, h
    <2>. QED
      BY <2>3
  <1>3. n \in T
    <2>. HIDE DEF T
    <2>. QED
      BY <1>1, <1>2, Induct
  <1>4. \E f : Run(f, n)
    BY <1>3
  <1>. QED
    BY <1>4 DEF next, start

(* Bars after the first, and what Obv makes of them but for the last. *)
LEMMA ObvFront ==
    ASSUME NEW S, NEW s \in Seq(S), Len(s) > 1
    PROVE  Obv(Front(s)) = Front(Obv(s))
  <1>. DEFINE n == Len(s) - 1
              f == CHOOSE f : ObvRun(f, s)
              g == CHOOSE g : ObvRun(g, Front(s))
              next(t, done, i) == Append(done, ObvStep(t, Last(done), Later(t)[i]))
  <1>1. /\ n \in Nat /\ n > 0 /\ Len(Front(s)) = n /\ \A i \in 1..n : Front(s)[i] = s[i]
        /\ n - 1 \in Nat
    BY FrontProperties
  <1>2. /\ Len(Later(s)) = n /\ \A i \in 1..n : Later(s)[i] = i + 1
        /\ Len(Later(Front(s))) = n - 1 /\ \A i \in 1..(n - 1) : Later(Front(s))[i] = i + 1
    <2>1. \A t, m : m \in Nat /\ Len(t) - 1 = m => Len(Later(t)) = m /\ \A i \in 1..m : Later(t)[i] = i + 1
      BY DEF Later
    <2>2. Len(s) - 1 = n /\ Len(Front(s)) - 1 = n - 1
      BY <1>1
    <2>. HIDE DEF n
    <2>. QED
      BY <1>1, <2>1, <2>2
  <1>3. ObvRun(f, s) /\ ObvRun(g, Front(s))
    <2>1. \E x : ObvRun(x, s)
      <3>1. Len(Later(s)) \in Nat
        BY <1>1, <1>2
      <3>. HIDE DEF n
      <3>. QED
        BY <3>1, ObvExists DEF ObvRun
    <2>2. \E x : ObvRun(x, Front(s))
      <3>1. Len(Later(Front(s))) \in Nat
        BY <1>1, <1>2
      <3>. HIDE DEF n
      <3>. QED
        BY <3>1, ObvExists DEF ObvRun
    <2>. QED
      BY <2>1, <2>2
  <1>4. Obv(s) = f[n] /\ Obv(Front(s)) = g[n - 1]
    BY <1>2, ObvIsRun
  <1>. HIDE DEF f, g, n
  <1>5. /\ \A i \in 0..n : f[i] = IF i = 0 THEN <<0>> ELSE next(s, f[i - 1], i)
        /\ \A i \in 0..(n - 1) : g[i] = IF i = 0 THEN <<0>> ELSE next(Front(s), g[i - 1], i)
    <2>. HIDE DEF next
    <2>1. f = [i \in 0..n |-> IF i = 0 THEN <<0>> ELSE next(s, f[i - 1], i)]
      BY <1>2, <1>3 DEF ObvRun, next
    <2>2. g = [i \in 0..(n - 1) |-> IF i = 0 THEN <<0>> ELSE next(Front(s), g[i - 1], i)]
      BY <1>2, <1>3 DEF ObvRun, next
    <2>. QED
      BY <2>1, <2>2
  <1>6. ASSUME NEW i \in 1..(n - 1), NEW done PROVE next(Front(s), done, i) = next(s, done, i)
    <2>1. i + 1 \in 1..n /\ i + 1 - 1 \in 1..n /\ i \in 1..n
      BY <1>1
    <2>2. Front(s)[i + 1] = s[i + 1] /\ Front(s)[i + 1 - 1] = s[i + 1 - 1]
      BY <1>1, <2>1
    <2>3. ObvStep(Front(s), Last(done), i + 1) = ObvStep(s, Last(done), i + 1)
      BY <2>2 DEF ObvStep
    <2>4. Later(s)[i] = i + 1 /\ Later(Front(s))[i] = i + 1
      BY <1>2, <2>1
    <2>. QED
      BY <2>3, <2>4
  <1>7. \A i \in 0..(n - 1) : g[i] = f[i]
    <2>. DEFINE T == {i \in Nat : i <= n - 1 => g[i] = f[i]}
    <2>1. 0 \in T
      BY <1>1, <1>5
    <2>2. ASSUME NEW i \in Nat, i \in T PROVE i + 1 \in T
      <3>1. CASE i + 1 <= n - 1
        <4>1. PICK j \in Nat : j = i + 1
          OBVIOUS
        <4>2. j \in 1..(n - 1) /\ j \in 0..n /\ j \in 0..(n - 1) /\ j # 0 /\ j - 1 = i
          BY <1>1, <3>1, <4>1
        <4>3. g[i] = f[i]
          BY <2>2, <3>1, <1>1
        <4>. HIDE DEF next
        <4>4. g[j] = next(Front(s), g[i], j) /\ f[j] = next(s, f[i], j)
          BY <1>5, <4>2
        <4>5. g[j] = f[j]
          BY <1>6, <4>2, <4>3, <4>4
        <4>. QED
          BY <4>1, <4>5
      <3>. QED
        BY <3>1
    <2>3. \A i \in Nat : i \in T
      <3>. HIDE DEF T
      <3>. QED
        BY <2>1, <2>2, Induct
    <2>. QED
      BY <1>1, <2>3
  <1>8. Growing(f, n)
    <2>1. f[0] = <<0>>
      BY <1>1, <1>5
    <2>2. \A i \in 1..n : f[i] = next(s, f[i - 1], i)
      <3>. HIDE DEF next
      <3>. QED
        BY <1>1, <1>5
    <2>. QED
      BY <2>1, <2>2 DEF Growing
  <1>9. Front(f[n]) = f[n - 1]
    BY <1>1, <1>8, GrowingFront
  <1>. QED
    BY <1>1, <1>4, <1>7, <1>9

LEMMA HeikinFront ==
    ASSUME NEW S, NEW s \in Seq(S), Len(s) > 1
    PROVE  /\ HeikinAshi(Front(s)) = Front(HeikinAshi(s))
           /\ \A i \in 1..(Len(s) - 1) : HeikinAshi(Front(s))[i] = HeikinAshi(s)[i]
  <1>. DEFINE start == <<HeikinStart(s[1])>>
              n == Len(s) - 1
              f == CHOOSE f : HeikinRun(f, s)
              g == CHOOSE g : HeikinRun(g, Front(s))
              next(t, done, i) == Append(done, HeikinStep(Last(done), Tail(t)[i]))
  <1>1. /\ n \in Nat /\ n > 0 /\ Len(Front(s)) = n /\ \A i \in 1..n : Front(s)[i] = s[i]
        /\ n - 1 \in Nat
    BY FrontProperties
  <1>2. /\ Len(Tail(s)) = n /\ \A i \in 1..n : Tail(s)[i] = s[i + 1]
        /\ Len(Tail(Front(s))) = n - 1 /\ \A i \in 1..(n - 1) : Tail(Front(s))[i] = Front(s)[i + 1]
        /\ Front(s)[1] = s[1]
    <2>1. Front(s) \in Seq(S) /\ Front(s) # <<>> /\ s # <<>>
      BY <1>1, FrontProperties
    <2>2. /\ Len(Tail(s)) = Len(s) - 1 /\ \A i \in 1..(Len(s) - 1) : Tail(s)[i] = s[i + 1]
          /\ Len(Tail(Front(s))) = Len(Front(s)) - 1
          /\ \A i \in 1..(Len(Front(s)) - 1) : Tail(Front(s))[i] = Front(s)[i + 1]
      BY <2>1, HeadTailProperties
    <2>. QED
      BY <1>1, <2>2
  <1>3. HeikinRun(f, s) /\ HeikinRun(g, Front(s))
    <2>1. \E x : HeikinRun(x, s)
      <3>1. Len(Tail(s)) \in Nat
        BY <1>1, <1>2
      <3>. HIDE DEF n
      <3>. QED
        BY <3>1, HeikinExists DEF HeikinRun
    <2>2. \E x : HeikinRun(x, Front(s))
      <3>1. Len(Tail(Front(s))) \in Nat
        BY <1>1, <1>2
      <3>. HIDE DEF n
      <3>. QED
        BY <3>1, HeikinExists DEF HeikinRun
    <2>. QED
      BY <2>1, <2>2
  <1>4. HeikinAshi(s) = f[n] /\ HeikinAshi(Front(s)) = g[n - 1]
    BY <1>2, HeikinIsRun
  <1>. HIDE DEF f, g, n, start
  <1>5. /\ \A i \in 0..n : f[i] = IF i = 0 THEN start ELSE next(s, f[i - 1], i)
        /\ \A i \in 0..(n - 1) : g[i] = IF i = 0 THEN start ELSE next(Front(s), g[i - 1], i)
    <2>. HIDE DEF next
    <2>1. f = [i \in 0..n |-> IF i = 0 THEN start ELSE next(s, f[i - 1], i)]
      BY <1>2, <1>3 DEF HeikinRun, next, start
    <2>2. g = [i \in 0..(n - 1) |-> IF i = 0 THEN start ELSE next(Front(s), g[i - 1], i)]
      BY <1>2, <1>3 DEF HeikinRun, next, start
    <2>. QED
      BY <2>1, <2>2
  <1>6. ASSUME NEW i \in 1..(n - 1), NEW done PROVE next(Front(s), done, i) = next(s, done, i)
    <2>1. i + 1 \in 1..n /\ i \in 1..n
      BY <1>1
    <2>2. Front(s)[i + 1] = s[i + 1]
      BY <1>1, <2>1
    <2>3. Tail(s)[i] = s[i + 1] /\ Tail(Front(s))[i] = Front(s)[i + 1]
      BY <1>2, <2>1
    <2>. QED
      BY <2>2, <2>3
  <1>7. \A i \in 0..(n - 1) : g[i] = f[i]
    <2>. DEFINE T == {i \in Nat : i <= n - 1 => g[i] = f[i]}
    <2>1. 0 \in T
      BY <1>1, <1>5
    <2>2. ASSUME NEW i \in Nat, i \in T PROVE i + 1 \in T
      <3>1. CASE i + 1 <= n - 1
        <4>1. PICK j \in Nat : j = i + 1
          OBVIOUS
        <4>2. j \in 1..(n - 1) /\ j \in 0..n /\ j \in 0..(n - 1) /\ j # 0 /\ j - 1 = i
          BY <1>1, <3>1, <4>1
        <4>3. g[i] = f[i]
          BY <2>2, <3>1, <1>1
        <4>. HIDE DEF next
        <4>4. g[j] = next(Front(s), g[i], j) /\ f[j] = next(s, f[i], j)
          BY <1>5, <4>2
        <4>5. g[j] = f[j]
          BY <1>6, <4>2, <4>3, <4>4
        <4>. QED
          BY <4>1, <4>5
      <3>. QED
        BY <3>1
    <2>3. \A i \in Nat : i \in T
      <3>. HIDE DEF T
      <3>. QED
        BY <2>1, <2>2, Induct
    <2>. QED
      BY <1>1, <2>3
  <1>8. Growing(f, n)
    <2>1. f[0] = start
      BY <1>1, <1>5
    <2>2. \A i \in 1..n : f[i] = next(s, f[i - 1], i)
      <3>. HIDE DEF next
      <3>. QED
        BY <1>1, <1>5
    <2>. QED
      BY <2>1, <2>2 DEF Growing, start
  <1>9. Front(f[n]) = f[n - 1] /\ \A i \in 1..n : f[n][i] = f[n - 1][i]
    BY <1>1, <1>8, GrowingFront
  <1>. QED
    BY <1>1, <1>4, <1>7, <1>9 DEF n

-----------------------------------------------------------------------------
(* Some of the first numbers have a greatest and a least value. *)
LEMMA GreatestAndLeast ==
    ASSUME NEW f, NEW n \in Nat, \A i \in 1..(n + 1) : f[i] \in Int
    PROVE  /\ Max({f[i] : i \in 1..(n + 1)}) \in Int
           /\ Min({f[i] : i \in 1..(n + 1)}) \in Int
           /\ \E i \in 1..(n + 1) : Max({f[j] : j \in 1..(n + 1)}) = f[i]
           /\ \E i \in 1..(n + 1) : Min({f[j] : j \in 1..(n + 1)}) = f[i]
           /\ \A i \in 1..(n + 1) : f[i] <= Max({f[j] : j \in 1..(n + 1)})
           /\ \A i \in 1..(n + 1) : Min({f[j] : j \in 1..(n + 1)}) <= f[i]
  <1>. DEFINE T == {k \in Nat : k <= n => /\ \E i \in 1..(k + 1) : \A j \in 1..(k + 1) : f[j] <= f[i]
                                          /\ \E i \in 1..(k + 1) : \A j \in 1..(k + 1) : f[i] <= f[j]}
  <1>1. 0 \in T
    OBVIOUS
  <1>2. ASSUME NEW k \in Nat, k \in T PROVE k + 1 \in T
    <2>. SUFFICES ASSUME k + 1 <= n
                  PROVE  /\ \E i \in 1..(k + 1 + 1) : \A j \in 1..(k + 1 + 1) : f[j] <= f[i]
                         /\ \E i \in 1..(k + 1 + 1) : \A j \in 1..(k + 1 + 1) : f[i] <= f[j]
      OBVIOUS
    <2>1. k <= n /\ 1..(k + 1 + 1) = (1..(k + 1)) \cup {k + 1 + 1} /\ 1..(k + 1 + 1) \subseteq 1..(n + 1)
      OBVIOUS
    <2>2. PICK a \in 1..(k + 1) : \A j \in 1..(k + 1) : f[j] <= f[a]
      BY <1>2, <2>1
    <2>3. PICK b \in 1..(k + 1) : \A j \in 1..(k + 1) : f[b] <= f[j]
      BY <1>2, <2>1
    <2>4. \A j \in 1..(k + 1 + 1) : f[j] \in Int
      BY <2>1
    <2>. PICK m : m = k + 1 + 1
      OBVIOUS
    <2>5. f[a] <= f[m] \/ f[m] <= f[a]
      BY <2>1, <2>4
    <2>6. f[b] <= f[m] \/ f[m] <= f[b]
      BY <2>1, <2>4
    <2>7. \E i \in 1..m : \A j \in 1..m : f[j] <= f[i]
      BY <2>1, <2>2, <2>4, <2>5
    <2>8. \E i \in 1..m : \A j \in 1..m : f[i] <= f[j]
      BY <2>1, <2>3, <2>4, <2>6
    <2>. QED
      BY <2>7, <2>8
  <1>3. n \in T
    <2>. HIDE DEF T
    <2>. QED
      BY <1>1, <1>2, Induct
  <1>. DEFINE V == {f[i] : i \in 1..(n + 1)}
  <1>4. \E x \in V : \A y \in V : x >= y
    BY <1>3
  <1>5. \E x \in V : \A y \in V : x <= y
    BY <1>3
  <1>6. V \subseteq Int
    OBVIOUS
  <1>. HIDE DEF V
  <1>7. Max(V) \in V /\ Min(V) \in V /\ \A y \in V : Max(V) >= y /\ Min(V) <= y
    BY <1>4, <1>5 DEF Max, Min
  <1>8. Max(V) \in Int /\ Min(V) \in Int
    BY <1>6, <1>7
  <1>9. \A i \in 1..(n + 1) : f[i] \in V
    BY DEF V
  <1>10. \A i \in 1..(n + 1) : f[i] <= Max(V) /\ Min(V) <= f[i]
    BY <1>7, <1>8, <1>9
  <1>11. (\E i \in 1..(n + 1) : Max(V) = f[i]) /\ (\E i \in 1..(n + 1) : Min(V) = f[i])
    BY <1>7 DEF V
  <1>. QED
    BY <1>8, <1>10, <1>11 DEF V

LEMMA Extremes ==
    ASSUME NEW f, NEW n \in Nat, \A i \in 1..(n + 1) : f[i] \in Int
    PROVE  /\ Max({f[i] : i \in 1..(n + 1)}) \in Int
           /\ Min({f[i] : i \in 1..(n + 1)}) \in Int
  BY GreatestAndLeast

-----------------------------------------------------------------------------
PriceBar == [open : Int, high : Int, low : Int, close : Int, volume : Int]

(* The edges of a channel are numbers: it has bars. *)
LEMMA ChannelEdges ==
    ASSUME NEW s \in Seq(PriceBar), Len(s) >= Period
    PROVE  Highest(Recent(s, Period)) \in Int /\ Lowest(Recent(s, Period)) \in Int
  <1>. USE PeriodAssumption
  <1>. DEFINE r == Recent(s, Period)
              n == Period - 1
  <1>1. n \in Nat /\ n + 1 = Period /\ Len(s) \in Nat
    OBVIOUS
  <1>2. DOMAIN r = 1..(n + 1) /\ \A i \in 1..(n + 1) : r[i] \in PriceBar
    <2>1. \A i \in (Len(s) - Period + 1)..Len(s) : s[i] \in PriceBar
      OBVIOUS
    <2>2. Len(s) - (Len(s) - Period + 1) + 1 = Period /\ Len(s) - Period + 1 <= Len(s)
      BY <1>1
    <2>3. r \in Seq(PriceBar) /\ Len(r) = Period
      BY <1>1, <2>1, <2>2, SubSeqProperties DEF Recent
    <2>. HIDE DEF r
    <2>. QED
      BY <1>1, <2>3
  <1>. DEFINE h == [i \in 1..(n + 1) |-> r[i].high]
              l == [i \in 1..(n + 1) |-> r[i].low]
  <1>. HIDE DEF r, n
  <1>3. \A i \in 1..(n + 1) : h[i] \in Int /\ l[i] \in Int
    BY <1>2 DEF PriceBar
  <1>4. {h[i] : i \in 1..(n + 1)} = {r[i].high : i \in DOMAIN r}
    BY <1>2
  <1>5. {l[i] : i \in 1..(n + 1)} = {r[i].low : i \in DOMAIN r}
    BY <1>2
  <1>6. Max({h[i] : i \in 1..(n + 1)}) \in Int /\ Min({l[i] : i \in 1..(n + 1)}) \in Int
    <2>. HIDE DEF h, l
    <2>. QED
      BY <1>1, <1>3, Extremes
  <1>. QED
    BY <1>4, <1>5, <1>6 DEF Highest, Lowest, r

(* donchian_mean_reversion comes back over an edge that the close before was not inside of. *)
LEMMA ChannelOnce ==
    ASSUME NEW s \in Seq(PriceBar), Len(s) > Period + 1,
           NEW name \in DOMAIN ChannelSignals(s) \ Standing, ChannelSignals(s)[name] # 0
    PROVE  ChannelSignals(s)[name] # ChannelSignals(Front(s))[name]
  <1>0. DOMAIN ChannelSignals(s) = {"williams_r", "donchian_breakout", "donchian_mean_reversion", "roc_momentum"}
    BY DEF ChannelSignals
  <1>1. CASE name = "williams_r"
    BY <1>1, LeavesOnce DEF ChannelSignals
  <1>2. CASE name = "roc_momentum"
    BY <1>2, CrossesOnce DEF ChannelSignals
  <1>3. CASE name = "donchian_mean_reversion"
    <2>. DEFINE was == Front(s)
                close0 == was[Len(was)].close
                top == Highest(Recent(was, Period))
                bottom == Lowest(Recent(was, Period))
    <2>1. was \in Seq(PriceBar) /\ Len(was) >= Period /\ Len(was) > 0
      BY PeriodAssumption, FrontProperties
    <2>2. close0 \in Int /\ top \in Int /\ bottom \in Int
      <3>1. was[Len(was)] \in PriceBar
        <4>. HIDE DEF was
        <4>. QED
          BY <2>1
      <3>. QED
        BY <2>1, <3>1, ChannelEdges DEF PriceBar
    <2>3. ChannelSignals(s)[name] = 1 => close0 <= bottom
      BY <1>3 DEF ChannelSignals, Choose
    <2>4. ChannelSignals(was)[name] = 1 => close0 > bottom
      BY <1>3 DEF ChannelSignals, Choose
    <2>5. ChannelSignals(s)[name] = -1 => close0 >= top
      BY <1>3 DEF ChannelSignals, Choose
    <2>6. ChannelSignals(was)[name] = -1 => close0 < top
      BY <1>3 DEF ChannelSignals, Choose
    <2>7. ChannelSignals(s)[name] \in {1, -1}
      BY <1>3 DEF ChannelSignals, Choose
    <2>. HIDE DEF close0, top, bottom
    <2>. QED
      BY <2>2, <2>3, <2>4, <2>5, <2>6, <2>7
  <1>. QED
    BY <1>0, <1>1, <1>2, <1>3 DEF Standing

(* heikin_ashi_trend: the candles of all bars but the last do not depend on the last. *)
LEMMA BreakoutOnce ==
    ASSUME NEW s \in Seq(PriceBar), Len(s) > Period + 1, Closes(Front(s)) = Front(Closes(s)),
           NEW name \in DOMAIN BreakoutSignals(s) \ Standing, BreakoutSignals(s)[name] # 0
    PROVE  BreakoutSignals(s)[name] # BreakoutSignals(Front(s))[name]
  <1>0. DOMAIN BreakoutSignals(s) = {"volume_spike_breakout", "heikin_ashi_trend", "chandelier_trend"}
    BY DEF BreakoutSignals
  <1>1. CASE name = "chandelier_trend"
    <2>. DEFINE was == Front(s)
                stop(some, sign) ==
                    IF sign = 1 THEN Whole(Highest(Recent(some, Period))) -- (Whole(Deviations) ** Atr(some, Period))
                    ELSE Whole(Lowest(Recent(some, Period))) ++ (Whole(Deviations) ** Atr(some, Period))
                rises(some) ==
                    Rises(Last(Closes(Front(some))), Last(Closes(some)), stop(Front(some), 1), stop(some, 1))
                falls(some) ==
                    Falls(Last(Closes(Front(some))), Last(Closes(some)), stop(Front(some), -1), stop(some, -1))
                says(some) == Choose(rises(some), falls(some))
    <2>1. BreakoutSignals(s)[name] = says(s)
      BY <1>1 DEF BreakoutSignals
    <2>2. BreakoutSignals(was)[name] = says(was)
      BY <1>1 DEF BreakoutSignals
    <2>. HIDE DEF stop, was
    <2>3. ~(rises(was) /\ rises(s)) /\ ~(falls(was) /\ falls(s))
      BY NotAgain, Zenon DEF was
    <2>. HIDE DEF rises, falls
    <2>4. says(s) # 0 => says(s) # says(was)
      BY <2>3 DEF Choose
    <2>. HIDE DEF says
    <2>. QED
      BY <2>1, <2>2, <2>4 DEF was
  <1>2. CASE name = "heikin_ashi_trend"
    <2>. DEFINE was == Front(s)
                n == Len(s) - 1
                candle == HeikinAshi(s)
                candle0 == HeikinAshi(was)
                rising == \A i \in (n - Period + 1)..n : Bullish(candle[i], s[i])
                falling == \A i \in (n - Period + 1)..n : Bearish(candle[i], s[i])
                rising0 == \A i \in (n - Period + 1)..n : Bullish(candle0[i], was[i])
                falling0 == \A i \in (n - Period + 1)..n : Bearish(candle0[i], was[i])
    <2>1. n \in Nat /\ n > Period /\ Len(was) = n /\ \A i \in 1..n : was[i] = s[i] /\ candle0[i] = candle[i]
      <3>1. Len(s) \in Nat /\ Len(s) > 1 /\ Len(s) > 0 /\ n \in Nat /\ n > Period
        BY PeriodAssumption
      <3>2. Len(was) = n /\ \A i \in 1..n : was[i] = s[i]
        BY <3>1, FrontProperties
      <3>3. \A i \in 1..n : candle0[i] = candle[i]
        BY <3>1, HeikinFront
      <3>. HIDE DEF was, n, candle, candle0
      <3>. QED
        BY <3>1, <3>2, <3>3
    <2>2. \A i \in (n - Period + 1)..n : was[i] = s[i] /\ candle0[i] = candle[i]
      <3>. HIDE DEF was, n, candle, candle0
      <3>1. Period \in Nat
        BY PeriodAssumption
      <3>2. \A i \in (n - Period + 1)..n : i \in 1..n
        BY <2>1, <3>1
      <3>. QED
        BY <2>1, <3>2
    <2>3. rising = rising0 /\ falling = falling0
      <3>. HIDE DEF was, n, candle, candle0
      <3>. QED
        BY <2>2
    <2>4. BreakoutSignals(s)[name] = 1 => ~rising
      BY <1>2 DEF BreakoutSignals, Choose
    <2>5. BreakoutSignals(was)[name] = 1 => rising0
      BY <1>2, <2>1 DEF BreakoutSignals, Choose
    <2>6. BreakoutSignals(s)[name] = -1 => ~falling
      BY <1>2 DEF BreakoutSignals, Choose
    <2>7. BreakoutSignals(was)[name] = -1 => falling0
      BY <1>2, <2>1 DEF BreakoutSignals, Choose
    <2>8. BreakoutSignals(s)[name] \in {1, -1}
      BY <1>2 DEF BreakoutSignals, Choose
    <2>. HIDE DEF rising, falling, rising0, falling0
    <2>. QED
      BY <2>3, <2>4, <2>5, <2>6, <2>7, <2>8
  <1>. QED
    BY <1>0, <1>1, <1>2 DEF Standing

(* The answer of a joined group is that of the first part that has the strategy. *)
LEMMA JoinedOnce ==
    ASSUME NEW f, NEW g, NEW f0, NEW g0, NEW Some, DOMAIN f0 = DOMAIN f, DOMAIN g0 = DOMAIN g,
           Changes(Some, f0, f), Changes(Some, g0, g)
    PROVE  Changes(Some, f0 & g0, f & g) /\ DOMAIN (f0 & g0) = DOMAIN (f & g)
  BY DEF Changes, &

(* No strategy but the standing ones says the same of two bars in a row. *)
LEMMA SignalsOnce ==
    ASSUME NEW s \in Seq(PriceBar), Len(s) > Period + 1
    PROVE  Changes(Standing, Signals(Front(s)), Signals(s))
  <1>. DEFINE was == Front(s)
  <1>1. Len(s) > 0 /\ Len(s) > 1
    BY PeriodAssumption
  <1>2. Closes(was) = Front(Closes(s)) /\ Obv(was) = Front(Obv(s))
    BY <1>1, ClosesFront, ObvFront
  <1>3. Changes(Standing, AverageSignals(was), AverageSignals(s))
        /\ DOMAIN AverageSignals(was) = DOMAIN AverageSignals(s)
    <2>1. DOMAIN AverageSignals(was) = DOMAIN AverageSignals(s)
      BY DEF AverageSignals
    <2>. QED
      BY <1>2, <2>1, AverageOnce DEF Changes
  <1>4. Changes(Standing, OscillatorSignals(was), OscillatorSignals(s))
        /\ DOMAIN OscillatorSignals(was) = DOMAIN OscillatorSignals(s)
    <2>1. DOMAIN OscillatorSignals(was) = DOMAIN OscillatorSignals(s)
      BY DEF OscillatorSignals
    <2>. QED
      BY <1>2, <2>1, OscillatorOnce DEF Changes
  <1>5. Changes(Standing, BandSignals(was), BandSignals(s))
        /\ DOMAIN BandSignals(was) = DOMAIN BandSignals(s)
    <2>1. DOMAIN BandSignals(was) = DOMAIN BandSignals(s)
      BY DEF BandSignals
    <2>. QED
      BY <2>1, BandOnce DEF Changes
  <1>6. Changes(Standing, VolumeSignals(was), VolumeSignals(s))
        /\ DOMAIN VolumeSignals(was) = DOMAIN VolumeSignals(s)
    <2>1. DOMAIN VolumeSignals(was) = DOMAIN VolumeSignals(s)
      BY DEF VolumeSignals
    <2>. QED
      BY <1>2, <2>1, VolumeOnce DEF Changes
  <1>7. Changes(Standing, TrendSignals(was), TrendSignals(s))
        /\ DOMAIN TrendSignals(was) = DOMAIN TrendSignals(s)
    <2>1. DOMAIN TrendSignals(was) = DOMAIN TrendSignals(s)
      BY DEF TrendSignals
    <2>. QED
      BY <1>2, <2>1, TrendOnce DEF Changes
  <1>8. Changes(Standing, ChannelSignals(was), ChannelSignals(s))
        /\ DOMAIN ChannelSignals(was) = DOMAIN ChannelSignals(s)
    <2>1. DOMAIN ChannelSignals(was) = DOMAIN ChannelSignals(s)
      BY DEF ChannelSignals
    <2>. QED
      BY <2>1, ChannelOnce DEF Changes
  <1>9. Changes(Standing, PullbackSignals(was), PullbackSignals(s))
        /\ DOMAIN PullbackSignals(was) = DOMAIN PullbackSignals(s)
    <2>1. DOMAIN PullbackSignals(was) = DOMAIN PullbackSignals(s)
      BY DEF PullbackSignals
    <2>. QED
      BY <1>2, <2>1, PullbackOnce DEF Changes
  <1>10. Changes(Standing, BreakoutSignals(was), BreakoutSignals(s))
         /\ DOMAIN BreakoutSignals(was) = DOMAIN BreakoutSignals(s)
    <2>1. DOMAIN BreakoutSignals(was) = DOMAIN BreakoutSignals(s)
      BY DEF BreakoutSignals
    <2>. QED
      BY <1>2, <2>1, BreakoutOnce DEF Changes
  <1>. DEFINE two(some) == AverageSignals(some) & OscillatorSignals(some)
              three(some) == two(some) & BandSignals(some)
              four(some) == three(some) & VolumeSignals(some)
              five(some) == four(some) & TrendSignals(some)
              six(some) == five(some) & ChannelSignals(some)
              seven(some) == six(some) & PullbackSignals(some)
              eight(some) == seven(some) & BreakoutSignals(some)
  <1>. HIDE DEF was
  <1>11. Changes(Standing, two(was), two(s)) /\ DOMAIN two(was) = DOMAIN two(s)
    BY <1>3, <1>4, JoinedOnce
  <1>. HIDE DEF two
  <1>12. Changes(Standing, three(was), three(s)) /\ DOMAIN three(was) = DOMAIN three(s)
    BY <1>11, <1>5, JoinedOnce
  <1>. HIDE DEF three
  <1>13. Changes(Standing, four(was), four(s)) /\ DOMAIN four(was) = DOMAIN four(s)
    BY <1>12, <1>6, JoinedOnce
  <1>. HIDE DEF four
  <1>14. Changes(Standing, five(was), five(s)) /\ DOMAIN five(was) = DOMAIN five(s)
    BY <1>13, <1>7, JoinedOnce
  <1>. HIDE DEF five
  <1>15. Changes(Standing, six(was), six(s)) /\ DOMAIN six(was) = DOMAIN six(s)
    BY <1>14, <1>8, JoinedOnce
  <1>. HIDE DEF six
  <1>16. Changes(Standing, seven(was), seven(s)) /\ DOMAIN seven(was) = DOMAIN seven(s)
    BY <1>15, <1>9, JoinedOnce
  <1>. HIDE DEF seven
  <1>17. Changes(Standing, eight(was), eight(s))
    BY <1>16, <1>10, JoinedOnce
  <1>18. Signals(s) = eight(s) /\ Signals(was) = eight(was)
    BY DEF Signals, two, three, four, five, six, seven
  <1>. HIDE DEF eight
  <1>. QED
    BY <1>17, <1>18 DEF was

(* Whoever acts on every candle, the persistent wrappers and the backtest, is told of a
   crossing once: compute_signal of a strategy that is not a standing one says nothing at
   the bar after a signal, or the opposite.  The bars may be any. *)
THEOREM CrossingsAlwaysFireOnce == Spec => []CrossingsFireOnce
<1>1. FeedTypeOK => CrossingsFireOnce
  <2>. SUFFICES ASSUME FeedTypeOK, Len(bars) > RequiredBars
                PROVE  Changes(Standing, Signals(Front(bars)), Signals(bars))
    BY DEF CrossingsFireOnce
  <2>1. bars \in Seq(Shapes) /\ Shapes \subseteq PriceBar
    BY BarAssumption DEF FeedTypeOK, PriceBar
  <2>2. bars \in Seq(PriceBar)
    BY <2>1, SeqMonotonic
  <2>3. Len(bars) > Period + 1
    BY <2>1, BarAssumption, FeedAssumption, PeriodAssumption
  <2>. QED
    BY <2>2, <2>3, SignalsOnce
<1> QED BY <1>1, WindowStaysRecent, PTL

-----------------------------------------------------------------------------
\* Numbers and exact fractions: the recursive functions of Fractions exist, and what they are.

Positive == Nat \ {0}

(* Division of whole numbers, with its remainder. *)
LEMMA Division ==
    ASSUME NEW x \in Int, NEW m \in Positive
    PROVE  /\ x \div m \in Int /\ x % m \in Nat /\ x % m < m /\ x = m * (x \div m) + (x % m)
           /\ x \in Nat => x \div m \in Nat
<1> USE DEF Positive
<1>1. x \div m \in Int /\ x % m \in Nat /\ x % m < m /\ x = m * (x \div m) + (x % m)
  OBVIOUS
<1>2. ASSUME x \in Nat, x \div m < 0 PROVE FALSE
  <2> PICK d \in Nat : d = -1 - (x \div m)
    BY <1>1, <1>2
  <2>1. m * (x \div m) = -m - m * d
    <3>1. x \div m = -1 - d
      BY <1>1
    <3> QED BY <3>1
  <2>2. m * d \in Nat
    OBVIOUS
  <2> HIDE DEF Positive
  <2> QED BY <1>1, <1>2, <2>1, <2>2 DEF Positive
<1> QED BY <1>1, <1>2

CommonDivisor(d, m, n) == (\E k \in Nat : m = d * k) /\ (\E k \in Nat : n = d * k)
Greatest(m, n) ==
    CHOOSE d \in Positive : CommonDivisor(d, m, n) /\ \A e \in Positive : CommonDivisor(e, m, n) => e <= d

(* The common divisors of two numbers are those of one and a remainder. *)
LEMMA SameDivisors ==
    ASSUME NEW m \in Nat, NEW n \in Positive, NEW d \in Positive
    PROVE  CommonDivisor(d, m, n) <=> CommonDivisor(d, n, m % n)
<1> USE DEF Positive
<1> DEFINE q == m \div n
           r == m % n
<1>1. q \in Nat /\ r \in Nat /\ m = n * q + r
  BY Division
<1> HIDE DEF q, r
<1>2. ASSUME NEW i \in Nat, m = d * i, NEW j \in Nat, n = d * j PROVE \E k \in Nat : r = d * k
  <2>1. r = d * i - d * j * q
    BY <1>1, <1>2
  <2>2. d * j * q = d * (j * q) /\ j * q \in Nat
    BY <1>1
  <2> PICK l \in Nat : l = j * q
    BY <2>2
  <2>3. r = d * (i - l)
    BY <2>1, <2>2, <1>1
  <2>4. i - l \in Nat
    <3>1. SUFFICES ASSUME i - l < 0 PROVE FALSE
      OBVIOUS
    <3> PICK e \in Nat : e = -1 - (i - l)
      BY <3>1
    <3>2. d * (i - l) = -d - d * e /\ d * e \in Nat
      <4>1. i - l = -1 - e
        OBVIOUS
      <4> QED BY <4>1
    <3> QED BY <1>1, <2>3, <3>2
  <2> QED BY <2>3, <2>4
<1>3. ASSUME NEW i \in Nat, n = d * i, NEW j \in Nat, r = d * j PROVE \E k \in Nat : m = d * k
  <2>1. m = d * i * q + d * j
    BY <1>1, <1>3
  <2>2. d * i * q = d * (i * q) /\ i * q \in Nat
    BY <1>1
  <2>3. m = d * (i * q + j)
    BY <2>1, <2>2
  <2>4. i * q + j \in Nat
    BY <2>2
  <2> QED BY <2>3, <2>4
<1> QED BY <1>2, <1>3 DEF CommonDivisor, r

(* So the greatest one is; and that of a number and zero is the number. *)
LEMMA GreatestOfRest ==
    ASSUME NEW m \in Nat, NEW n \in Positive
    PROVE  Greatest(m, n) = Greatest(n, m % n)
<1>1. \A d \in Positive : CommonDivisor(d, m, n) <=> CommonDivisor(d, n, m % n)
  BY SameDivisors
<1> QED BY <1>1 DEF Greatest

LEMMA GreatestOfOne == ASSUME NEW m \in Positive PROVE Greatest(m, 0) = m
<1> DEFINE Is(d) == CommonDivisor(d, m, 0) /\ \A e \in Positive : CommonDivisor(e, m, 0) => e <= d
<1>1. CommonDivisor(m, m, 0)
  <2>1. m = m * 1 /\ 0 = m * 0
    BY DEF Positive
  <2> QED BY <2>1 DEF CommonDivisor
<1>2. ASSUME NEW e \in Positive, CommonDivisor(e, m, 0) PROVE e <= m
  <2>1. PICK k \in Nat : m = e * k
    BY <1>2 DEF CommonDivisor
  <2>2. k # 0
    BY <2>1 DEF Positive
  <2> PICK l \in Nat : k = l + 1
    <3>1. k - 1 \in Nat /\ k = k - 1 + 1
      BY <2>2
    <3> QED BY <3>1
  <2>3. m = e * l + e /\ e * l \in Nat
    BY <2>1 DEF Positive
  <2> QED BY <2>3 DEF Positive
<1>3. Is(m)
  BY <1>1, <1>2
<1>4. \A d \in Positive : Is(d) => d = m
  <2> SUFFICES ASSUME NEW d \in Positive, Is(d) PROVE d = m
    OBVIOUS
  <2>1. d <= m /\ m <= d
    BY <1>1, <1>2
  <2> QED BY <2>1 DEF Positive
<1>5. Greatest(m, 0) = CHOOSE d \in Positive : Is(d)
  BY DEF Greatest
<1> HIDE DEF Is
<1> QED BY <1>3, <1>4, <1>5

(* The recursive function of Divisor exists: greatest common divisors are one. *)
LEMMA DivisorSteps ==
    \A m, n \in Nat : Divisor[m][n] = IF n = 0 THEN m ELSE Divisor[n][m % n]
<1> DEFINE Steps(f) == f = [m \in Nat |-> [n \in Nat |-> IF n = 0 THEN m ELSE f[n][m % n]]]
           value(m, n) == IF m = 0 /\ n = 0 THEN 0 ELSE Greatest(m, n)
           gcd == [m \in Nat |-> [n \in Nat |-> value(m, n)]]
<1>1. Divisor = CHOOSE f : Steps(f)
  BY DEF Divisor
<1>2. ASSUME NEW m \in Nat PROVE value(m, 0) = m
  <2>1. m # 0 => Greatest(m, 0) = m
    BY GreatestOfOne DEF Positive
  <2> QED BY <2>1
<1>3. ASSUME NEW m \in Nat, NEW n \in Positive PROVE value(m, n) = value(n, m % n)
  <2>1. Greatest(m, n) = Greatest(n, m % n)
    BY GreatestOfRest
  <2> QED BY <2>1 DEF Positive
<1>4. ASSUME NEW m \in Nat, NEW n \in Nat PROVE gcd[m][n] = IF n = 0 THEN m ELSE gcd[n][m % n]
  <2>1. n # 0 => n \in Positive /\ m % n \in Nat
    BY Division DEF Positive
  <2>2. gcd[m][n] = value(m, n) /\ (n # 0 => gcd[n][m % n] = value(n, m % n))
    BY <2>1
  <2> HIDE DEF gcd, value
  <2> QED BY <1>2, <1>3, <2>1, <2>2
<1>5. Steps(gcd)
  <2> DEFINE other == [m \in Nat |-> [n \in Nat |-> IF n = 0 THEN m ELSE gcd[n][m % n]]]
  <2>1. \A m \in Nat : gcd[m] = [n \in Nat |-> gcd[m][n]]
    BY DEF value
  <2>2. gcd = [m \in Nat |-> gcd[m]]
    OBVIOUS
  <2> HIDE DEF gcd
  <2>3. \A m \in Nat : [n \in Nat |-> gcd[m][n]] = [n \in Nat |-> IF n = 0 THEN m ELSE gcd[n][m % n]]
    BY <1>4
  <2>4. \A m \in Nat : gcd[m] = [n \in Nat |-> IF n = 0 THEN m ELSE gcd[n][m % n]]
    BY <2>1, <2>3
  <2> QED BY <2>2, <2>4
<1>6. Steps(Divisor)
  <2> HIDE DEF Steps, gcd
  <2> QED BY <1>1, <1>5
<1>7. \A m \in Nat : Divisor[m] = [n \in Nat |-> IF n = 0 THEN m ELSE Divisor[n][m % n]]
  BY <1>6
<1> QED BY <1>7

(* What it finds divides both. *)
LEMMA DivisorDivides ==
    ASSUME NEW m \in Nat, NEW n \in Nat, m # 0 \/ n # 0
    PROVE  Divisor[m][n] \in Positive /\ CommonDivisor(Divisor[m][n], m, n)
<1> DEFINE Good(i, k) == i # 0 \/ k # 0 => Divisor[i][k] \in Positive /\ CommonDivisor(Divisor[i][k], i, k)
           T == {l \in Nat : \A k \in 0..l, i \in Nat : Good(i, k)}
<1>1. \A i \in Nat : Good(i, 0)
  <2> SUFFICES ASSUME NEW i \in Nat, i # 0 PROVE Divisor[i][0] \in Positive /\ CommonDivisor(Divisor[i][0], i, 0)
    OBVIOUS
  <2>1. Divisor[i][0] = i
    BY DivisorSteps
  <2>2. i = i * 1 /\ 0 = i * 0
    OBVIOUS
  <2> QED BY <2>1, <2>2 DEF Positive, CommonDivisor
<1>2. 0 \in T
  BY <1>1
<1>3. ASSUME NEW l \in Nat, l \in T PROVE l + 1 \in T
  <2> SUFFICES ASSUME NEW i \in Nat PROVE Good(i, l + 1)
    BY <1>3
  <2> DEFINE k == l + 1
             r == i % k
             g == Divisor[k][r]
  <2>1. k \in Positive /\ k # 0 /\ r \in Nat /\ r < k
    <3>1. k \in Positive
      BY DEF Positive
    <3> HIDE DEF k
    <3> QED BY <3>1, Division DEF Positive
  <2>2. Divisor[i][k] = g
    BY <2>1, DivisorSteps
  <2>3. g \in Positive /\ CommonDivisor(g, k, r)
    <3>1. r \in 0..l /\ k \in Nat
      BY <2>1 DEF Positive
    <3> HIDE DEF k, r
    <3>2. Good(k, r)
      BY <1>3, <3>1
    <3> HIDE DEF g
    <3> QED BY <2>1, <3>2 DEF g
  <2> HIDE DEF g
  <2>4. CommonDivisor(g, i, k)
    BY <2>1, <2>3, SameDivisors DEF r
  <2>5. Good(i, k)
    <3> HIDE DEF k
    <3> QED BY <2>2, <2>3, <2>4
  <2> QED BY <2>5
<1>4. \A l \in Nat : l \in T
  <2> HIDE DEF T
  <2> QED BY <1>2, <1>3, Induct
<1>5. Good(m, n)
  BY <1>4
<1> QED BY <1>5

(* A fraction in lowest terms is the same part of both numbers. *)
LEMMA FractionIs ==
    ASSUME NEW n \in Int, NEW d \in Positive
    PROVE  \E p \in Int, q \in Positive, g \in Positive :
               Fraction(n, d) = <<p, q>> /\ n = g * p /\ d = g * q /\ g = Divisor[Abs(n)][d]
<1> DEFINE g == Divisor[Abs(n)][Abs(d)]
<1>1. Abs(n) \in Nat /\ Abs(d) = d /\ d \in Nat /\ d # 0
  BY DEF Abs, Positive
<1>2. g \in Positive /\ CommonDivisor(g, Abs(n), d)
  <2>1. Abs(d) \in Nat /\ Abs(d) # 0
    BY <1>1
  <2>2. g \in Positive /\ CommonDivisor(g, Abs(n), Abs(d))
    BY <1>1, <2>1, DivisorDivides
  <2> QED BY <1>1, <2>2
<1>3. Fraction(n, d) = <<n \div g, d \div g>>
  <2>1. ~(d < 0)
    BY DEF Positive
  <2>2. Fraction(n, d) = <<n \div g, Abs(d) \div g>>
    BY <2>1 DEF Fraction
  <2> QED BY <1>1, <2>2
<1>9. g = Divisor[Abs(n)][d]
  BY <1>1
<1> HIDE DEF g
<1>4. ASSUME NEW x \in Int, NEW k \in Int, x = g * k PROVE x \div g = k
  <2> PICK r \in Int, rest \in Nat : r = x \div g /\ rest = x % g
    BY <1>2, Division
  <2>0. x = g * r + rest /\ rest < g
    BY <1>2, Division
  <2>1. g * r <= x /\ x < g * r + g
    <3> PICK gr \in Int : gr = g * r
      BY <1>2 DEF Positive
    <3> QED BY <1>2, <2>0 DEF Positive
  <2>2. ASSUME r > k PROVE FALSE
    <3> PICK e \in Nat : e = r - k - 1
      BY <2>2
    <3>1. g * r = g * k + g + g * e /\ g * e \in Nat
      <4>1. r = k + 1 + e
        OBVIOUS
      <4> QED BY <1>2, <4>1 DEF Positive
    <3> QED BY <1>2, <1>4, <2>1, <3>1 DEF Positive
  <2>3. ASSUME r < k PROVE FALSE
    <3> PICK e \in Nat : e = k - r - 1
      BY <2>3
    <3>1. g * k = g * r + g + g * e /\ g * e \in Nat
      <4>1. k = r + 1 + e
        OBVIOUS
      <4> QED BY <1>2, <4>1 DEF Positive
    <3> QED BY <1>2, <1>4, <2>1, <3>1 DEF Positive
  <2> QED BY <2>2, <2>3
<1>5. PICK i \in Nat, j \in Nat : Abs(n) = g * i /\ d = g * j
  BY <1>2 DEF CommonDivisor
<1>6. PICK p \in Int : n = g * p
  <2>1. n = g * i \/ n = g * (-i)
    BY <1>2, <1>5 DEF Abs, Positive
  <2>2. i \in Int /\ -i \in Int
    OBVIOUS
  <2> QED BY <2>1, <2>2
<1>7. j \in Positive
  <2>1. j # 0
    BY <1>1, <1>2, <1>5 DEF Positive
  <2> QED BY <2>1 DEF Positive
<1>8. n \div g = p /\ d \div g = j
  BY <1>1, <1>4, <1>5, <1>6
<1> QED BY <1>2, <1>3, <1>5, <1>6, <1>7, <1>8, <1>9

(* Two fractions compare as their whole parts, or as what is left of them, turned over. *)
LEMMA WholePartsFirst ==
    ASSUME NEW x \in Int, NEW m \in Positive, NEW y \in Int, NEW n \in Positive
    PROVE  x * n <= y * m <=>
             IF x \div m # y \div n THEN x \div m < y \div n
             ELSE x % m = 0 \/ (y % n # 0 /\ n * (x % m) <= m * (y % n))
<1> PICK q \in Int, r \in Nat : q = x \div m /\ r = x % m
  BY Division
<1> PICK k \in Int, t \in Nat : k = y \div n /\ t = y % n
  BY Division
<1>1. x = m * q + r /\ r < m /\ y = n * k + t /\ t < n
  BY Division
<1>2. x * n = n * m * q + n * r /\ y * m = n * m * k + m * t
  <2>1. n * (m * q) = n * m * q /\ m * (n * k) = n * m * k
    BY DEF Positive
  <2> PICK mq \in Int, nk \in Int : mq = m * q /\ nk = n * k
    BY DEF Positive
  <2>2. x = mq + r /\ y = nk + t
    BY <1>1
  <2>3. x * n = n * mq + n * r /\ y * m = m * nk + m * t
    BY <2>2 DEF Positive
  <2> QED BY <2>1, <2>3
<1>3. PICK c \in Nat : c = n * m
  BY DEF Positive
<1>4. /\ n * r \in Nat /\ n * r < c /\ m * t \in Nat /\ m * t < c
      /\ (r # 0 => n * r > 0) /\ (r = 0 => n * r = 0) /\ (t = 0 => m * t = 0)
  <2>1. ASSUME NEW a \in Positive, NEW b \in Nat, NEW e \in Positive, b < e
        PROVE  a * b \in Nat /\ a * b < a * e /\ (b # 0 => a * b > 0) /\ (b = 0 => a * b = 0)
    <3> PICK f \in Nat : f = e - b - 1
      BY <2>1 DEF Positive
    <3>1. a * e = a * b + a + a * f /\ a * f \in Nat /\ a * b \in Nat
      <4>1. e = b + 1 + f
        BY DEF Positive
      <4> QED BY <4>1 DEF Positive
    <3>2. ASSUME b # 0 PROVE a * b > 0
      <4> PICK h \in Nat : h = b - 1
        BY <3>2
      <4>1. a * b = a * h + a /\ a * h \in Nat
        <5>1. b = h + 1
          OBVIOUS
        <5> QED BY <5>1 DEF Positive
      <4> QED BY <4>1 DEF Positive
    <3> QED BY <3>1, <3>2 DEF Positive
  <2>2. m * n = c /\ n * m = c
    BY <1>3 DEF Positive
  <2> QED BY <1>1, <2>1, <2>2
<1> PICK u \in Nat : u = n * r
  BY <1>4
<1> PICK v \in Nat : v = m * t
  BY <1>4
<1>5. x * n = c * q + u /\ y * m = c * k + v
  BY <1>2, <1>3
<1>6. CASE q = k
  BY <1>4, <1>5, <1>6
<1>7. CASE q < k
  <2> PICK e \in Nat : e = k - q - 1
    BY <1>7
  <2>1. c * k = c * q + c + c * e /\ c * e \in Nat
    <3>1. k = q + 1 + e
      OBVIOUS
    <3> QED BY <3>1
  <2> QED BY <1>4, <1>5, <1>7, <2>1
<1>8. CASE k < q
  <2> PICK e \in Nat : e = q - k - 1
    BY <1>8
  <2>1. c * q = c * k + c + c * e /\ c * e \in Nat
    <3>1. q = k + 1 + e
      OBVIOUS
    <3> QED BY <3>1
  <2> QED BY <1>4, <1>5, <1>8, <2>1
<1> QED BY <1>6, <1>7, <1>8

Rationals == Int \X Positive

(* What the comparison of two fractions does next, by what compares the rests. *)
Compared(f, a, b) ==
    LET left == a[1] % a[2]
        right == b[1] % b[2]
    IN  IF a[1] \div a[2] # b[1] \div b[2] THEN a[1] \div a[2] < b[1] \div b[2]
        ELSE left = 0 \/ (right # 0 /\ f[<<b[2], right>>][<<a[2], left>>])

AtMost(a, b) == a[1] * b[2] <= b[1] * a[2]

(* Fractions that are left compare as what they are left of. *)
LEMMA ComparedIs ==
    ASSUME NEW f, NEW a \in Rationals, NEW b \in Rationals,
           a[1] % a[2] # 0 /\ b[1] % b[2] # 0 =>
             f[<<b[2], b[1] % b[2]>>][<<a[2], a[1] % a[2]>>] = (b[2] * (a[1] % a[2]) <= a[2] * (b[1] % b[2]))
    PROVE  Compared(f, a, b) = AtMost(a, b)
<1>1. PICK x \in Int, m \in Positive, y \in Int, n \in Positive : a = <<x, m>> /\ b = <<y, n>>
  BY DEF Rationals
<1>2. a[1] = x /\ a[2] = m /\ b[1] = y /\ b[2] = n
  BY <1>1
<1> PICK r \in Nat, t \in Nat : r = x % m /\ t = y % n
  BY Division
<1>3. r # 0 /\ t # 0 => f[<<n, t>>][<<m, r>>] = (n * r <= m * t)
  BY <1>2
<1>4. x * n <= y * m <=> IF x \div m # y \div n THEN x \div m < y \div n ELSE r = 0 \/ (t # 0 /\ n * r <= m * t)
  BY WholePartsFirst
<1>5. Compared(f, a, b) = IF x \div m # y \div n THEN x \div m < y \div n ELSE r = 0 \/ (t # 0 /\ f[<<n, t>>][<<m, r>>])
  BY <1>2 DEF Compared
<1>6. AtMost(a, b) = (x * n <= y * m)
  BY <1>2 DEF AtMost
<1> DEFINE P == x \div m # y \div n
           Q == x \div m < y \div n
           X == x * n <= y * m
           Y == n * r <= m * t
           Z == f[<<n, t>>][<<m, r>>]
<1>7. Q \in BOOLEAN /\ X \in BOOLEAN /\ P \in BOOLEAN
  OBVIOUS
<1> HIDE DEF P, Q, X, Y, Z
<1>8. (r # 0 /\ t # 0 => Z = Y) /\ (X <=> IF P THEN Q ELSE r = 0 \/ (t # 0 /\ Y))
  BY <1>3, <1>4 DEF P, Q, X, Y, Z
<1>9. Compared(f, a, b) = (IF P THEN Q ELSE r = 0 \/ (t # 0 /\ Z)) /\ AtMost(a, b) = X
  BY <1>5, <1>6 DEF P, Q, X, Z
<1> QED BY <1>7, <1>8, <1>9

(* The recursive function of UpTo exists: the order of fractions is one. *)
LEMMA UpToSteps == \A a, b \in Rationals : UpTo[a][b] = Compared(UpTo, a, b)
<1> DEFINE Steps(f) == f = [a \in Rationals |-> [b \in Rationals |-> Compared(f, a, b)]]
           inOrder == [a \in Rationals |-> [b \in Rationals |-> AtMost(a, b)]]
<1>1. UpTo = CHOOSE f : Steps(f)
  BY DEF UpTo, Compared, Rationals, Positive
<1>2. ASSUME NEW a \in Rationals, NEW b \in Rationals PROVE Compared(inOrder, a, b) = AtMost(a, b)
  <2> DEFINE r == a[1] % a[2]
             t == b[1] % b[2]
  <2>1. a[1] \in Int /\ a[2] \in Positive /\ b[1] \in Int /\ b[2] \in Positive
    BY DEF Rationals
  <2>2. r \in Nat /\ t \in Nat
    BY <2>1, Division
  <2> HIDE DEF r, t
  <2>3. ASSUME r # 0, t # 0 PROVE inOrder[<<b[2], t>>][<<a[2], r>>] = (b[2] * r <= a[2] * t)
    <3>1. <<b[2], t>> \in Rationals /\ <<a[2], r>> \in Rationals
      BY <2>1, <2>2, <2>3 DEF Rationals, Positive
    <3>2. AtMost(<<b[2], t>>, <<a[2], r>>) = (b[2] * r <= a[2] * t)
      BY DEF AtMost
    <3> QED BY <3>1, <3>2
  <2> HIDE DEF inOrder
  <2> QED BY <2>3, ComparedIs DEF r, t
<1>3. Steps(inOrder)
  <2>1. \A a \in Rationals : inOrder[a] = [b \in Rationals |-> AtMost(a, b)]
    OBVIOUS
  <2>2. inOrder = [a \in Rationals |-> inOrder[a]]
    OBVIOUS
  <2> HIDE DEF inOrder
  <2>3. \A a \in Rationals : inOrder[a] = [b \in Rationals |-> Compared(inOrder, a, b)]
    BY <1>2, <2>1
  <2> QED BY <2>2, <2>3
<1>4. Steps(UpTo)
  <2> HIDE DEF Steps, inOrder
  <2> QED BY <1>1, <1>3
<1>5. \A a \in Rationals : UpTo[a] = [b \in Rationals |-> Compared(UpTo, a, b)]
  BY <1>4
<1> QED BY <1>5

(* Fractions are ordered by their products crosswise. *)
LEMMA UpToIs == \A a, b \in Rationals : (a \preceq b) = AtMost(a, b) /\ (a \prec b) = ~AtMost(b, a)
<1> DEFINE T == {k \in Nat : \A a, b \in Rationals : a[2] + b[2] <= k => UpTo[a][b] = AtMost(a, b)}
<1>1. 0 \in T
  BY DEF Rationals, Positive
<1>2. ASSUME NEW k \in Nat, k \in T PROVE k + 1 \in T
  <2> SUFFICES ASSUME NEW a \in Rationals, NEW b \in Rationals, a[2] + b[2] <= k + 1 PROVE UpTo[a][b] = AtMost(a, b)
    OBVIOUS
  <2> DEFINE r == a[1] % a[2]
             t == b[1] % b[2]
  <2>1. a[1] \in Int /\ a[2] \in Positive /\ b[1] \in Int /\ b[2] \in Positive
    BY DEF Rationals
  <2>2. r \in Nat /\ t \in Nat /\ r < a[2] /\ t < b[2]
    BY <2>1, Division
  <2> HIDE DEF r, t
  <2>3. ASSUME r # 0, t # 0 PROVE UpTo[<<b[2], t>>][<<a[2], r>>] = (b[2] * r <= a[2] * t)
    <3>0. <<b[2], t>> \in Rationals /\ <<a[2], r>> \in Rationals
      BY <2>1, <2>2, <2>3 DEF Rationals, Positive
    <3> PICK c \in Rationals, d \in Rationals : c = <<b[2], t>> /\ d = <<a[2], r>>
      BY <3>0
    <3>1. c[2] + d[2] <= k
      BY <2>1, <2>2 DEF Positive
    <3>2. UpTo[c][d] = AtMost(c, d)
      BY <1>2, <3>1
    <3>3. AtMost(c, d) = (b[2] * r <= a[2] * t)
      BY DEF AtMost
    <3> QED BY <3>2, <3>3
  <2>4. Compared(UpTo, a, b) = AtMost(a, b)
    BY <2>3, ComparedIs DEF r, t
  <2> QED BY <2>4, UpToSteps
<1>3. \A k \in Nat : k \in T
  <2> HIDE DEF T
  <2> QED BY <1>1, <1>2, Induct
<1>4. \A a, b \in Rationals : UpTo[a][b] = AtMost(a, b)
  <2> SUFFICES ASSUME NEW a \in Rationals, NEW b \in Rationals PROVE UpTo[a][b] = AtMost(a, b)
    OBVIOUS
  <2>1. a[2] + b[2] \in Nat
    BY DEF Rationals, Positive
  <2> QED BY <1>3, <2>1
<1> QED BY <1>4 DEF \preceq, \prec

-----------------------------------------------------------------------------
\* What the end of a sequence of bars shares with the whole of it.

(* A sequence is the end of another one. *)
IsEnd(w, s) ==
    \E S : /\ w \in Seq(S) /\ s \in Seq(S) /\ Len(w) <= Len(s)
           /\ \A i \in 0..(Len(w) - 1) : w[Len(w) - i] = s[Len(s) - i]

(* A part of a sequence, counted from its end. *)
Part(s, a, b) == SubSeq(s, Len(s) - a, Len(s) - b)
IsPart(v, s, a, b) == IsList(v, a - b + 1) /\ \A i \in 1..(a - b + 1) : v[i] = s[Len(s) - a + i - 1]

(* The parts of a sequence and of its end are the same. *)
LEMMA EndPart ==
    ASSUME NEW w, NEW s, IsEnd(w, s), NEW a \in Nat, NEW b \in Nat, b <= a, a < Len(w)
    PROVE  Part(w, a, b) = Part(s, a, b) /\ IsPart(Part(w, a, b), w, a, b)
<1>1. PICK S : /\ w \in Seq(S) /\ s \in Seq(S) /\ Len(w) <= Len(s)
               /\ \A i \in 0..(Len(w) - 1) : w[Len(w) - i] = s[Len(s) - i]
  BY DEF IsEnd
<1> PICK n \in Nat, m \in Nat : n = Len(w) /\ m = Len(s)
  BY <1>1
<1>2. ASSUME NEW t \in Seq(S), NEW l \in Nat, Len(t) = l, a < l
      PROVE  /\ SubSeq(t, l - a, l - b) \in Seq(S) /\ Len(SubSeq(t, l - a, l - b)) = a - b + 1
             /\ \A i \in 1..(a - b + 1) : SubSeq(t, l - a, l - b)[i] = t[l - a + i - 1]
  <2> DEFINE x == l - a
             y == l - b
  <2>1. x \in Int /\ y \in Int /\ x <= y /\ y - x + 1 = a - b + 1
    BY <1>2
  <2>2. \A i \in x..y : t[i] \in S
    <3> SUFFICES ASSUME NEW i \in x..y PROVE t[i] \in S
      OBVIOUS
    <3>1. i \in 1..Len(t)
      BY <1>2
    <3> QED BY <3>1
  <2> HIDE DEF x, y
  <2>3. /\ SubSeq(t, x, y) \in Seq(S) /\ Len(SubSeq(t, x, y)) = y - x + 1
        /\ \A i \in 1..(y - x + 1) : SubSeq(t, x, y)[i] = t[x + i - 1]
    BY <2>1, <2>2, SubSeqProperties
  <2> QED BY <2>1, <2>3 DEF x, y
<1> DEFINE v == SubSeq(w, n - a, n - b)
           u == SubSeq(s, m - a, m - b)
<1>3. /\ v \in Seq(S) /\ Len(v) = a - b + 1 /\ \A i \in 1..(a - b + 1) : v[i] = w[n - a + i - 1]
  BY <1>1, <1>2
<1>4. /\ u \in Seq(S) /\ Len(u) = a - b + 1 /\ \A i \in 1..(a - b + 1) : u[i] = s[m - a + i - 1]
  BY <1>1, <1>2
<1>5. ASSUME NEW i \in 1..(a - b + 1) PROVE w[n - a + i - 1] = s[m - a + i - 1]
  <2> PICK j \in Nat : j = a - i + 1
    BY <1>5
  <2>1. j \in 0..(n - 1) /\ n - a + i - 1 = n - j /\ m - a + i - 1 = m - j
    BY <1>5
  <2> QED BY <1>1, <2>1
<1> HIDE DEF v, u
<1>6. v = u
  <2>1. v \in Seq(S) /\ u \in Seq(S) /\ Len(v) = Len(u) /\ Len(v) = a - b + 1
    BY <1>3, <1>4
  <2>2. \A i \in 1..(a - b + 1) : v[i] = u[i]
    BY <1>3, <1>4, <1>5
  <2>3. \A i \in 1..Len(v) : v[i] = u[i]
    BY <2>1, <2>2
  <2> QED BY <2>1, <2>3, SeqEqual
<1> QED BY <1>3, <1>6 DEF v, u, IsList, Part, IsPart

LEMMA EndElement ==
    ASSUME NEW w, NEW s, IsEnd(w, s), NEW i \in Nat, i < Len(w)
    PROVE  w[Len(w) - i] = s[Len(s) - i] /\ Len(w) \in Nat /\ Len(s) \in Nat /\ Len(w) <= Len(s)
BY DEF IsEnd

LEMMA EndLast == ASSUME NEW w, NEW s, IsEnd(w, s), Len(w) > 0 PROVE Last(w) = Last(s)
<1>1. w[Len(w) - 0] = s[Len(s) - 0] /\ Len(w) \in Nat /\ Len(s) \in Nat
  BY EndElement
<1>2. Len(w) - 0 = Len(w) /\ Len(s) - 0 = Len(s)
  BY <1>1
<1> QED BY <1>1, <1>2 DEF Last

(* As many of the last ones as the end has are the same. *)
LEMMA EndRecent ==
    ASSUME NEW w, NEW s, IsEnd(w, s), NEW k \in Positive, k <= Len(w)
    PROVE  /\ Recent(w, k) = Recent(s, k) /\ IsList(Recent(w, k), k)
           /\ \A i \in 1..k : Recent(w, k)[i] = w[Len(w) - k + i]
<1> PICK n \in Nat, m \in Nat : n = Len(w) /\ m = Len(s)
  BY DEF IsEnd
<1> PICK a \in Nat : a = k - 1
  <2>1. k - 1 \in Nat
    BY DEF Positive
  <2> QED BY <2>1
<1>1. a < n /\ n - a = n - k + 1 /\ m - a = m - k + 1 /\ n - 0 = n /\ m - 0 = m /\ a - 0 + 1 = k
  BY DEF Positive
<1> PICK z \in Nat : z = 0
  OBVIOUS
<1>2. Part(w, a, z) = Part(s, a, z) /\ IsPart(Part(w, a, z), w, a, z)
  <2>1. z <= a /\ a < Len(w)
    BY <1>1
  <2> QED BY <2>1, EndPart
<1>3. /\ SubSeq(w, n - k + 1, n) = SubSeq(s, m - k + 1, m)
      /\ IsList(SubSeq(w, n - k + 1, n), k)
      /\ \A i \in 1..k : SubSeq(w, n - k + 1, n)[i] = w[n - a + i - 1]
  <2>1. n - z = n /\ m - z = m /\ a - z + 1 = k
    BY <1>1
  <2>2. Part(w, a, z) = SubSeq(w, n - k + 1, n) /\ Part(s, a, z) = SubSeq(s, m - k + 1, m)
    BY <1>1, <2>1 DEF Part
  <2>3. IsList(Part(w, a, z), k) /\ \A i \in 1..k : Part(w, a, z)[i] = w[n - a + i - 1]
    BY <1>2, <2>1 DEF IsPart
  <2> QED BY <1>2, <2>2, <2>3
<1>4. \A i \in 1..k : n - a + i - 1 = n - k + i
  BY DEF Positive
<1> QED BY <1>3, <1>4 DEF Recent

LEMMA EndFront ==
    ASSUME NEW w, NEW s, IsEnd(w, s), Len(w) > 0
    PROVE  IsEnd(Front(w), Front(s)) /\ Len(Front(w)) = Len(w) - 1 /\ Len(Front(s)) = Len(s) - 1
<1>1. PICK S : /\ w \in Seq(S) /\ s \in Seq(S) /\ Len(w) <= Len(s)
               /\ \A i \in 0..(Len(w) - 1) : w[Len(w) - i] = s[Len(s) - i]
  BY DEF IsEnd
<1> PICK n \in Nat, m \in Nat : n = Len(w) /\ m = Len(s)
  BY <1>1
<1>2. /\ Front(w) \in Seq(S) /\ Len(Front(w)) = n - 1 /\ \A i \in 1..(n - 1) : Front(w)[i] = w[i]
      /\ Front(s) \in Seq(S) /\ Len(Front(s)) = m - 1 /\ \A i \in 1..(m - 1) : Front(s)[i] = s[i]
  <2>1. w \in Seq(S) /\ Len(w) > 0 /\ s \in Seq(S) /\ Len(s) > 0
    BY <1>1
  <2>2. /\ Front(w) \in Seq(S) /\ Len(Front(w)) = Len(w) - 1 /\ \A i \in 1..(Len(w) - 1) : Front(w)[i] = w[i]
        /\ Front(s) \in Seq(S) /\ Len(Front(s)) = Len(s) - 1 /\ \A i \in 1..(Len(s) - 1) : Front(s)[i] = s[i]
    BY <2>1, FrontProperties
  <2> QED BY <2>2
<1>3. ASSUME NEW i \in 0..(n - 1 - 1) PROVE Front(w)[n - 1 - i] = Front(s)[m - 1 - i]
  <2> PICK j \in Nat : j = i + 1
    BY <1>3
  <2>1. j \in 0..(n - 1) /\ n - 1 - i = n - j /\ m - 1 - i = m - j /\ n - j \in 1..(n - 1) /\ m - j \in 1..(m - 1)
    BY <1>1, <1>3
  <2> QED BY <1>1, <1>2, <2>1
<1>4. n - 1 <= m - 1
  BY <1>1
<1>5. \A i \in 0..(Len(Front(w)) - 1) : Front(w)[Len(Front(w)) - i] = Front(s)[Len(Front(s)) - i]
  BY <1>2, <1>3
<1> QED BY <1>2, <1>4, <1>5 DEF IsEnd

LEMMA ClosesAre ==
    ASSUME NEW S, NEW s \in Seq(S)
    PROVE  /\ IsList(Closes(s), Len(s)) /\ \A i \in 1..Len(s) : Closes(s)[i] = Whole(s[i].close)
           /\ Closes(s) \in Seq({Whole(x.close) : x \in S})
<1> DEFINE V == {Whole(x.close) : x \in S}
           c == Closes(s)
<1>1. DOMAIN s = 1..Len(s) /\ Len(s) \in Nat /\ \A i \in 1..Len(s) : s[i] \in S
  OBVIOUS
<1>2. c = [i \in 1..Len(s) |-> Whole(s[i].close)]
  BY <1>1 DEF Closes
<1>3. \A i \in 1..Len(s) : c[i] = Whole(s[i].close)
  <2> HIDE DEF c
  <2> QED BY <1>2
<1>4. \A i \in 1..Len(s) : c[i] \in V
  <2> HIDE DEF c
  <2> QED BY <1>1, <1>3
<1>5. c \in [1..Len(s) -> V]
  <2>1. c = [i \in 1..Len(s) |-> c[i]]
    BY <1>2
  <2> HIDE DEF c, V
  <2> QED BY <1>4, <2>1
<1> HIDE DEF c, V
<1>6. c \in Seq(V) /\ Len(c) = Len(s)
  BY <1>1, <1>5
<1> QED BY <1>3, <1>6 DEF IsList, c, V

LEMMA EndCloses == ASSUME NEW w, NEW s, IsEnd(w, s) PROVE IsEnd(Closes(w), Closes(s)) /\ Len(Closes(w)) = Len(w)
<1>1. PICK S : /\ w \in Seq(S) /\ s \in Seq(S) /\ Len(w) <= Len(s)
               /\ \A i \in 0..(Len(w) - 1) : w[Len(w) - i] = s[Len(s) - i]
  BY DEF IsEnd
<1> PICK n \in Nat, m \in Nat : n = Len(w) /\ m = Len(s)
  BY <1>1
<1> PICK V : V = {Whole(x.close) : x \in S}
  OBVIOUS
<1>2. /\ Closes(w) \in Seq(V) /\ Len(Closes(w)) = n /\ \A i \in 1..n : Closes(w)[i] = Whole(w[i].close)
      /\ Closes(s) \in Seq(V) /\ Len(Closes(s)) = m /\ \A i \in 1..m : Closes(s)[i] = Whole(s[i].close)
  BY <1>1, ClosesAre DEF IsList
<1>3. ASSUME NEW i \in 0..(n - 1) PROVE Closes(w)[n - i] = Closes(s)[m - i]
  <2>1. n - i \in 1..n /\ m - i \in 1..m
    BY <1>1, <1>3
  <2> QED BY <1>1, <1>2, <2>1
<1> QED BY <1>1, <1>2, <1>3 DEF IsEnd

-----------------------------------------------------------------------------
\* The strategies that look at the last bars only.

(* What looks at fewer bars than the end has sees the same at the last bar and at the one before. *)
LEMMA SameRecent ==
    ASSUME NEW w, NEW s, IsEnd(w, s), NEW k \in Positive, k < Len(w)
    PROVE  /\ Recent(w, k) = Recent(s, k)
           /\ Recent(Front(w), k) = Recent(Front(s), k)
           /\ Recent(Closes(w), k) = Recent(Closes(s), k)
           /\ Recent(Front(Closes(w)), k) = Recent(Front(Closes(s)), k)
           /\ Recent(Closes(Front(w)), k) = Recent(Closes(Front(s)), k)
<1>1. Len(w) \in Nat /\ Len(w) > 0
  BY DEF IsEnd, Positive
<1>2. IsEnd(Front(w), Front(s)) /\ Len(Front(w)) = Len(w) - 1
  BY <1>1, EndFront
<1>3. IsEnd(Closes(w), Closes(s)) /\ Len(Closes(w)) = Len(w)
  BY EndCloses
<1>4. IsEnd(Front(Closes(w)), Front(Closes(s))) /\ Len(Front(Closes(w))) = Len(w) - 1
  BY <1>1, <1>3, EndFront
<1>5. IsEnd(Closes(Front(w)), Closes(Front(s))) /\ Len(Closes(Front(w))) = Len(w) - 1
  BY <1>2, EndCloses
<1>6. k <= Len(w) /\ k <= Len(w) - 1
  BY <1>1 DEF Positive
<1> QED BY <1>2, <1>3, <1>4, <1>5, <1>6, EndRecent

LEMMA SameLast ==
    ASSUME NEW w, NEW s, IsEnd(w, s), Len(w) > 1
    PROVE  /\ Last(w) = Last(s) /\ Last(Front(w)) = Last(Front(s))
           /\ Last(Closes(w)) = Last(Closes(s))
           /\ Last(Front(Closes(w))) = Last(Front(Closes(s)))
           /\ Last(Closes(Front(w))) = Last(Closes(Front(s)))
<1>1. Len(w) \in Nat /\ Len(w) > 0 /\ Len(w) - 1 > 0
  BY DEF IsEnd
<1>2. IsEnd(Front(w), Front(s)) /\ Len(Front(w)) = Len(w) - 1
  BY <1>1, EndFront
<1>3. IsEnd(Closes(w), Closes(s)) /\ Len(Closes(w)) = Len(w)
  BY EndCloses
<1>4. IsEnd(Front(Closes(w)), Front(Closes(s))) /\ Len(Front(Closes(w))) = Len(w) - 1
  BY <1>1, <1>3, EndFront
<1>5. IsEnd(Closes(Front(w)), Closes(Front(s))) /\ Len(Closes(Front(w))) = Len(w) - 1
  BY <1>2, EndCloses
<1> QED BY <1>1, <1>2, <1>3, <1>4, <1>5, EndLast

LEMMA AverageAgrees ==
    ASSUME NEW w, NEW s, IsEnd(w, s), Fast < Len(w), Slow < Len(w)
    PROVE  AverageSignals(w)["sma_crossover"] = AverageSignals(s)["sma_crossover"]
<1>1. \A k \in {Fast, Slow} : /\ Recent(Closes(w), k) = Recent(Closes(s), k)
                              /\ Recent(Front(Closes(w)), k) = Recent(Front(Closes(s)), k)
  BY SameRecent, PeriodAssumption DEF Positive
<1>2. \A k \in {Fast, Slow} : /\ Sma(Closes(w), k) = Sma(Closes(s), k)
                              /\ Sma(Front(Closes(w)), k) = Sma(Front(Closes(s)), k)
  BY <1>1 DEF Sma
<1> QED BY <1>2 DEF AverageSignals

(* The stochastic oscillator looks at as many bars as its two periods have, less one. *)
LEMMA StochAgrees ==
    ASSUME NEW w, NEW s, IsEnd(w, s), NEW p \in Positive, NEW d \in Positive, p + d <= Len(w) + 1
    PROVE  Stoch(w, p, d) = Stoch(s, p, d)
<1> PICK n \in Nat, m \in Nat : n = Len(w) /\ m = Len(s)
  BY DEF IsEnd
<1> DEFINE place(x, part) == Place(Whole(x.close), Whole(Lowest(part)), Whole(Highest(part)))
           places(b) == [j \in 1..d |-> place(b[Len(b) - d + j], SubSeq(b, (Len(b) - d + j) - p + 1, Len(b) - d + j))]
<1>1. \A b : Stoch(b, p, d) = LastAndMean(SubSeq(places(b), 1, d))
  BY DEF Stoch, Each
<1>2. ASSUME NEW j \in 1..d
      PROVE  /\ w[n - d + j] = s[m - d + j]
             /\ SubSeq(w, (n - d + j) - p + 1, n - d + j) = SubSeq(s, (m - d + j) - p + 1, m - d + j)
  <2> PICK b \in Nat : b = d - j
    BY <1>2 DEF Positive
  <2> PICK a \in Nat : a = d - j + p - 1
    BY <1>2 DEF Positive
  <2>1. a < n /\ b <= a /\ b < n
    BY <1>2 DEF Positive
  <2>2. /\ n - d + j = n - b /\ (n - d + j) - p + 1 = n - a
        /\ m - d + j = m - b /\ (m - d + j) - p + 1 = m - a
    BY <1>2 DEF Positive
  <2>3. w[n - b] = s[m - b]
    BY <2>1, EndElement
  <2>4. Part(w, a, b) = Part(s, a, b)
    BY <2>1, EndPart
  <2> QED BY <2>2, <2>3, <2>4 DEF Part
<1>3. \A j \in 1..d : place(w[n - d + j], SubSeq(w, (n - d + j) - p + 1, n - d + j))
                      = place(s[m - d + j], SubSeq(s, (m - d + j) - p + 1, m - d + j))
  BY <1>2
<1> HIDE DEF place
<1>4. places(w) = places(s)
  BY <1>3
<1> QED BY <1>1, <1>4

LEMMA OscillatorAgrees ==
    ASSUME NEW w, NEW s, IsEnd(w, s), Period + Smooth < Len(w)
    PROVE  OscillatorSignals(w)["slow_stochastic"] = OscillatorSignals(s)["slow_stochastic"]
<1>1. Len(w) \in Nat /\ Period \in Positive /\ Smooth \in Positive /\ Len(w) > 0
  BY PeriodAssumption DEF IsEnd, Positive
<1>2. IsEnd(Front(w), Front(s)) /\ Len(Front(w)) = Len(w) - 1
  BY <1>1, EndFront
<1>3. Period + Smooth <= Len(w) + 1 /\ Period + Smooth <= Len(w) - 1 + 1
  BY <1>1 DEF Positive
<1>4. Stoch(w, Period, Smooth) = Stoch(s, Period, Smooth)
  BY <1>1, <1>3, StochAgrees
<1>5. Stoch(Front(w), Period, Smooth) = Stoch(Front(s), Period, Smooth)
  BY <1>1, <1>2, <1>3, StochAgrees
<1> QED BY <1>4, <1>5 DEF OscillatorSignals

(* Bands and channels are made of the bars of their period. *)
LEMMA BollingerLooksBack ==
    ASSUME NEW v, NEW u, NEW p, NEW d, Recent(v, p) = Recent(u, p)
    PROVE  Bollinger(v, p, d) = Bollinger(u, p, d)
<1> DEFINE signed(x) == IF Whole(0) \preceq x THEN x ** x ELSE Whole(0) -- x ** x
           of(part, mean) ==
               [distance |-> signed(Last(part) -- mean), middle |-> mean,
                width |-> Whole(d * d) ** Mean([i \in DOMAIN part |-> signed(Distance(part[i], mean))])]
<1>1. \A x : Bollinger(x, p, d) = of(Recent(x, p), Sma(x, p))
  BY DEF Bollinger
<1>2. Sma(v, p) = Sma(u, p)
  BY DEF Sma
<1> HIDE DEF of
<1> QED BY <1>1, <1>2

LEMMA CciLooksBack ==
    ASSUME NEW v, NEW u, NEW p, Recent(v, p) = Recent(u, p)
    PROVE  Cci(v, p) = Cci(u, p)
<1> DEFINE index(off, deviation) == IF deviation = Whole(0) THEN Whole(0) ELSE off // (<<3, 200>> ** deviation)
           from(part, mean) ==
               index(Last(part) -- mean, Mean([i \in DOMAIN part |-> Distance(part[i], mean)]))
           prices(some) == [i \in 1..p |-> TypicalPrice(some[i])]
           of(some) == from(prices(some), Mean(prices(some)))
<1>1. \A x : Cci(x, p) = of(Recent(x, p))
  BY DEF Cci
<1> HIDE DEF of
<1> QED BY <1>1

LEMMA BandAgrees ==
    ASSUME NEW w, NEW s, IsEnd(w, s), Slow < Len(w), Period < Len(w),
           NEW name \in DOMAIN BandSignals(s)
    PROVE  BandSignals(w)[name] = BandSignals(s)[name]
<1>0. DOMAIN BandSignals(s) = {"bollinger_mean_reversion", "cci_breakout", "cci_mean_reversion", "bollinger_squeeze_breakout"}
  BY DEF BandSignals
<1>1. /\ Recent(Closes(w), Slow) = Recent(Closes(s), Slow)
      /\ Recent(Closes(Front(w)), Slow) = Recent(Closes(Front(s)), Slow)
      /\ Recent(w, Period) = Recent(s, Period) /\ Recent(Front(w), Period) = Recent(Front(s), Period)
  BY SameRecent, PeriodAssumption DEF Positive
<1>2. /\ Bollinger(Closes(w), Slow, Deviations) = Bollinger(Closes(s), Slow, Deviations)
      /\ Bollinger(Closes(Front(w)), Slow, Deviations) = Bollinger(Closes(Front(s)), Slow, Deviations)
  BY <1>1, BollingerLooksBack
<1>3. Cci(w, Period) = Cci(s, Period) /\ Cci(Front(w), Period) = Cci(Front(s), Period)
  BY <1>1, CciLooksBack
<1>4. CASE name = "bollinger_mean_reversion"
  BY <1>2, <1>4 DEF BandSignals
<1>5. CASE name = "bollinger_squeeze_breakout"
  BY <1>2, <1>5 DEF BandSignals
<1>6. CASE name = "cci_breakout"
  BY <1>3, <1>6 DEF BandSignals
<1>7. CASE name = "cci_mean_reversion"
  BY <1>3, <1>7 DEF BandSignals
<1> QED BY <1>0, <1>4, <1>5, <1>6, <1>7

LEMMA CmfLooksBack ==
    ASSUME NEW v, NEW u, NEW p, Recent(v, p) = Recent(u, p)
    PROVE  Cmf(v, p) = Cmf(u, p)
<1> DEFINE flow(bar) == IF bar.high = bar.low THEN Whole(0)
                        ELSE Fraction((2 * bar.close - bar.low - bar.high) * bar.volume, bar.high - bar.low)
           of(part) ==
               IF Total([i \in 1..p |-> Whole(part[i].volume)]) = Whole(0) THEN Whole(0)
               ELSE Total([i \in 1..p |-> flow(part[i])]) // Total([i \in 1..p |-> Whole(part[i].volume)])
<1>1. \A x : Cmf(x, p) = of(Recent(x, p))
  BY DEF Cmf
<1> HIDE DEF of
<1> QED BY <1>1

(* The money flow also looks at the bar before its period. *)
LEMMA MfiAgrees ==
    ASSUME NEW w, NEW s, IsEnd(w, s), NEW p \in Positive, p < Len(w)
    PROVE  Mfi(w, p) = Mfi(s, p)
<1> PICK n \in Nat, m \in Nat : n = Len(w) /\ m = Len(s)
  BY DEF IsEnd
<1> DEFINE up(x0, x) == IF TypicalPrice(x0) \prec TypicalPrice(x) THEN TypicalPrice(x) ** Whole(x.volume) ELSE Whole(0)
           down(x0, x) == IF TypicalPrice(x) \prec TypicalPrice(x0) THEN TypicalPrice(x) ** Whole(x.volume) ELSE Whole(0)
           rose(b) == [k \in 1..p |-> up(b[(Len(b) - p + k) - 1], b[Len(b) - p + k])]
           fell(b) == [k \in 1..p |-> down(b[(Len(b) - p + k) - 1], b[Len(b) - p + k])]
<1>1. \A b : Mfi(b, p) = Percent(Total(rose(b)), Total(rose(b)) ++ Total(fell(b)), Whole(100))
  BY DEF Mfi
<1>2. ASSUME NEW k \in 1..p PROVE w[n - p + k] = s[m - p + k] /\ w[(n - p + k) - 1] = s[(m - p + k) - 1]
  <2> PICK a \in Nat : a = p - k
    BY <1>2 DEF Positive
  <2> PICK b \in Nat : b = p - k + 1
    BY <1>2 DEF Positive
  <2>1. a < n /\ b < n /\ n - p + k = n - a /\ (n - p + k) - 1 = n - b /\ m - p + k = m - a /\ (m - p + k) - 1 = m - b
    BY <1>2 DEF Positive
  <2>2. w[n - a] = s[m - a] /\ w[n - b] = s[m - b]
    BY <2>1, EndElement
  <2> QED BY <2>1, <2>2
<1> HIDE DEF up, down
<1>3. rose(w) = rose(s) /\ fell(w) = fell(s)
  BY <1>2
<1> QED BY <1>1, <1>3

LEMMA MoneyAgrees ==
    ASSUME NEW w, NEW s, IsEnd(w, s), Period + 1 < Len(w),
           NEW name \in {"cmf_breakout", "mfi_mean_reversion"}
    PROVE  VolumeSignals(w)[name] = VolumeSignals(s)[name]
<1>0. Period \in Positive /\ Len(w) \in Nat /\ Period < Len(w) /\ Period < Len(w) - 1 /\ Len(w) > 1
  BY PeriodAssumption DEF Positive, IsEnd
<1>1. /\ Recent(w, Period) = Recent(s, Period) /\ Recent(Front(w), Period) = Recent(Front(s), Period)
      /\ Recent(Closes(w), Period) = Recent(Closes(s), Period)
  BY <1>0, SameRecent
<1>2. Cmf(w, Period) = Cmf(s, Period) /\ Cmf(Front(w), Period) = Cmf(Front(s), Period)
  BY <1>1, CmfLooksBack
<1>3. IsEnd(Front(w), Front(s)) /\ Len(Front(w)) = Len(w) - 1
  BY <1>0, EndFront
<1>4. Mfi(w, Period) = Mfi(s, Period) /\ Mfi(Front(w), Period) = Mfi(Front(s), Period)
  BY <1>0, <1>3, MfiAgrees
<1>5. Last(Closes(w)) = Last(Closes(s)) /\ Sma(Closes(w), Period) = Sma(Closes(s), Period)
  BY <1>0, <1>1, SameLast DEF Sma
<1>6. CASE name = "cmf_breakout"
  BY <1>2, <1>5, <1>6 DEF VolumeSignals
<1>7. CASE name = "mfi_mean_reversion"
  BY <1>4, <1>7 DEF VolumeSignals
<1> QED BY <1>6, <1>7

LEMMA AroonLooksBack ==
    ASSUME NEW v, NEW u, NEW p, Recent(v, p) = Recent(u, p)
    PROVE  Aroon(v, p) = Aroon(u, p)
<1> DEFINE high(part) == CHOOSE i \in 1..p : /\ part[i].high = Highest(part)
                                               /\ \A j \in 1..(i - 1) : ~(part[j].high = Highest(part))
           low(part) == CHOOSE i \in 1..p : /\ part[i].low = Lowest(part)
                                              /\ \A j \in 1..(i - 1) : ~(part[j].low = Lowest(part))
           of(part) == <<<<100 * (high(part) - 1), p - 1>>, <<100 * (low(part) - 1), p - 1>>>>
<1>1. \A x : Aroon(x, p) = of(Recent(x, p))
  BY DEF Aroon
<1> HIDE DEF of
<1> QED BY <1>1

LEMMA TrendAgrees ==
    ASSUME NEW w, NEW s, IsEnd(w, s), Fast < Len(w), Mid < Len(w), Slow < Len(w), Len(w) > 1,
           NEW name \in {"aroon_trend", "ichimoku_trend"}
    PROVE  TrendSignals(w)[name] = TrendSignals(s)[name]
<1>1. \A k \in {Fast, Mid, Slow} :
         Recent(w, k) = Recent(s, k) /\ Recent(Front(w), k) = Recent(Front(s), k)
  BY SameRecent, PeriodAssumption DEF Positive
<1>2. \A k \in {Fast, Mid, Slow} :
         Middle(w, k) = Middle(s, k) /\ Middle(Front(w), k) = Middle(Front(s), k)
  BY <1>1 DEF Middle
<1>3. SpanA(w) = SpanA(s) /\ SpanA(Front(w)) = SpanA(Front(s))
  BY <1>2 DEF SpanA
<1>4. /\ CloudTop(w) = CloudTop(s) /\ CloudTop(Front(w)) = CloudTop(Front(s))
      /\ CloudBottom(w) = CloudBottom(s) /\ CloudBottom(Front(w)) = CloudBottom(Front(s))
  BY <1>2, <1>3 DEF CloudTop, CloudBottom
<1>5. Aroon(w, Slow) = Aroon(s, Slow) /\ Aroon(Front(w), Slow) = Aroon(Front(s), Slow)
  BY <1>1, AroonLooksBack
<1>6. Last(Closes(w)) = Last(Closes(s)) /\ Last(Closes(Front(w))) = Last(Closes(Front(s)))
  BY SameLast
<1>7. CASE name = "aroon_trend"
  BY <1>5, <1>7 DEF TrendSignals
<1>8. CASE name = "ichimoku_trend"
  BY <1>2, <1>4, <1>6, <1>8 DEF TrendSignals
<1> QED BY <1>7, <1>8

LEMMA ChannelAgrees ==
    ASSUME NEW w, NEW s, IsEnd(w, s), Period + 1 < Len(w), NEW name \in DOMAIN ChannelSignals(s)
    PROVE  ChannelSignals(w)[name] = ChannelSignals(s)[name]
<1> DEFINE channel(b) == Recent(b, Period)
           past(b) == b[Len(b) - Period]
<1>0. DOMAIN ChannelSignals(s) = {"williams_r", "donchian_breakout", "donchian_mean_reversion", "roc_momentum"}
  BY DEF ChannelSignals
<1>1. Period \in Positive /\ Period \in Nat /\ Len(w) \in Nat /\ Period < Len(w) /\ Period < Len(w) - 1 /\ Len(w) > 1
  BY PeriodAssumption DEF Positive, IsEnd
<1>2. channel(w) = channel(s) /\ channel(Front(w)) = channel(Front(s))
  BY <1>1, SameRecent
<1>3. Last(w) = Last(s) /\ Last(Front(w)) = Last(Front(s))
  BY <1>1, SameLast
<1>4. IsEnd(Front(w), Front(s)) /\ Len(Front(w)) = Len(w) - 1
  BY <1>1, EndFront
<1>5. past(w) = past(s) /\ past(Front(w)) = past(Front(s))
  BY <1>1, <1>4, EndElement
<1> HIDE DEF channel, past
<1>6. CASE name = "williams_r"
  BY <1>2, <1>3, <1>6 DEF ChannelSignals, channel
<1>7. CASE name = "donchian_breakout"
  BY <1>2, <1>3, <1>7 DEF ChannelSignals, channel, Last
<1>8. CASE name = "donchian_mean_reversion"
  BY <1>2, <1>3, <1>8 DEF ChannelSignals, channel, Last
<1>9. CASE name = "roc_momentum"
  BY <1>3, <1>5, <1>9 DEF ChannelSignals, past
<1> QED BY <1>0, <1>6, <1>7, <1>8, <1>9

LEMMA VwapLooksBack ==
    ASSUME NEW v, NEW u, Recent(v, Slow) = Recent(u, Slow)
    PROVE  Traded(v) = Traded(u) /\ Vwap(v) = Vwap(u)
<1> DEFINE volume(some) == Total([i \in 1..Slow |-> Whole(some[i].volume)])
           value(some) == Total([i \in 1..Slow |-> TypicalPrice(some[i]) ** Whole(some[i].volume)])
<1>1. \A x : Traded(x) = volume(Recent(x, Slow)) /\ Vwap(x) = value(Recent(x, Slow)) // Traded(x)
  BY DEF Traded, Vwap
<1> HIDE DEF volume, value
<1> QED BY <1>1

LEMMA PullbackAgrees ==
    ASSUME NEW w, NEW s, IsEnd(w, s), Slow < Len(w), Len(w) > 1
    PROVE  PullbackSignals(w)["vwap_mean_reversion"] = PullbackSignals(s)["vwap_mean_reversion"]
<1>1. Recent(w, Slow) = Recent(s, Slow) /\ Recent(Front(w), Slow) = Recent(Front(s), Slow)
  BY SameRecent, PeriodAssumption DEF Positive
<1>2. /\ Traded(w) = Traded(s) /\ Traded(Front(w)) = Traded(Front(s))
      /\ Vwap(w) = Vwap(s) /\ Vwap(Front(w)) = Vwap(Front(s))
  BY <1>1, VwapLooksBack
<1>3. Last(Closes(w)) = Last(Closes(s)) /\ Last(Front(Closes(w))) = Last(Front(Closes(s)))
  BY SameLast
<1> QED BY <1>2, <1>3 DEF PullbackSignals

LEMMA BreakoutAgrees ==
    ASSUME NEW w, NEW s, IsEnd(w, s), Period < Len(w), Len(w) > 1
    PROVE  BreakoutSignals(w)["volume_spike_breakout"] = BreakoutSignals(s)["volume_spike_breakout"]
<1> DEFINE spike(channel, volume) == <<9, 5>> ** Mean([i \in 1..Period |-> Whole(channel[i].volume)]) \preceq Whole(volume)
           of(channel, volume, close) ==
               Choose(spike(channel, volume) /\ Whole(Highest(channel)) \prec close,
                      spike(channel, volume) /\ close \prec Whole(Lowest(channel)))
<1>1. \A x : BreakoutSignals(x)["volume_spike_breakout"] = of(Recent(Front(x), Period), Last(x).volume, Last(Closes(x)))
  BY DEF BreakoutSignals
<1>2. Recent(Front(w), Period) = Recent(Front(s), Period)
  BY SameRecent, PeriodAssumption DEF Positive
<1>3. Last(w) = Last(s) /\ Last(Closes(w)) = Last(Closes(s))
  BY SameLast
<1> HIDE DEF of
<1> QED BY <1>1, <1>2, <1>3

-----------------------------------------------------------------------------
\* On-balance volume starts anew in every window: it differs by one number, and the means of
\* it by the same, so that their crossing is the same one.

(* One is a multiple of nothing but one. *)
LEMMA OnlyOne == ASSUME NEW g \in Positive, NEW q \in Positive, 1 = g * q PROVE g = 1 /\ q = 1
<1> PICK a \in Nat : a = g - 1
  <2>1. g - 1 \in Nat
    BY DEF Positive
  <2> QED BY <2>1
<1> PICK b \in Nat : b = q - 1
  <2>1. q - 1 \in Nat
    BY DEF Positive
  <2> QED BY <2>1
<1>1. g = a + 1 /\ q = b + 1
  BY DEF Positive
<1>2. g * q = a * b + a + b + 1 /\ a * b \in Nat
  BY <1>1
<1> QED BY <1>1, <1>2

LEMMA FractionOfOne ==
    /\ \A n \in Int : Fraction(n, 1) = Whole(n)
    /\ \A d \in Positive : Fraction(1, d) = <<1, d>>
<1>1. ASSUME NEW n \in Int PROVE Fraction(n, 1) = Whole(n)
  <2>1. 1 \in Positive
    BY DEF Positive
  <2> PICK p \in Int, q \in Positive, g \in Positive : Fraction(n, 1) = <<p, q>> /\ n = g * p /\ 1 = g * q
    BY <2>1, FractionIs
  <2>2. g = 1 /\ q = 1
    BY OnlyOne
  <2>3. p = n
    BY <2>2
  <2> QED BY <2>2, <2>3 DEF Whole
<1>2. ASSUME NEW d \in Positive PROVE Fraction(1, d) = <<1, d>>
  <2> PICK p \in Int, q \in Positive, g \in Positive : Fraction(1, d) = <<p, q>> /\ 1 = g * p /\ d = g * q
    BY FractionIs
  <2>1. p \in Positive
    <3>1. ASSUME p = 0 PROVE FALSE
      BY <3>1 DEF Positive
    <3>2. ASSUME p < 0 PROVE FALSE
      <4> PICK e \in Nat : e = -p - 1
        BY <3>2
      <4>1. p = -e - 1
        OBVIOUS
      <4>2. g * p = -(g * e) - g /\ g * e \in Nat
        BY <4>1 DEF Positive
      <4> QED BY <4>2 DEF Positive
    <3> QED BY <3>1, <3>2 DEF Positive
  <2>2. g = 1 /\ p = 1
    BY <2>1, OnlyOne
  <2>3. q = d
    BY <2>2 DEF Positive
  <2> QED BY <2>2, <2>3
<1> QED BY <1>1, <1>2

(* Whole numbers add up to whole numbers. *)
LEMMA WholePlus == ASSUME NEW a \in Int, NEW b \in Int PROVE Whole(a) ++ Whole(b) = Whole(a + b)
<1>1. Fraction(1, 1) = <<1, 1>> /\ Fraction(a + b, 1) = Whole(a + b)
  BY FractionOfOne DEF Whole
<1>2. Whole(a)[1] = a /\ Whole(a)[2] = 1 /\ Whole(b)[1] = b /\ Whole(b)[2] = 1
  BY DEF Whole
<1>3. Whole(a) ++ Whole(b) = Fraction(a * Fraction(1, 1)[2] + b * Fraction(1, 1)[1], 1 * Fraction(1, 1)[2])
  BY <1>2 DEF ++
<1>4. Whole(a) ++ Whole(b) = Fraction(a * 1 + b * 1, 1 * 1)
  BY <1>1, <1>3
<1>5. a * 1 + b * 1 = a + b /\ 1 * 1 = 1
  OBVIOUS
<1> QED BY <1>1, <1>4, <1>5

(* Numbers compare with a sum over a count as so many of them with the sum. *)
LEMMA WholeParts ==
    ASSUME NEW a \in Int, NEW p \in Positive, NEW x \in Int
    PROVE  /\ (Whole(x) \preceq Whole(a) // Whole(p)) = (x * p <= a)
           /\ (Whole(a) // Whole(p) \preceq Whole(x)) = (a <= x * p)
           /\ (Whole(a) // Whole(p) \prec Whole(x)) = (a < x * p)
           /\ (Whole(x) \prec Whole(a) // Whole(p)) = (x * p < a)
<1> PICK h \in Int, q \in Positive, g \in Positive : Fraction(a, p) = <<h, q>> /\ a = g * h /\ p = g * q
  BY FractionIs
<1>1. Whole(a) // Whole(p) = <<h, q>>
  <2>1. Fraction(1, p) = <<1, p>> /\ Fraction(1, 1) = <<1, 1>>
    BY FractionOfOne DEF Whole
  <2>2. Whole(a) // Whole(p) = Whole(a) ** <<1, p>>
    BY <2>1 DEF //, Whole
  <2>3. Whole(a) ** <<1, p>> = <<Fraction(a, p)[1] * Fraction(1, 1)[1], Fraction(a, p)[2] * Fraction(1, 1)[2]>>
    BY DEF **, Whole
  <2>4. Whole(a) ** <<1, p>> = <<h * 1, q * 1>>
    BY <2>1, <2>3
  <2>5. h * 1 = h /\ q * 1 = q
    BY DEF Positive
  <2> QED BY <2>2, <2>4, <2>5
<1>2. <<h, q>> \in Rationals /\ Whole(x) \in Rationals
  BY DEF Rationals, Positive, Whole
<1>3. AtMost(Whole(x), <<h, q>>) = (x * q <= h) /\ AtMost(<<h, q>>, Whole(x)) = (h <= x * q)
  BY DEF AtMost, Whole
<1>4. ASSUME NEW u \in Int, NEW v \in Int PROVE u <= v <=> g * u <= g * v
  <2>1. ASSUME u <= v PROVE g * u <= g * v
    <3> PICK e \in Nat : e = v - u
      BY <2>1
    <3>1. v = u + e
      OBVIOUS
    <3>2. g * v = g * u + g * e /\ g * e \in Nat
      BY <3>1 DEF Positive
    <3> QED BY <3>2 DEF Positive
  <2>2. ASSUME v < u PROVE g * v < g * u
    <3> PICK e \in Nat : e = u - v - 1
      BY <2>2
    <3>1. u = v + 1 + e
      OBVIOUS
    <3>2. g * u = g * v + g + g * e /\ g * e \in Nat
      BY <3>1 DEF Positive
    <3> QED BY <3>2 DEF Positive
  <2> QED BY <2>1, <2>2 DEF Positive
<1>5. g * (x * q) = x * p /\ x * q \in Int
  BY DEF Positive
<1>6. (x * q <= h <=> x * p <= a) /\ (h <= x * q <=> a <= x * p)
  <2> PICK y \in Int : y = x * q
    BY <1>5
  <2> QED BY <1>4, <1>5
<1>7. (x * q <= h) = (x * p <= a) /\ (h <= x * q) = (a <= x * p)
  BY <1>6
<1>8. x * p \in Int
  BY DEF Positive
<1>9. /\ (Whole(x) \preceq Whole(a) // Whole(p)) = (x * p <= a)
      /\ (Whole(a) // Whole(p) \preceq Whole(x)) = (a <= x * p)
  BY <1>1, <1>2, <1>3, <1>7, UpToIs
<1>10. /\ (Whole(a) // Whole(p) \prec Whole(x)) = ~(x * p <= a)
       /\ (Whole(x) \prec Whole(a) // Whole(p)) = ~(a <= x * p)
  <2>1. AtMost(Whole(x), <<h, q>>) = (x * p <= a) /\ AtMost(<<h, q>>, Whole(x)) = (a <= x * p)
    BY <1>3, <1>7
  <2>2. /\ (Whole(a) // Whole(p) \prec Whole(x)) = ~AtMost(Whole(x), <<h, q>>)
        /\ (Whole(x) \prec Whole(a) // Whole(p)) = ~AtMost(<<h, q>>, Whole(x))
    BY <1>1, <1>2, UpToIs
  <2> QED BY <2>1, <2>2
<1> PICK y \in Int : y = x * p
  BY <1>8
<1>11. ~(y <= a) = (a < y) /\ ~(a <= y) = (y < a)
  OBVIOUS
<1> QED BY <1>9, <1>10, <1>11

\* What Total scans.
SumRun(f, s) ==
    f = [i \in 0..Len(s) |->
            IF i = 0 THEN <<Whole(0)>> ELSE LET done == f[i - 1] IN Append(done, Last(done) ++ s[i])]

LEMMA TotalIsRun == ASSUME NEW s PROVE Total(s) = Last((CHOOSE f : SumRun(f, s))[Len(s)])
  BY DEF Total, Scan, SumRun

LEMMA SumExists ==
    ASSUME NEW s, NEW n \in Nat
    PROVE  \E f : f = [i \in 0..n |->
                          IF i = 0 THEN <<Whole(0)>>
                          ELSE LET done == f[i - 1] IN Append(done, Last(done) ++ s[i])]
  <1>. DEFINE start == <<Whole(0)>>
              next(done, i) == Append(done, Last(done) ++ s[i])
              Run(f, k) == f = [i \in 0..k |-> IF i = 0 THEN start ELSE next(f[i - 1], i)]
              T == {k \in Nat : \E f : Run(f, k)}
  <1>. HIDE DEF next, start
  <1>1. 0 \in T
    <2>1. Run([i \in 0..0 |-> start], 0)
      OBVIOUS
    <2>. QED
      BY <2>1
  <1>2. ASSUME NEW k \in Nat, k \in T PROVE k + 1 \in T
    <2>1. PICK g : Run(g, k)
      BY <1>2
    <2>. DEFINE h == [i \in 0..(k + 1) |-> IF i = k + 1 THEN next(g[k], k + 1) ELSE g[i]]
    <2>2. \A i \in 0..(k + 1) : h[i] = IF i = 0 THEN start ELSE next(h[i - 1], i)
      <3>. SUFFICES ASSUME NEW i \in 0..(k + 1) PROVE h[i] = IF i = 0 THEN start ELSE next(h[i - 1], i)
        OBVIOUS
      <3>1. CASE i = k + 1
        <4>1. i - 1 = k /\ k \in 0..(k + 1) /\ k # k + 1 /\ i # 0
          BY <3>1
        <4>2. h[k] = g[k] /\ h[i] = next(g[k], i)
          BY <3>1, <4>1
        <4>. HIDE DEF h
        <4>. QED
          BY <4>1, <4>2
      <3>2. CASE i # k + 1
        <4>1. i \in 0..k
          BY <3>2
        <4>2. g[i] = IF i = 0 THEN start ELSE next(g[i - 1], i)
          BY <2>1, <4>1
        <4>3. h[i] = g[i]
          BY <3>2
        <4>4. CASE i = 0
          BY <4>2, <4>3, <4>4
        <4>5. CASE i # 0
          <5>1. i - 1 \in 0..(k + 1) /\ i - 1 # k + 1
            BY <4>1, <4>5
          <5>2. h[i - 1] = g[i - 1]
            BY <5>1
          <5>. HIDE DEF h, Run
          <5>. QED
            BY <4>2, <4>3, <4>5, <5>2
        <4>. QED
          BY <4>4, <4>5
      <3>. QED
        BY <3>1, <3>2
    <2>3. Run(h, k + 1)
      <3>1. h = [i \in 0..(k + 1) |-> h[i]]
        OBVIOUS
      <3>. HIDE DEF h
      <3>. QED
        BY <2>2, <3>1
    <2>. HIDE DEF Run, h
    <2>. QED
      BY <2>3
  <1>3. n \in T
    <2>. HIDE DEF T
    <2>. QED
      BY <1>1, <1>2, Induct
  <1>4. \E f : Run(f, n)
    BY <1>3
  <1>. QED
    BY <1>4 DEF next, start

(* A total is the last of sums, each the one before and a term. *)
LEMMA TotalUnfolds ==
    ASSUME NEW s, NEW n \in Nat, Len(s) = n
    PROVE  \E f : /\ Total(s) = Last(f[n]) /\ f[0] = <<Whole(0)>>
                  /\ \A i \in 0..n : IsList(f[i], i + 1)
                  /\ \A i \in 1..n : f[i] = Append(f[i - 1], Last(f[i - 1]) ++ s[i])
  <1>. DEFINE f == CHOOSE f : SumRun(f, s)
              next(done, i) == Append(done, Last(done) ++ s[i])
  <1>1. SumRun(f, s)
    <2>1. \E x : SumRun(x, s)
      BY SumExists DEF SumRun
    <2>. QED
      BY <2>1
  <1>2. Total(s) = Last(f[n])
    BY TotalIsRun
  <1>. HIDE DEF f
  <1>3. f[0] = <<Whole(0)>> /\ \A i \in 1..n : f[i] = next(f[i - 1], i)
    <2>1. f = [i \in 0..n |-> IF i = 0 THEN <<Whole(0)>> ELSE next(f[i - 1], i)]
      BY <1>1 DEF SumRun
    <2>. HIDE DEF next
    <2>2. \A i \in 0..n : f[i] = IF i = 0 THEN <<Whole(0)>> ELSE next(f[i - 1], i)
      BY <2>1
    <2>. QED
      BY <2>2
  <1>4. Growing(f, n)
    BY <1>3 DEF Growing
  <1>5. \A i \in 0..n : IsList(f[i], i + 1)
    BY <1>4, GrowingLists
  <1>. QED
    BY <1>2, <1>3, <1>5

LEMMA LastAppended ==
    ASSUME NEW s, NEW n \in Nat, IsList(s, n), NEW x
    PROVE  Last(Append(s, x)) = x
  <1>1. PICK S : s \in Seq(S) /\ Len(s) = n
    BY DEF IsList
  <1>2. s \in Seq(S \cup {x}) /\ x \in S \cup {x}
    BY <1>1, SeqMonotonic
  <1>. DEFINE V == S \cup {x}
              t == Append(s, x)
  <1>3. s \in Seq(V) /\ x \in V
    BY <1>2
  <1>. HIDE DEF V
  <1>4. Len(t) = n + 1 /\ t[n + 1] = x
    BY <1>1, <1>3, AppendProperties
  <1>. QED
    BY <1>4 DEF Last

\* Whole numbers, as fractions.
Wholes(x, v, n) == x = [i \in 1..n |-> Whole(v[i])]

LEMMA WholesAre ==
    ASSUME NEW x, NEW v, NEW n \in Nat, Wholes(x, v, n)
    PROVE  Len(x) = n /\ \A i \in 1..n : x[i] = Whole(v[i])
  <1>1. \A i \in 1..n : x[i] = Whole(v[i])
    BY DEF Wholes
  <1>2. x \in Seq({Whole(v[i]) : i \in 1..n}) /\ Len(x) = n
    <2>. DEFINE V == {Whole(v[i]) : i \in 1..n}
    <2>1. \A i \in 1..n : x[i] \in V
      BY <1>1
    <2>2. x = [i \in 1..n |-> x[i]]
      BY DEF Wholes
    <2>. HIDE DEF V
    <2>3. x \in [1..n -> V]
      BY <2>1, <2>2
    <2>4. x \in Seq(V) /\ Len(x) = n
      BY <2>3
    <2>. QED
      BY <2>4 DEF V
  <1>. QED
    BY <1>1, <1>2

\* Numbers that are all larger by the same.
Larger(u, v, n, c) == \A i \in 1..n : v[i] \in Int /\ u[i] = v[i] + c

(* Numbers that are all larger by the same have a total that is larger by as many times that. *)
LEMMA TotalShifts ==
    ASSUME NEW n \in Nat, NEW v, NEW u, NEW c \in Int, Larger(u, v, n, c),
           NEW x, NEW y, Wholes(x, v, n), Wholes(y, u, n)
    PROVE  \E a \in Int : Total(x) = Whole(a) /\ Total(y) = Whole(a + n * c)
  <1>1. /\ Len(x) = n /\ \A i \in 1..n : x[i] = Whole(v[i])
        /\ Len(y) = n /\ \A i \in 1..n : y[i] = Whole(u[i])
    BY WholesAre
  <1>2. PICK f : /\ Total(x) = Last(f[n]) /\ f[0] = <<Whole(0)>>
                 /\ \A i \in 0..n : IsList(f[i], i + 1)
                 /\ \A i \in 1..n : f[i] = Append(f[i - 1], Last(f[i - 1]) ++ x[i])
    BY <1>1, TotalUnfolds
  <1>3. PICK g : /\ Total(y) = Last(g[n]) /\ g[0] = <<Whole(0)>>
                 /\ \A i \in 0..n : IsList(g[i], i + 1)
                 /\ \A i \in 1..n : g[i] = Append(g[i - 1], Last(g[i - 1]) ++ y[i])
    BY <1>1, TotalUnfolds
  <1>. DEFINE Sums(i) == \E a \in Int : Last(f[i]) = Whole(a) /\ Last(g[i]) = Whole(a + i * c)
              T == {i \in Nat : i <= n => Sums(i)}
  <1>4. 0 \in T
    <2>1. Last(<<Whole(0)>>) = Whole(0)
      BY DEF Last
    <2>2. 0 + 0 * c = 0
      OBVIOUS
    <2>3. Last(f[0]) = Whole(0) /\ Last(g[0]) = Whole(0 + 0 * c)
      BY <1>2, <1>3, <2>1, <2>2
    <2>. QED
      BY <2>3
  <1>5. ASSUME NEW i \in Nat, i \in T PROVE i + 1 \in T
    <2>1. CASE i + 1 <= n
      <3>. PICK j \in Nat : j = i + 1
        OBVIOUS
      <3>1. j \in 1..n /\ j - 1 = i /\ i \in 0..n /\ i <= n
        BY <2>1
      <3>2. PICK a \in Int : Last(f[i]) = Whole(a) /\ Last(g[i]) = Whole(a + i * c)
        BY <1>5, <3>1
      <3>3. IsList(f[i], j) /\ IsList(g[i], j)
        BY <1>2, <1>3, <3>1
      <3>4. Last(f[j]) = Whole(a) ++ Whole(v[j]) /\ Last(g[j]) = Whole(a + i * c) ++ Whole(u[j])
        <4>1. f[j] = Append(f[i], Last(f[i]) ++ x[j]) /\ g[j] = Append(g[i], Last(g[i]) ++ y[j])
          BY <1>2, <1>3, <3>1
        <4>2. Last(f[j]) = Last(f[i]) ++ x[j] /\ Last(g[j]) = Last(g[i]) ++ y[j]
          BY <3>3, <4>1, LastAppended
        <4>. QED
          BY <1>1, <3>1, <3>2, <4>2
      <3>5. v[j] \in Int /\ u[j] = v[j] + c /\ i * c \in Int
        BY <3>1 DEF Larger
      <3>6. Last(f[j]) = Whole(a + v[j]) /\ Last(g[j]) = Whole(a + i * c + u[j])
        <4>. PICK b \in Int : b = a + i * c
          BY <3>5
        <4>1. v[j] \in Int /\ u[j] \in Int
          BY <3>5
        <4>2. Whole(a) ++ Whole(v[j]) = Whole(a + v[j]) /\ Whole(b) ++ Whole(u[j]) = Whole(b + u[j])
          BY <4>1, WholePlus
        <4>. QED
          BY <3>4, <4>2
      <3>7. a + i * c + u[j] = (a + v[j]) + j * c
        <4>1. j * c = i * c + c
          OBVIOUS
        <4>. QED
          BY <3>5, <4>1
      <3>8. a + v[j] \in Int
        BY <3>5
      <3>9. Sums(j)
        BY <3>6, <3>7, <3>8
      <3>. HIDE DEF Sums
      <3>. QED
        BY <3>9
    <2>. QED
      BY <2>1
  <1>6. n \in T
    <2>. HIDE DEF T
    <2>. QED
      BY <1>4, <1>5, Induct
  <1>. QED
    BY <1>2, <1>3, <1>6

(* So their mean compares with a number as it did, where the number is larger by the same. *)
LEMMA MeanShifts ==
    ASSUME NEW p \in Positive, NEW v, NEW u, NEW c \in Int, Larger(u, v, p, c),
           NEW x, NEW y, Wholes(x, v, p), Wholes(y, u, p), NEW k \in Int
    PROVE  /\ (Whole(k) \preceq Mean(x)) = (Whole(k + c) \preceq Mean(y))
           /\ (Mean(x) \preceq Whole(k)) = (Mean(y) \preceq Whole(k + c))
           /\ (Mean(x) \prec Whole(k)) = (Mean(y) \prec Whole(k + c))
           /\ (Whole(k) \prec Mean(x)) = (Whole(k + c) \prec Mean(y))
  <1>0. p \in Nat
    BY DEF Positive
  <1>. PICK a \in Int : Total(x) = Whole(a) /\ Total(y) = Whole(a + p * c)
    BY <1>0, TotalShifts
  <1>1. Mean(x) = Whole(a) // Whole(p) /\ Mean(y) = Whole(a + p * c) // Whole(p)
    BY <1>0, WholesAre DEF Mean
  <1>. PICK b \in Int : b = a + p * c
    BY <1>0
  <1>. PICK l \in Int : l = k + c
    OBVIOUS
  <1>2. l * p = k * p + p * c /\ k * p \in Int /\ p * c \in Int
    BY <1>0
  <1>. PICK kp \in Int, moved \in Int : kp = k * p /\ moved = p * c
    BY <1>2
  <1>3. l * p = kp + moved /\ b = a + moved
    BY <1>2
  <1>4. /\ (kp <= a) = (kp + moved <= b) /\ (a <= kp) = (b <= kp + moved)
        /\ (a < kp) = (b < kp + moved) /\ (kp < a) = (kp + moved < b)
    BY <1>3
  <1>5. /\ (Whole(k) \preceq Mean(x)) = (kp <= a) /\ (Mean(x) \preceq Whole(k)) = (a <= kp)
        /\ (Mean(x) \prec Whole(k)) = (a < kp) /\ (Whole(k) \prec Mean(x)) = (kp < a)
    BY <1>1, WholeParts
  <1>6. /\ (Whole(l) \preceq Mean(y)) = (kp + moved <= b) /\ (Mean(y) \preceq Whole(l)) = (b <= kp + moved)
        /\ (Mean(y) \prec Whole(l)) = (b < kp + moved) /\ (Whole(l) \prec Mean(y)) = (kp + moved < b)
    BY <1>1, <1>3, WholeParts
  <1>. QED
    BY <1>4, <1>5, <1>6

LEMMA BarNumbers == \A bar \in PriceBar : bar.close \in Int /\ bar.volume \in Int
  BY DEF PriceBar

LEMMA ObvStepIsNumber ==
    ASSUME NEW s \in Seq(PriceBar), NEW i \in 2..Len(s), NEW sum \in Int
    PROVE  ObvStep(s, sum, i) \in Int
  <1>1. i \in 1..Len(s) /\ i - 1 \in 1..Len(s)
    OBVIOUS
  <1>2. s[i] \in PriceBar /\ s[i - 1] \in PriceBar
    BY <1>1
  <1>3. s[i].close - s[i - 1].close \in Int /\ s[i].volume \in Int
    <2>1. s[i].close \in Int /\ s[i - 1].close \in Int /\ s[i].volume \in Int
      BY <1>2, BarNumbers
    <2>. QED
      BY <2>1
  <1>. QED
    BY <1>3 DEF ObvStep

\* The same two bars, whose numbers can be added.
SameBars(w, i, s, j) ==
    /\ w[i] = s[j] /\ w[i - 1] = s[j - 1]
    /\ w[i].close - w[i - 1].close \in Int /\ w[i].volume \in Int

(* They add the same. *)
LEMMA ObvStepShifts ==
    ASSUME NEW w, NEW s, NEW i, NEW j, SameBars(w, i, s, j),
           NEW sum \in Int, NEW c \in Int, NEW new \in Int, new = sum + c
    PROVE  ObvStep(s, new, j) = ObvStep(w, sum, i) + c
  <1>. PICK rise \in Int, volume \in Int : rise = w[i].close - w[i - 1].close /\ volume = w[i].volume
    BY DEF SameBars
  <1>1. rise = s[j].close - s[j - 1].close /\ volume = s[j].volume
    BY DEF SameBars
  <1>2. ObvStep(w, sum, i) = IF rise > 0 THEN sum + volume ELSE IF rise < 0 THEN sum - volume ELSE sum
    BY DEF ObvStep
  <1>3. ObvStep(s, new, j) = IF rise > 0 THEN new + volume ELSE IF rise < 0 THEN new - volume ELSE new
    BY <1>1 DEF ObvStep
  <1>. QED
    BY <1>2, <1>3

(* Obv starts with nothing and steps from bar to bar. *)
LEMMA ObvUnfolds ==
    ASSUME NEW s \in Seq(PriceBar), Len(s) > 0
    PROVE  /\ Obv(s) \in Seq(Int) /\ Len(Obv(s)) = Len(s)
           /\ \A i \in 1..(Len(s) - 1) : Obv(s)[i + 1] = ObvStep(s, Obv(s)[i], i + 1)
  <1>. DEFINE n == Len(s) - 1
              f == CHOOSE f : ObvRun(f, s)
              next(done, i) == Append(done, ObvStep(s, Last(done), Later(s)[i]))
  <1>1. n \in Nat /\ Len(s) = n + 1
    OBVIOUS
  <1>2. Len(Later(s)) = n /\ \A i \in 1..n : Later(s)[i] = i + 1
    <2>1. \A t, m : m \in Nat /\ Len(t) - 1 = m => Len(Later(t)) = m /\ \A i \in 1..m : Later(t)[i] = i + 1
      BY DEF Later
    <2>2. Len(s) - 1 = n
      OBVIOUS
    <2>. HIDE DEF n
    <2>. QED
      BY <1>1, <2>1, <2>2
  <1>3. ObvRun(f, s)
    <2>1. \E x : ObvRun(x, s)
      <3>1. Len(Later(s)) \in Nat
        BY <1>1, <1>2
      <3>. HIDE DEF n
      <3>. QED
        BY <3>1, ObvExists DEF ObvRun
    <2>. QED
      BY <2>1
  <1>4. Obv(s) = f[n]
    BY <1>2, ObvIsRun
  <1>. HIDE DEF f, n
  <1>5. \A i \in 0..n : f[i] = IF i = 0 THEN <<0>> ELSE next(f[i - 1], i)
    <2>. HIDE DEF next
    <2>1. f = [i \in 0..n |-> IF i = 0 THEN <<0>> ELSE next(f[i - 1], i)]
      BY <1>2, <1>3 DEF ObvRun, next
    <2>. QED
      BY <2>1
  <1>. DEFINE Steps(i) == /\ f[i] \in Seq(Int) /\ Len(f[i]) = i + 1
                          /\ \A j \in 1..i : f[i][j + 1] = ObvStep(s, f[i][j], j + 1)
              T == {i \in Nat : i <= n => Steps(i)}
  <1>6. 0 \in T
    <2>1. f[0] = <<0>>
      BY <1>1, <1>5
    <2>2. <<0>> \in Seq(Int) /\ Len(<<0>>) = 0 + 1
      OBVIOUS
    <2>3. Steps(0)
      BY <2>1, <2>2
    <2>. HIDE DEF Steps
    <2>. QED
      BY <2>3
  <1>7. ASSUME NEW i \in Nat, i \in T PROVE i + 1 \in T
    <2>1. CASE i + 1 <= n
      <3>. PICK k \in Nat : k = i + 1
        OBVIOUS
      <3>1. k \in 1..n /\ k \in 0..n /\ k # 0 /\ k - 1 = i /\ i <= n
        BY <1>1, <2>1
      <3>2. Steps(i)
        BY <1>7, <3>1
      <3>3. f[k] = next(f[i], k)
        <4>. HIDE DEF next
        <4>. QED
          BY <1>5, <3>1
      <3>4. Last(f[i]) = f[i][k] /\ f[i][k] \in Int /\ Later(s)[k] = k + 1
        BY <1>2, <3>1, <3>2 DEF Last
      <3>. PICK step : step = ObvStep(s, f[i][k], k + 1)
        OBVIOUS
      <3>5. f[k] = Append(f[i], step)
        BY <3>3, <3>4
      <3>6. step \in Int
        <4>1. k + 1 \in 2..Len(s)
          BY <1>1, <3>1
        <4>. QED
          BY <3>4, <4>1, ObvStepIsNumber
      <3>7. /\ f[k] \in Seq(Int) /\ Len(f[k]) = k + 1 /\ f[k][k + 1] = step
            /\ \A j \in 1..k : f[k][j] = f[i][j]
        BY <3>2, <3>5, <3>6, AppendProperties
      <3>8. ASSUME NEW j \in 1..k PROVE f[k][j + 1] = ObvStep(s, f[k][j], j + 1)
        <4>1. CASE j = k
          BY <3>7, <4>1
        <4>2. CASE j # k
          <5>1. j \in 1..i /\ j + 1 \in 1..k
            BY <3>1, <4>2
          <5>. QED
            BY <3>2, <3>7, <5>1
        <4>. QED
          BY <4>1, <4>2
      <3>9. Steps(k)
        BY <3>7, <3>8
      <3>. HIDE DEF Steps
      <3>. QED
        BY <3>9
    <2>. QED
      BY <2>1
  <1>8. n \in T
    <2>. HIDE DEF T
    <2>. QED
      BY <1>1, <1>6, <1>7, Induct
  <1>9. Steps(n)
    BY <1>1, <1>8
  <1>. QED
    BY <1>1, <1>4, <1>9 DEF n

\* Numbers that are larger by the same, as far back as the shorter list goes.
Shifted(v, u, c) ==
    /\ v \in Seq(Int) /\ u \in Seq(Int) /\ Len(v) <= Len(u)
    /\ \A i \in 0..(Len(v) - 1) : u[Len(u) - i] = v[Len(v) - i] + c

(* Where it started is all that a shorter history changes in Obv. *)
LEMMA ObvShifts ==
    ASSUME NEW w \in Seq(PriceBar), NEW s \in Seq(PriceBar), IsEnd(w, s), Len(w) > 0
    PROVE  \E c \in Int : Shifted(Obv(w), Obv(s), c)
  <1>. PICK n \in Nat, m \in Nat : n = Len(w) /\ m = Len(s)
    BY DEF IsEnd
  <1>. PICK off \in Nat : off = m - n
    <2>1. n <= m
      BY DEF IsEnd
    <2>. QED
      BY <2>1
  <1>1. /\ Obv(w) \in Seq(Int) /\ Len(Obv(w)) = n
        /\ \A i \in 1..(n - 1) : Obv(w)[i + 1] = ObvStep(w, Obv(w)[i], i + 1)
    BY ObvUnfolds
  <1>2. /\ Obv(s) \in Seq(Int) /\ Len(Obv(s)) = m
        /\ \A i \in 1..(m - 1) : Obv(s)[i + 1] = ObvStep(s, Obv(s)[i], i + 1)
    <2>1. Len(s) > 0
      BY DEF IsEnd
    <2>. QED
      BY <2>1, ObvUnfolds
  <1>. PICK v, u : v = Obv(w) /\ u = Obv(s)
    OBVIOUS
  <1>. PICK c \in Int : c = u[off + 1] - v[1]
    <2>1. off + 1 \in 1..m /\ 1 \in 1..n
      OBVIOUS
    <2>2. u[off + 1] \in Int /\ v[1] \in Int
      BY <1>1, <1>2, <2>1
    <2>. QED
      BY <2>2
  <1>3. \A i \in 1..n : w[i] = s[off + i]
    <2>. SUFFICES ASSUME NEW i \in 1..n PROVE w[i] = s[off + i]
      OBVIOUS
    <2>. PICK j \in Nat : j = n - i
      <3>1. n - i \in Nat
        OBVIOUS
      <3>. QED
        BY <3>1
    <2>1. j < n /\ n - j = i /\ m - j = off + i
      OBVIOUS
    <2>. QED
      BY <2>1, EndElement
  <1>. DEFINE T == {i \in Nat : i + 1 <= n => u[off + i + 1] = v[i + 1] + c}
  <1>4. 0 \in T
    <2>1. u[off + 1] \in Int /\ v[1] \in Int
      <3>1. off + 1 \in 1..m /\ 1 \in 1..n
        OBVIOUS
      <3>. QED
        BY <1>1, <1>2, <3>1
    <2>2. off + 0 + 1 = off + 1 /\ 0 + 1 = 1
      OBVIOUS
    <2>. QED
      BY <2>1, <2>2
  <1>5. ASSUME NEW i \in Nat, i \in T PROVE i + 1 \in T
    <2>1. CASE i + 2 <= n
      <3>. PICK k \in Nat : k = i + 1
        OBVIOUS
      <3>. PICK l \in Nat : l = off + k
        <4>1. off + k \in Nat
          OBVIOUS
        <4>. QED
          BY <4>1
      <3>1. k \in 1..(n - 1) /\ k \in 1..n /\ l \in 1..(m - 1) /\ k + 1 \in 1..n
        BY <2>1
      <3>2. u[l] = v[k] + c
        <4>1. off + i + 1 = l /\ i + 1 <= n
          BY <2>1
        <4>. QED
          BY <1>5, <4>1
      <3>3. v[k] \in Int
        BY <1>1, <3>1
      <3>4. w[k] = s[l] /\ w[k + 1] = s[l + 1]
        <4>1. off + (k + 1) = l + 1
          OBVIOUS
        <4>. QED
          BY <1>3, <3>1, <4>1
      <3>5. w[k] \in PriceBar /\ w[k + 1] \in PriceBar
        BY <3>1
      <3>6. /\ w[k + 1].close - w[k].close \in Int /\ w[k + 1].volume \in Int
            /\ k + 1 - 1 = k /\ l + 1 - 1 = l
        <4>1. w[k + 1].close \in Int /\ w[k].close \in Int /\ w[k + 1].volume \in Int
          BY <3>5, BarNumbers
        <4>. QED
          BY <4>1
      <3>7. ObvStep(s, v[k] + c, l + 1) = ObvStep(w, v[k], k + 1) + c
        <4>0. k + 1 \in Int /\ l + 1 \in Int /\ v[k] + c \in Int
          BY <3>3
        <4>. PICK x \in Int, y \in Int, new \in Int : x = k + 1 /\ y = l + 1 /\ new = v[k] + c
          BY <4>0
        <4>1. SameBars(w, x, s, y)
          <5>1. x - 1 = k /\ y - 1 = l
            OBVIOUS
          <5>2. w[x - 1] = w[k] /\ s[y - 1] = s[l] /\ w[x] = w[k + 1] /\ s[y] = s[l + 1]
            BY <5>1
          <5>. QED
            BY <3>4, <3>6, <5>2 DEF SameBars
        <4>2. ObvStep(s, new, y) = ObvStep(w, v[k], x) + c
          BY <3>3, <4>1, ObvStepShifts
        <4>. QED
          BY <4>2
      <3>8. v[k + 1] = ObvStep(w, v[k], k + 1) /\ u[l + 1] = ObvStep(s, u[l], l + 1)
        BY <1>1, <1>2, <3>1
      <3>9. u[l + 1] = v[k + 1] + c
        BY <3>2, <3>7, <3>8
      <3>10. l + 1 = off + (i + 1) + 1 /\ k + 1 = (i + 1) + 1
        OBVIOUS
      <3>. QED
        BY <3>9, <3>10
    <2>. QED
      BY <2>1
  <1>6. \A i \in Nat : i \in T
    <2>. HIDE DEF T
    <2>. QED
      BY <1>4, <1>5, Induct
  <1>7. ASSUME NEW i \in 0..(n - 1) PROVE u[m - i] = v[n - i] + c
    <2>. PICK j \in Nat : j = n - i - 1
      <3>1. n - i - 1 \in Nat
        OBVIOUS
      <3>. QED
        BY <3>1
    <2>1. j + 1 <= n /\ off + j + 1 = m - i /\ j + 1 = n - i
      OBVIOUS
    <2>2. u[off + j + 1] = v[j + 1] + c
      BY <1>6, <2>1
    <2>. QED
      BY <2>1, <2>2
  <1>8. Shifted(v, u, c)
    BY <1>1, <1>2, <1>7 DEF Shifted
  <1>. QED
    BY <1>8

LEMMA ShiftedFront ==
    ASSUME NEW v, NEW u, NEW c \in Int, Shifted(v, u, c), Len(v) > 0
    PROVE  Shifted(Front(v), Front(u), c) /\ Len(Front(v)) = Len(v) - 1
  <1>. PICK n \in Nat, m \in Nat : n = Len(v) /\ m = Len(u)
    BY DEF Shifted
  <1>1. v \in Seq(Int) /\ u \in Seq(Int) /\ n <= m /\ n > 0 /\ m > 0
    BY DEF Shifted
  <1>2. /\ Front(v) \in Seq(Int) /\ Len(Front(v)) = n - 1 /\ \A i \in 1..(n - 1) : Front(v)[i] = v[i]
        /\ Front(u) \in Seq(Int) /\ Len(Front(u)) = m - 1 /\ \A i \in 1..(m - 1) : Front(u)[i] = u[i]
    BY <1>1, FrontProperties
  <1>3. ASSUME NEW i \in 0..(n - 1 - 1) PROVE Front(u)[m - 1 - i] = Front(v)[n - 1 - i] + c
    <2>. PICK j \in Nat : j = i + 1
      OBVIOUS
    <2>1. j \in 0..(n - 1) /\ n - 1 - i = n - j /\ m - 1 - i = m - j /\ n - j \in 1..(n - 1) /\ m - j \in 1..(m - 1)
      BY <1>1
    <2>2. u[m - j] = v[n - j] + c
      BY <2>1 DEF Shifted
    <2>. QED
      BY <1>2, <2>1, <2>2
  <1>4. n - 1 <= m - 1
    BY <1>1
  <1>. QED
    BY <1>2, <1>3, <1>4 DEF Shifted

(* A crossing of a list with its mean does not see by how much it is larger. *)
LEMMA ShiftedMean ==
    ASSUME NEW v, NEW u, NEW c \in Int, Shifted(v, u, c), NEW p \in Positive, p <= Len(v),
           NEW x, NEW y, Wholes(x, Recent(v, p), p), Wholes(y, Recent(u, p), p)
    PROVE  /\ (Whole(Last(v)) \preceq Mean(x)) = (Whole(Last(u)) \preceq Mean(y))
           /\ (Mean(x) \preceq Whole(Last(v))) = (Mean(y) \preceq Whole(Last(u)))
           /\ (Mean(x) \prec Whole(Last(v))) = (Mean(y) \prec Whole(Last(u)))
           /\ (Whole(Last(v)) \prec Mean(x)) = (Whole(Last(u)) \prec Mean(y))
  <1>. PICK n \in Nat, m \in Nat : n = Len(v) /\ m = Len(u)
    BY DEF Shifted
  <1>1. v \in Seq(Int) /\ u \in Seq(Int) /\ n <= m /\ n > 0 /\ p <= n /\ p <= m /\ p \in Nat /\ p > 0
    BY DEF Shifted, Positive
  <1>0. /\ \A i \in 0..(n - 1) : u[m - i] = v[n - i] + c
        /\ \A i \in 1..n : v[i] \in Int
    BY DEF Shifted
  <1>2. IsEnd(v, v) /\ IsEnd(u, u)
    BY <1>1 DEF IsEnd
  <1>3. \A i \in 1..p : Recent(v, p)[i] = v[n - p + i] /\ Recent(u, p)[i] = u[m - p + i]
    BY <1>1, <1>2, EndRecent
  <1>4. ASSUME NEW i \in 1..p PROVE Recent(v, p)[i] \in Int /\ Recent(u, p)[i] = Recent(v, p)[i] + c
    <2>. PICK j \in Nat : j = p - i
      BY <1>1
    <2>1. j \in 0..(n - 1) /\ n - p + i = n - j /\ m - p + i = m - j /\ n - j \in 1..n
      BY <1>1
    <2>2. u[m - j] = v[n - j] + c /\ v[n - j] \in Int
      BY <1>0, <2>1
    <2>. QED
      BY <1>3, <2>1, <2>2
  <1>5. Last(u) = Last(v) + c /\ Last(v) \in Int
    <2>1. 0 \in 0..(n - 1) /\ n - 0 = n /\ m - 0 = m /\ n \in 1..n
      BY <1>1
    <2>2. u[m] = v[n] + c /\ v[n] \in Int
      BY <1>0, <2>1
    <2>. QED
      BY <2>2 DEF Last
  <1>6. Larger(Recent(u, p), Recent(v, p), p, c)
    BY <1>4 DEF Larger
  <1>. PICK k \in Int : k = Last(v)
    BY <1>5
  <1>. QED
    BY <1>5, <1>6, MeanShifts

LEMMA ObvAgrees ==
    ASSUME NEW w \in Seq(PriceBar), NEW s \in Seq(PriceBar), IsEnd(w, s), Period + 1 < Len(w)
    PROVE  VolumeSignals(w)["obv_confirmation"] = VolumeSignals(s)["obv_confirmation"]
  <1>. DEFINE recent(v) == [i \in 1..Period |-> Whole(Recent(v, Period)[i])]
              volume(v) == Crosses(Whole(Last(Front(v))), Whole(Last(v)), Mean(recent(Front(v))), Mean(recent(v)))
              with(signal, price, close) ==
                  IF signal = Choose(price \prec close, close \prec price) THEN signal ELSE 0
  <1>0. /\ Period \in Positive /\ Period \in Nat /\ Len(w) \in Nat /\ Period < Len(w) /\ Period <= Len(w) - 1
        /\ Len(w) > 1 /\ Len(w) > 0
    BY PeriodAssumption DEF Positive
  <1>1. PICK c \in Int : Shifted(Obv(w), Obv(s), c)
    BY <1>0, ObvShifts
  <1>2. Len(Obv(w)) = Len(w)
    BY <1>0, ObvUnfolds
  <1>. PICK v, u : v = Obv(w) /\ u = Obv(s)
    OBVIOUS
  <1>3. Shifted(Front(v), Front(u), c) /\ Len(Front(v)) = Len(w) - 1
    BY <1>0, <1>1, <1>2, ShiftedFront
  <1>4. PICK x, y, x0, y0 : x = recent(v) /\ y = recent(u) /\ x0 = recent(Front(v)) /\ y0 = recent(Front(u))
    OBVIOUS
  <1>5. /\ (Whole(Last(v)) \preceq Mean(x)) = (Whole(Last(u)) \preceq Mean(y))
        /\ (Mean(x) \preceq Whole(Last(v))) = (Mean(y) \preceq Whole(Last(u)))
        /\ (Mean(x) \prec Whole(Last(v))) = (Mean(y) \prec Whole(Last(u)))
        /\ (Whole(Last(v)) \prec Mean(x)) = (Whole(Last(u)) \prec Mean(y))
    <2>1. Wholes(x, Recent(v, Period), Period) /\ Wholes(y, Recent(u, Period), Period)
      BY <1>4 DEF Wholes
    <2>2. Shifted(v, u, c) /\ Period <= Len(v)
      BY <1>0, <1>1, <1>2
    <2>. QED
      BY <1>0, <2>1, <2>2, ShiftedMean
  <1>6. /\ (Whole(Last(Front(v))) \preceq Mean(x0)) = (Whole(Last(Front(u))) \preceq Mean(y0))
        /\ (Mean(x0) \preceq Whole(Last(Front(v)))) = (Mean(y0) \preceq Whole(Last(Front(u))))
        /\ (Mean(x0) \prec Whole(Last(Front(v)))) = (Mean(y0) \prec Whole(Last(Front(u))))
        /\ (Whole(Last(Front(v))) \prec Mean(x0)) = (Whole(Last(Front(u))) \prec Mean(y0))
    <2>1. Wholes(x0, Recent(Front(v), Period), Period) /\ Wholes(y0, Recent(Front(u), Period), Period)
      BY <1>4 DEF Wholes
    <2>2. Period <= Len(Front(v))
      BY <1>0, <1>3
    <2>. QED
      BY <1>0, <1>3, <2>1, <2>2, ShiftedMean
  <1>7. volume(v) = volume(u)
    <2>. HIDE DEF recent
    <2>. QED
      BY <1>4, <1>5, <1>6 DEF Crosses, Rises, Falls
  <1>8. /\ Sma(Closes(w), Period) = Sma(Closes(s), Period) /\ Last(Closes(w)) = Last(Closes(s))
    BY <1>0, SameRecent, SameLast DEF Sma
  <1>9. \A b : VolumeSignals(b)["obv_confirmation"] = with(volume(Obv(b)), Sma(Closes(b), Period), Last(Closes(b)))
    BY DEF VolumeSignals
  <1>. HIDE DEF volume, with
  <1>. QED
    BY <1>7, <1>8, <1>9

-----------------------------------------------------------------------------
\* A window that lost nothing is the end of the history.

(* A window that lost nothing and shows each candle as it closed is the end of the history. *)
LEMMA LiveIsEnd ==
    ASSUME FeedInv, Clean, NEW live, live = [i \in DOMAIN window |-> window[i].bar]
    PROVE  /\ IsEnd(live, bars) /\ Len(live) = Len(window)
           /\ live \in Seq(PriceBar) /\ bars \in Seq(PriceBar)
  <1>1. /\ bars \in Seq(Shapes) /\ Shapes \subseteq PriceBar
        /\ window \in Seq([at : Nat, bar : Shapes])
    BY BarAssumption DEF FeedInv, FeedTypeOK, PriceBar
  <1>2. bars \in Seq(PriceBar)
    BY <1>1, SeqMonotonic
  <1>. PICK n \in Nat, m \in Nat : n = Len(window) /\ m = Len(bars)
    BY <1>1
  <1>. DEFINE at(i) == window[i].at
  <1>3. /\ n > 0 /\ DOMAIN window = 1..n /\ DOMAIN bars = 1..m
        /\ \A i \in 1..n : at(i) \in 1..m /\ window[i].bar = bars[at(i)] /\ window[i].bar \in Shapes
        /\ \A i, j \in 1..n : i < j => at(i) < at(j)
        /\ \A k \in at(1)..m : \E i \in 1..n : at(i) = k
    <2>1. phase # "new" /\ lost = {} /\ window # <<>>
      BY DEF Clean, FeedInv, WindowIsRecent
    <2>2. DOMAIN window = 1..n /\ DOMAIN bars = 1..m /\ n > 0
      BY <1>1, <2>1
    <2>3. \A i \in 1..n : window[i].bar \in Shapes
      <3>1. \A i \in 1..n : window[i] \in [at : Nat, bar : Shapes]
        <4>. PICK S : S = [at : Nat, bar : Shapes]
          OBVIOUS
        <4>1. window \in Seq(S)
          BY <1>1
        <4>2. \A i \in 1..n : window[i] \in S
          BY <4>1, ElementOfSeq
        <4>. QED
          BY <4>2
      <3>. QED
        BY <3>1
    <2>. QED
      BY <2>1, <2>2, <2>3 DEF Clean, FeedInv, WindowIsRecent
  <1>. HIDE DEF at
  <1>4. at(1) \in 1..m /\ 1 \in 1..n /\ n \in 1..n
    BY <1>3
  <1>5. at(n) = m
    <2>1. PICK i \in 1..n : at(i) = m
      BY <1>3, <1>4
    <2>2. at(n) \in 1..m /\ (i < n => at(i) < at(n))
      BY <1>3, <1>4
    <2>. QED
      BY <2>1, <2>2
  <1>. DEFINE T == {i \in Nat : i < n => at(n - i) = m - i}
  <1>6. 0 \in T
    <2>1. n - 0 = n /\ m - 0 = m
      OBVIOUS
    <2>. QED
      BY <1>5, <2>1
  <1>7. ASSUME NEW i \in Nat, i \in T PROVE i + 1 \in T
    <2>1. CASE i + 1 < n
      <3>. PICK j \in 1..n : j = n - i
        BY <2>1
      <3>. PICK h \in 1..n : h = j - 1
        <4>1. j - 1 \in 1..n
          BY <2>1
        <4>. QED
          BY <4>1
      <3>1. at(j) = m - i
        BY <1>7, <2>1
      <3>2. at(h) < at(j) /\ at(h) \in 1..m /\ at(1) <= at(h)
        <4>1. h = 1 \/ 1 < h
          OBVIOUS
        <4>2. at(1) \in 1..m /\ at(h) \in 1..m
          BY <1>3, <1>4
        <4>3. h < j
          OBVIOUS
        <4>4. at(h) < at(j)
          BY <1>3, <4>3
        <4>5. h = 1 => at(1) <= at(h)
          BY <4>2
        <4>6. 1 < h => at(1) < at(h)
          BY <1>3, <1>4
        <4>. QED
          BY <4>1, <4>2, <4>4, <4>5, <4>6
      <3>3. m - i - 1 \in at(1)..m
        BY <1>4, <3>1, <3>2
      <3>. PICK k \in 1..n : at(k) = m - i - 1
        BY <1>3, <3>3
      <3>4. k = h
        <4>1. ASSUME h < k PROVE FALSE
          <5>1. j = k \/ j < k
            BY <4>1
          <5>2. j < k => at(j) < at(k)
            BY <1>3
          <5>. QED
            BY <3>1, <5>1, <5>2
        <4>2. ASSUME k < h PROVE FALSE
          <5>1. at(k) < at(h)
            BY <1>3, <4>2
          <5>. QED
            BY <3>1, <3>2, <5>1
        <4>. QED
          BY <4>1, <4>2
      <3>5. at(h) = m - (i + 1) /\ h = n - (i + 1)
        BY <3>4
      <3>. QED
        BY <3>5
    <2>. QED
      BY <2>1
  <1>8. \A i \in Nat : i \in T
    <2>. HIDE DEF T
    <2>. QED
      BY <1>6, <1>7, Induct
  <1>9. \A i \in 1..n : live[i] = window[i].bar /\ live[i] \in PriceBar
    BY <1>1, <1>3
  <1>10. live \in Seq(PriceBar) /\ Len(live) = n
    <2>1. live = [i \in 1..n |-> live[i]]
      BY <1>3
    <2>2. live \in [1..n -> PriceBar]
      BY <1>9, <2>1
    <2>. QED
      BY <2>2
  <1>11. ASSUME NEW i \in 0..(n - 1) PROVE live[n - i] = bars[m - i]
    <2>1. n - i \in 1..n /\ i \in Nat /\ i < n
      OBVIOUS
    <2>2. at(n - i) = m - i
      BY <1>8, <2>1
    <2>3. live[n - i] = bars[at(n - i)]
      BY <1>3, <1>9, <2>1
    <2>. QED
      BY <2>2, <2>3
  <1>12. n <= m
    <2>1. at(1) = m - (n - 1)
      <3>1. n - 1 \in Nat /\ n - 1 < n /\ n - (n - 1) = 1
        BY <1>3
      <3>2. n - 1 \in T
        BY <1>8, <3>1
      <3>. QED
        BY <3>1, <3>2
    <2>. QED
      BY <1>4, <2>1
  <1>. QED
    BY <1>2, <1>10, <1>11, <1>12 DEF IsEnd

(* Groups agree where each of them does. *)
LEMMA JoinedAgree ==
    ASSUME NEW f, NEW g, NEW f0, NEW g0, NEW Some, DOMAIN f0 = DOMAIN f, DOMAIN g0 = DOMAIN g,
           Agree(Some, f0, f), Agree(Some, g0, g)
    PROVE  Agree(Some, f0 & g0, f & g) /\ DOMAIN (f0 & g0) = DOMAIN (f & g)
  BY DEF Agree, &

(* What a strategy without a seeded average says depends on the last bars only. *)
LEMMA SignalsAgree ==
    ASSUME NEW w \in Seq(PriceBar), NEW s \in Seq(PriceBar), IsEnd(w, s), RequiredBars <= Len(w)
    PROVE  Agree(Seeded, Signals(w), Signals(s))
  <1>1. /\ Fast < Len(w) /\ Mid < Len(w) /\ Slow < Len(w) /\ Period < Len(w)
        /\ Period + 1 < Len(w) /\ Period + Smooth < Len(w) /\ Len(w) > 1
    <2>1. {Fast, Mid, Slow, Period, Smooth} \subseteq Nat /\ Period > 1 /\ RequiredBars \in Int /\ Len(w) \in Nat
      BY PeriodAssumption, FeedAssumption
    <2>2. /\ Fast < RequiredBars /\ Mid < RequiredBars /\ Slow < RequiredBars
          /\ Period + 1 < RequiredBars /\ Period + Smooth < RequiredBars
      BY BarAssumption
    <2>. QED
      BY <2>1, <2>2
  <1>2. Agree(Seeded, AverageSignals(w), AverageSignals(s)) /\ DOMAIN AverageSignals(w) = DOMAIN AverageSignals(s)
    <2>1. \A x : DOMAIN AverageSignals(x) = {"sma_crossover", "ema_crossover", "macd_signal", "macd_zero"}
      BY DEF AverageSignals
    <2>2. AverageSignals(w)["sma_crossover"] = AverageSignals(s)["sma_crossover"]
      BY <1>1, AverageAgrees
    <2>. QED
      BY <2>1, <2>2 DEF Agree, Seeded
  <1>3. Agree(Seeded, OscillatorSignals(w), OscillatorSignals(s))
        /\ DOMAIN OscillatorSignals(w) = DOMAIN OscillatorSignals(s)
    <2>1. \A x : DOMAIN OscillatorSignals(x) = {"rsi_mean_reversion", "rsi_regime", "stoch_rsi", "slow_stochastic"}
      BY DEF OscillatorSignals
    <2>2. OscillatorSignals(w)["slow_stochastic"] = OscillatorSignals(s)["slow_stochastic"]
      BY <1>1, OscillatorAgrees
    <2>. QED
      BY <2>1, <2>2 DEF Agree, Seeded
  <1>4. Agree(Seeded, BandSignals(w), BandSignals(s)) /\ DOMAIN BandSignals(w) = DOMAIN BandSignals(s)
    <2>1. DOMAIN BandSignals(w) = DOMAIN BandSignals(s)
      BY DEF BandSignals
    <2>2. \A name \in DOMAIN BandSignals(s) : BandSignals(w)[name] = BandSignals(s)[name]
      BY <1>1, BandAgrees
    <2>. QED
      BY <2>1, <2>2 DEF Agree
  <1>5. Agree(Seeded, VolumeSignals(w), VolumeSignals(s)) /\ DOMAIN VolumeSignals(w) = DOMAIN VolumeSignals(s)
    <2>1. \A x : DOMAIN VolumeSignals(x) = {"obv_confirmation", "cmf_breakout", "mfi_mean_reversion"}
      BY DEF VolumeSignals
    <2>2. VolumeSignals(w)["obv_confirmation"] = VolumeSignals(s)["obv_confirmation"]
      BY <1>1, ObvAgrees
    <2>3. \A name \in {"cmf_breakout", "mfi_mean_reversion"} : VolumeSignals(w)[name] = VolumeSignals(s)[name]
      BY <1>1, MoneyAgrees
    <2>. QED
      BY <2>1, <2>2, <2>3 DEF Agree
  <1>6. Agree(Seeded, TrendSignals(w), TrendSignals(s)) /\ DOMAIN TrendSignals(w) = DOMAIN TrendSignals(s)
    <2>1. \A x : DOMAIN TrendSignals(x)
                 = {"dmi_adx_trend", "aroon_trend", "keltner_breakout", "ichimoku_trend", "atr_breakout"}
      BY DEF TrendSignals
    <2>2. \A name \in {"aroon_trend", "ichimoku_trend"} : TrendSignals(w)[name] = TrendSignals(s)[name]
      BY <1>1, TrendAgrees
    <2>. QED
      BY <2>1, <2>2 DEF Agree, Seeded
  <1>7. Agree(Seeded, ChannelSignals(w), ChannelSignals(s)) /\ DOMAIN ChannelSignals(w) = DOMAIN ChannelSignals(s)
    <2>1. DOMAIN ChannelSignals(w) = DOMAIN ChannelSignals(s)
      BY DEF ChannelSignals
    <2>2. \A name \in DOMAIN ChannelSignals(s) : ChannelSignals(w)[name] = ChannelSignals(s)[name]
      BY <1>1, ChannelAgrees
    <2>. QED
      BY <2>1, <2>2 DEF Agree
  <1>8. Agree(Seeded, PullbackSignals(w), PullbackSignals(s)) /\ DOMAIN PullbackSignals(w) = DOMAIN PullbackSignals(s)
    <2>1. \A x : DOMAIN PullbackSignals(x) = {"ema_pullback", "triple_ma_trend", "vwap_mean_reversion"}
      BY DEF PullbackSignals
    <2>2. PullbackSignals(w)["vwap_mean_reversion"] = PullbackSignals(s)["vwap_mean_reversion"]
      BY <1>1, PullbackAgrees
    <2>. QED
      BY <2>1, <2>2 DEF Agree, Seeded
  <1>9. Agree(Seeded, BreakoutSignals(w), BreakoutSignals(s)) /\ DOMAIN BreakoutSignals(w) = DOMAIN BreakoutSignals(s)
    <2>1. \A x : DOMAIN BreakoutSignals(x) = {"volume_spike_breakout", "heikin_ashi_trend", "chandelier_trend"}
      BY DEF BreakoutSignals
    <2>2. BreakoutSignals(w)["volume_spike_breakout"] = BreakoutSignals(s)["volume_spike_breakout"]
      BY <1>1, BreakoutAgrees
    <2>. QED
      BY <2>1, <2>2 DEF Agree, Seeded
  <1>. DEFINE two(some) == AverageSignals(some) & OscillatorSignals(some)
              three(some) == two(some) & BandSignals(some)
              four(some) == three(some) & VolumeSignals(some)
              five(some) == four(some) & TrendSignals(some)
              six(some) == five(some) & ChannelSignals(some)
              seven(some) == six(some) & PullbackSignals(some)
              eight(some) == seven(some) & BreakoutSignals(some)
  <1>10. Agree(Seeded, two(w), two(s)) /\ DOMAIN two(w) = DOMAIN two(s)
    BY <1>2, <1>3, JoinedAgree
  <1>. HIDE DEF two
  <1>11. Agree(Seeded, three(w), three(s)) /\ DOMAIN three(w) = DOMAIN three(s)
    BY <1>10, <1>4, JoinedAgree
  <1>. HIDE DEF three
  <1>12. Agree(Seeded, four(w), four(s)) /\ DOMAIN four(w) = DOMAIN four(s)
    BY <1>11, <1>5, JoinedAgree
  <1>. HIDE DEF four
  <1>13. Agree(Seeded, five(w), five(s)) /\ DOMAIN five(w) = DOMAIN five(s)
    BY <1>12, <1>6, JoinedAgree
  <1>. HIDE DEF five
  <1>14. Agree(Seeded, six(w), six(s)) /\ DOMAIN six(w) = DOMAIN six(s)
    BY <1>13, <1>7, JoinedAgree
  <1>. HIDE DEF six
  <1>15. Agree(Seeded, seven(w), seven(s)) /\ DOMAIN seven(w) = DOMAIN seven(s)
    BY <1>14, <1>8, JoinedAgree
  <1>. HIDE DEF seven
  <1>16. Agree(Seeded, eight(w), eight(s))
    BY <1>15, <1>9, JoinedAgree
  <1>17. Signals(s) = eight(s) /\ Signals(w) = eight(w)
    BY DEF Signals, two, three, four, five, six, seven
  <1>. HIDE DEF eight
  <1>. QED
    BY <1>16, <1>17

(* A strategy that looks at a window of bars says live what it says in a backtest of the same
   candles, whatever the bars, the periods and the window are, as long as the window has the
   bars the strategy asks for. *)
THEOREM LiveAlwaysMatches == Spec => []LiveMatchesBacktest
  <1>1. FeedInv => LiveMatchesBacktest
    <2>. SUFFICES ASSUME FeedInv, Clean
                  PROVE  LET live == [i \in DOMAIN window |-> window[i].bar]
                         IN  Agree(Seeded, Signals(live), Signals(bars))
      BY DEF LiveMatchesBacktest
    <2>. PICK live : live = [i \in DOMAIN window |-> window[i].bar]
      OBVIOUS
    <2>1. /\ IsEnd(live, bars) /\ Len(live) = Len(window)
          /\ live \in Seq(PriceBar) /\ bars \in Seq(PriceBar)
      BY LiveIsEnd
    <2>2. RequiredBars <= Len(live)
      <3>1. Len(window) \in Nat /\ Len(window) >= RequiredBars /\ RequiredBars \in Int
        BY FeedAssumption DEF Clean, FeedInv, FeedTypeOK
      <3>. QED
        BY <2>1, <3>1
    <2>3. Agree(Seeded, Signals(live), Signals(bars))
      BY <2>1, <2>2, SignalsAgree
    <2>. QED
      BY <2>3
  <1>. QED
    BY <1>1, InitFeed, NextKeepsFeed, PTL DEF Spec

(* Multiples compare as what they are multiples of. *)
LEMMA Scaled ==
    ASSUME NEW g \in Positive, NEW u \in Int, NEW v \in Int
    PROVE  (g * u <= g * v <=> u <= v) /\ (g * u = g * v <=> u = v)
<1>1. ASSUME NEW a \in Int, NEW b \in Int, a <= b PROVE g * a <= g * b
  <2> PICK e \in Nat : e = b - a
    BY <1>1
  <2>1. b = a + e
    OBVIOUS
  <2>2. g * b = g * a + g * e /\ g * e \in Nat
    BY <2>1 DEF Positive
  <2> QED BY <2>2 DEF Positive
<1>2. ASSUME NEW a \in Int, NEW b \in Int, b < a PROVE g * b < g * a
  <2> PICK e \in Nat : e = a - b - 1
    BY <1>2
  <2>1. a = b + 1 + e
    OBVIOUS
  <2>2. g * a = g * b + g + g * e /\ g * e \in Nat
    BY <2>1 DEF Positive
  <2> QED BY <2>2 DEF Positive
<1>3. g * u \in Int /\ g * v \in Int
  BY DEF Positive
<1> QED BY <1>1, <1>2, <1>3

(* The recursive Divisor is the greatest common divisor. *)
LEMMA DivisorIsGreatest ==
    ASSUME NEW m \in Nat, NEW n \in Positive
    PROVE  Divisor[m][n] = Greatest(m, n)
<1> DEFINE Good(i, k) == Divisor[i][k] = Greatest(i, k)
           T == {l \in Nat : \A k \in 1..l, i \in Nat : Good(i, k)}
<1>1. 0 \in T
  OBVIOUS
<1>2. ASSUME NEW l \in Nat, l \in T PROVE l + 1 \in T
  <2> SUFFICES ASSUME NEW i \in Nat PROVE Good(i, l + 1)
    BY <1>2
  <2> PICK k \in Positive : k = l + 1
    <3>1. l + 1 \in Positive
      BY DEF Positive
    <3> QED BY <3>1
  <2> PICK r \in Nat : r = i % k
    BY Division
  <2>1. r < k /\ k # 0 /\ k \in Nat
    BY Division DEF Positive
  <2>2. Divisor[i][k] = Divisor[k][r]
    BY <2>1, DivisorSteps
  <2>3. Greatest(i, k) = Greatest(k, r)
    BY GreatestOfRest
  <2>4. CASE r = 0
    <3>1. Divisor[k][0] = k
      BY <2>1, DivisorSteps
    <3>2. Greatest(k, 0) = k
      BY GreatestOfOne
    <3> QED BY <2>2, <2>3, <2>4, <3>1, <3>2
  <2>5. CASE r # 0
    <3>1. r \in 1..l
      BY <2>1, <2>5
    <3>2. Good(k, r)
      BY <1>2, <2>1, <3>1
    <3> QED BY <2>2, <2>3, <3>2
  <2> QED BY <2>4, <2>5
<1>3. \A l \in Nat : l \in T
  <2> HIDE DEF T
  <2> QED BY <1>1, <1>2, Induct
<1>4. Good(m, n)
  <2>1. n \in Nat /\ n \in 1..n
    BY DEF Positive
  <2> QED BY <1>3, <2>1
<1> QED BY <1>4

(* A common factor may be dropped. *)
LEMMA Cancel == ASSUME NEW g \in Positive, NEW u \in Int, NEW v \in Int, g * u = g * v PROVE u = v
BY Scaled

\* A fraction mirrored: what is left of t when it is taken away.
Flip(t, f) == <<t * f[2] - f[1], f[2]>>

Divides(e, n) == \E k \in Int : n = e * k

(* What divides a number and its mirror image are the same numbers. *)
LEMMA DividesMirror ==
    ASSUME NEW e \in Positive, NEW n \in Int, NEW d \in Positive, NEW t \in Int
    PROVE  /\ CommonDivisor(e, Abs(n), d) <=> Divides(e, n) /\ Divides(e, d)
           /\ Divides(e, d) => (Divides(e, n) <=> Divides(e, t * d - n))
<1>1. Divides(e, n) <=> \E k \in Nat : Abs(n) = e * k
  <2>1. ASSUME NEW k \in Int, n = e * k PROVE \E l \in Nat : Abs(n) = e * l
    <3>1. -n = e * (-k)
      BY <2>1 DEF Positive
    <3>2. k < 0 => e * k <= 0
      <4>1. k < 0 => e * k <= e * 0
        BY Scaled
      <4> QED BY <4>1 DEF Positive
    <3>3. k >= 0 => e * k >= 0
      <4>1. k >= 0 => e * 0 <= e * k
        BY Scaled
      <4>2. e * 0 = 0 /\ e * k \in Int
        BY DEF Positive
      <4> QED BY <4>1, <4>2
    <3>4. CASE n < 0
      <4>1. -k \in Nat
        BY <2>1, <3>3, <3>4
      <4> QED BY <3>1, <3>4, <4>1 DEF Abs
    <3>5. CASE n >= 0
      <4>1. k < 0 => n = 0
        BY <2>1, <3>2, <3>5
      <4>2. 0 = e * 0
        BY DEF Positive
      <4>3. k \in Nat \/ n = 0
        BY <4>1
      <4> QED BY <2>1, <3>5, <4>2, <4>3 DEF Abs
    <3> QED BY <3>4, <3>5
  <2>2. ASSUME NEW k \in Nat, Abs(n) = e * k PROVE \E l \in Int : n = e * l
    <3>1. n = e * k \/ n = e * (-k)
      BY <2>2 DEF Abs, Positive
    <3>2. k \in Int /\ -k \in Int
      OBVIOUS
    <3> QED BY <3>1, <3>2
  <2> QED BY <2>1, <2>2 DEF Divides
<1>2. Divides(e, d) <=> \E k \in Nat : d = e * k
  <2>1. ASSUME NEW k \in Int, d = e * k PROVE k \in Nat
    <3>1. k < 0 => e * k <= e * 0
      BY Scaled
    <3> QED BY <2>1, <3>1 DEF Positive
  <2> QED BY <2>1 DEF Divides
<1>3. ASSUME NEW x \in Int, Divides(e, d), Divides(e, x) PROVE Divides(e, t * d - x)
  <2> PICK i \in Int, j \in Int : d = e * i /\ x = e * j
    BY <1>3 DEF Divides
  <2>1. t * d = e * (t * i) /\ t * i \in Int
    BY DEF Positive
  <2>2. t * d - x = e * (t * i - j) /\ t * i - j \in Int
    BY <2>1 DEF Positive
  <2> QED BY <2>2 DEF Divides
<1>4. t * d - n \in Int /\ t * d - (t * d - n) = n
  <2>1. t * d \in Int
    BY DEF Positive
  <2> QED BY <2>1
<1> QED BY <1>1, <1>2, <1>3, <1>4 DEF CommonDivisor

(* A fraction of a mirrored number is the fraction mirrored, to the numerator. *)
LEMMA FractionFlips ==
    ASSUME NEW n \in Int, NEW d \in Positive, NEW t \in Int
    PROVE  Fraction(t * d - n, d) = Flip(t, Fraction(n, d))
<1> PICK m \in Int : m = t * d - n
  <2>1. t * d - n \in Int
    BY DEF Positive
  <2> QED BY <2>1
<1>1. Greatest(Abs(m), d) = Greatest(Abs(n), d)
  <2>1. \A e \in Positive : CommonDivisor(e, Abs(m), d) <=> CommonDivisor(e, Abs(n), d)
    BY DividesMirror
  <2> QED BY <2>1 DEF Greatest
<1>2. Abs(m) \in Nat /\ Abs(n) \in Nat
  BY DEF Abs
<1>3. Divisor[Abs(m)][d] = Divisor[Abs(n)][d]
  BY <1>1, <1>2, DivisorIsGreatest
<1> PICK p \in Int, q \in Positive, g \in Positive :
      Fraction(n, d) = <<p, q>> /\ n = g * p /\ d = g * q /\ g = Divisor[Abs(n)][d]
  BY FractionIs
<1> PICK r \in Int, s \in Positive, h \in Positive :
      Fraction(m, d) = <<r, s>> /\ m = h * r /\ d = h * s /\ h = Divisor[Abs(m)][d]
  BY FractionIs
<1>4. h = g
  BY <1>3
<1>5. s = q
  <2>1. g * s = g * q /\ s \in Int /\ q \in Int
    BY <1>4 DEF Positive
  <2> QED BY <2>1, Cancel
<1>6. r = t * q - p
  <2>1. t * d = g * (t * q) /\ t * q \in Int
    BY DEF Positive
  <2>2. g * r = g * (t * q - p) /\ t * q - p \in Int
    BY <1>4, <2>1 DEF Positive
  <2> PICK x \in Int : x = t * q - p
    BY <2>2
  <2> QED BY <2>2, Cancel
<1> QED BY <1>5, <1>6 DEF Flip

(* A fraction is one, in lowest terms where it is nothing. *)
Proper(f) == f \in Rationals /\ (f[1] = 0 => f = <<0, 1>>)

(* A fraction in lowest terms has the sign of what it is made of, and nothing is <<0, 1>>. *)
LEMMA FractionIsProper ==
    /\ \A n \in Int, d \in Positive : Proper(Fraction(n, d)) /\ (Fraction(n, d)[1] = 0 <=> n = 0)
                                      /\ (n >= 0 => Fraction(n, d)[1] >= 0)
    /\ \A n \in Int, d \in Int : d < 0 => Fraction(n, d) = Fraction(-n, -d)
<1>1. ASSUME NEW n \in Int, NEW d \in Positive
      PROVE  Proper(Fraction(n, d)) /\ (Fraction(n, d)[1] = 0 <=> n = 0)
             /\ (n >= 0 => Fraction(n, d)[1] >= 0)
  <2> PICK p \in Int, q \in Positive, g \in Positive :
        Fraction(n, d) = <<p, q>> /\ n = g * p /\ d = g * q /\ g = Divisor[Abs(n)][d]
    BY FractionIs
  <2>1. n = 0 <=> p = 0
    <3>1. g * 0 = 0 /\ 0 \in Int
      BY DEF Positive
    <3>2. ASSUME g * p = g * 0 PROVE p = 0
      <4> PICK z \in Int : z = 0
        OBVIOUS
      <4> QED BY <3>2, Cancel
    <3> QED BY <3>1, <3>2
  <2>2. n = 0 => q = 1
    <3>1. n = 0 => Divisor[Abs(n)][d] = d
      <4>1. Abs(n) \in Nat
        BY DEF Abs
      <4>2. Divisor[Abs(n)][d] = Greatest(Abs(n), d)
        BY <4>1, DivisorIsGreatest
      <4>3. Greatest(0, d) = Greatest(d, 0)
        <5>1. \A e \in Positive : CommonDivisor(e, 0, d) <=> CommonDivisor(e, d, 0)
          BY DEF CommonDivisor
        <5> QED BY <5>1 DEF Greatest
      <4>4. Greatest(d, 0) = d
        BY GreatestOfOne
      <4> QED BY <4>2, <4>3, <4>4 DEF Abs
    <3>2. n = 0 => g = d
      BY <3>1 DEF Abs
    <3>3. n = 0 => d * q = d * 1
      BY <3>2 DEF Positive
    <3>4. ASSUME d * q = d * 1 PROVE q = 1
      <4> PICK one \in Int : one = 1
        OBVIOUS
      <4>1. q \in Int /\ d * q = d * one
        BY <3>4 DEF Positive
      <4> QED BY <4>1, Cancel
    <3> QED BY <3>3, <3>4
  <2>3. n >= 0 => p >= 0
    <3>1. g * 0 <= g * p => 0 <= p
      <4> PICK z \in Int : z = 0
        OBVIOUS
      <4> QED BY Scaled
    <3>2. g * 0 = 0
      BY DEF Positive
    <3> QED BY <3>1, <3>2
  <2> QED BY <2>1, <2>2, <2>3 DEF Proper, Rationals
<1>2. ASSUME NEW n \in Int, NEW d \in Int, d < 0 PROVE Fraction(n, d) = Fraction(-n, -d)
  <2>1. Abs(n) = Abs(-n) /\ Abs(d) = Abs(-d) /\ ~(-d < 0)
    BY <1>2 DEF Abs
  <2> QED BY <1>2, <2>1 DEF Fraction
<1> QED BY <1>1, <1>2

(* A fraction, its numerator and denominator, and those of its mirror image. *)
LEMMA FlipParts ==
    ASSUME NEW a \in Rationals, NEW t \in Int
    PROVE  /\ a[1] \in Int /\ a[2] \in Positive /\ a[2] \in Int /\ a = <<a[1], a[2]>>
           /\ Flip(t, a) \in Rationals /\ Flip(t, a)[1] = t * a[2] - a[1] /\ Flip(t, a)[2] = a[2]
BY DEF Rationals, Positive, Flip

(* Mirrored twice is as it was, and without a height a fraction is negated. *)
LEMMA FlipTwice ==
    ASSUME NEW a \in Rationals, NEW t \in Int
    PROVE  Flip(t, Flip(t, a)) = a /\ Flip(0, a) = <<-a[1], a[2]>>
<1> PICK x \in Int, d \in Positive : a = <<x, d>>
  BY DEF Rationals
<1>1. a[1] = x /\ a[2] = d /\ d \in Int
  BY DEF Positive
<1>2. t * d \in Int
  BY <1>1
<1>3. t * d - (t * d - x) = x
  BY <1>2
<1>4. 0 * d - x = -x
  BY <1>1
<1> QED BY <1>1, <1>3, <1>4 DEF Flip

(* Whole numbers are reflected as numbers are. *)
LEMMA Wholly ==
    ASSUME NEW x \in Int, NEW t \in Int
    PROVE  Proper(Whole(x)) /\ Whole(x) \in Rationals /\ Flip(t, Whole(x)) = Whole(t - x)
<1>1. t * 1 - x = t - x
  OBVIOUS
<1> QED BY <1>1 DEF Proper, Rationals, Positive, Whole, Flip

(* Denominators multiply. *)
LEMMA ProductIsPositive == ASSUME NEW d \in Positive, NEW e \in Positive PROVE d * e \in Positive
<1> PICK i \in Nat, j \in Nat : i = d - 1 /\ j = e - 1
  <2>1. d - 1 \in Nat /\ e - 1 \in Nat
    BY DEF Positive
  <2> QED BY <2>1
<1>1. d = i + 1 /\ e = j + 1
  BY DEF Positive
<1>2. d * e = i * j + i + j + 1 /\ i * j \in Nat
  BY <1>1
<1> QED BY <1>2 DEF Positive

(* A sum over the least common denominator of two fractions, which is the same from both. *)
LEMMA PlusOver ==
    ASSUME NEW d \in Positive, NEW e \in Positive
    PROVE  \E p \in Positive, q \in Positive :
               /\ e * p = d * q /\ Fraction(d, e) = <<p, q>> /\ Fraction(e, d) = <<q, p>>
<1>0. d \in Int /\ e \in Int
  BY DEF Positive
<1>1. PICK p \in Int, q \in Positive, g \in Positive :
        Fraction(d, e) = <<p, q>> /\ d = g * p /\ e = g * q /\ g = Divisor[Abs(d)][e]
  BY <1>0, FractionIs
<1>2. PICK r \in Int, s \in Positive, h \in Positive :
        Fraction(e, d) = <<r, s>> /\ e = h * r /\ d = h * s /\ h = Divisor[Abs(e)][d]
  BY <1>0, FractionIs
<1>3. h = g
  <2>1. Abs(d) = d /\ Abs(e) = e /\ d \in Nat /\ e \in Nat
    BY DEF Abs, Positive
  <2>2. Greatest(d, e) = Greatest(e, d)
    <3>1. \A c \in Positive : CommonDivisor(c, d, e) <=> CommonDivisor(c, e, d)
      BY DEF CommonDivisor
    <3> QED BY <3>1 DEF Greatest
  <2> QED BY <1>1, <1>2, <2>1, <2>2, DivisorIsGreatest
<1>4. r = q /\ s = p
  <2>1. g * r = g * q /\ g * s = g * p
    BY <1>1, <1>2, <1>3
  <2>2. q \in Int /\ s \in Int
    BY DEF Positive
  <2>3. r = q
    BY <2>1, <2>2, Cancel
  <2>4. s = p
    BY <2>1, <2>2, Cancel
  <2> QED BY <2>3, <2>4
<1>5. e * p = d * q
  <2>1. g * q * p = g * p * q
    BY DEF Positive
  <2> QED BY <1>1, <2>1
<1>6. p \in Positive
  BY <1>4
<1> QED BY <1>1, <1>2, <1>4, <1>5, <1>6

(* Sums: fractions in lowest terms, the same either way round. *)
LEMMA PlusIs ==
    ASSUME NEW a \in Rationals, NEW b \in Rationals
    PROVE  /\ Proper(a ++ b) /\ a ++ b \in Rationals /\ a ++ b = b ++ a
           /\ a[1] >= 0 /\ b[1] >= 0 => (a ++ b)[1] >= 0
<1>0. PICK x \in Int, d \in Positive, y \in Int, e \in Positive : a = <<x, d>> /\ b = <<y, e>>
  BY DEF Rationals
<1>1. PICK p \in Positive, q \in Positive :
        e * p = d * q /\ Fraction(d, e) = <<p, q>> /\ Fraction(e, d) = <<q, p>>
  BY PlusOver
<1>2. a ++ b = Fraction(x * q + y * p, d * q) /\ b ++ a = Fraction(y * p + x * q, e * p)
  BY <1>0, <1>1 DEF ++
<1>3. PICK n \in Int, m \in Positive : n = x * q + y * p /\ n = y * p + x * q /\ m = d * q
  <2>1. x * q \in Int /\ y * p \in Int
    BY DEF Positive
  <2>2. x * q + y * p \in Int /\ x * q + y * p = y * p + x * q
    BY <2>1
  <2>3. d * q \in Positive
    BY ProductIsPositive
  <2> QED BY <2>2, <2>3
<1>4. ASSUME x >= 0, y >= 0 PROVE n >= 0
  <2>1. x \in Nat /\ y \in Nat /\ q \in Nat /\ p \in Nat
    BY <1>4 DEF Positive
  <2>2. x * q \in Nat /\ y * p \in Nat
    BY <2>1
  <2> QED BY <1>3, <2>2
<1>5. a ++ b = Fraction(n, m) /\ b ++ a = Fraction(n, m)
  BY <1>1, <1>2, <1>3
<1>6. Proper(Fraction(n, m)) /\ (n >= 0 => Fraction(n, m)[1] >= 0)
  BY FractionIsProper
<1> QED BY <1>0, <1>4, <1>5, <1>6 DEF Proper

(* The arithmetic of a sum of mirror images. *)
LEMMA MirrorsAdd ==
    ASSUME NEW t \in Int, NEW u \in Int, NEW x \in Int, NEW y \in Int,
           NEW d \in Int, NEW e \in Int, NEW p \in Int, NEW q \in Int, e * p = d * q
    PROVE  (t * d - x) * q + (u * e - y) * p = (t + u) * (d * q) - (x * q + y * p)
<1>1. (t * d - x) * q = t * (d * q) - x * q
  OBVIOUS
<1>2. (u * e - y) * p = u * (d * q) - y * p
  <2>1. (u * e - y) * p = u * (e * p) - y * p
    OBVIOUS
  <2> QED BY <2>1
<1> QED BY <1>1, <1>2

(* The sum of two mirrored fractions is the sum mirrored, and so is the difference. *)
LEMMA PlusFlips ==
    ASSUME NEW a \in Rationals, NEW b \in Rationals, NEW t \in Int, NEW u \in Int
    PROVE  Flip(t, a) ++ Flip(u, b) = Flip(t + u, a ++ b)
<1>0. PICK x \in Int, d \in Positive, y \in Int, e \in Positive : a = <<x, d>> /\ b = <<y, e>>
  BY DEF Rationals
<1>1. PICK p \in Positive, q \in Positive : e * p = d * q /\ Fraction(d, e) = <<p, q>>
  BY PlusOver
<1>2. d \in Int /\ e \in Int /\ q \in Int /\ p \in Int
  BY DEF Positive
<1>3. PICK n \in Int, m \in Positive : n = x * q + y * p /\ m = d * q
  <2>1. x * q + y * p \in Int
    BY <1>2
  <2>2. d * q \in Positive
    BY ProductIsPositive
  <2> QED BY <2>1, <2>2
<1>4. Flip(t, a) = <<t * d - x, d>> /\ Flip(u, b) = <<u * e - y, e>>
  BY <1>0 DEF Flip
<1>5. a ++ b = Fraction(n, m)
  BY <1>0, <1>1, <1>3 DEF ++
<1>6. Flip(t, a) ++ Flip(u, b) = Fraction((t * d - x) * q + (u * e - y) * p, m)
  BY <1>1, <1>3, <1>4 DEF ++
<1>7. (t * d - x) * q + (u * e - y) * p = (t + u) * m - n
  BY <1>1, <1>2, <1>3, MirrorsAdd
<1>8. PICK both \in Int : both = t + u
  OBVIOUS
<1>9. Fraction(both * m - n, m) = Flip(both, Fraction(n, m))
  BY FractionFlips
<1> QED BY <1>5, <1>6, <1>7, <1>8, <1>9

(* A difference is the sum with the mirror image at 0. *)
LEMMA MinusIs ==
    ASSUME NEW a \in Rationals, NEW b \in Rationals
    PROVE  Flip(0, b) \in Rationals /\ a -- b = a ++ Flip(0, b) /\ Proper(a -- b) /\ a -- b \in Rationals
<1>1. Flip(0, b) \in Rationals /\ Flip(0, b) = <<-b[1], b[2]>>
  <2> PICK z \in Int : z = 0
    OBVIOUS
  <2> QED BY FlipParts, FlipTwice
<1>2. a -- b = a ++ Flip(0, b)
  BY <1>1 DEF --
<1> QED BY <1>1, <1>2, PlusIs

(* The difference of mirror images is the mirror image of the difference. *)
LEMMA MinusFlips ==
    ASSUME NEW a \in Rationals, NEW b \in Rationals, NEW t \in Int, NEW u \in Int
    PROVE  Flip(t, a) -- Flip(u, b) = Flip(t - u, a -- b)
<1>1. Flip(0, b) \in Rationals /\ a -- b = a ++ Flip(0, b) /\ Flip(u, b) \in Rationals /\ Flip(t, a) \in Rationals
  BY MinusIs, FlipParts
<1>2. Flip(0, Flip(u, b)) = Flip(-u, Flip(0, b))
  <2> PICK y \in Int, e \in Positive : b = <<y, e>>
    BY DEF Rationals
  <2>1. e \in Int
    BY DEF Positive
  <2>2. 0 * e - (u * e - y) = (-u) * e - (0 * e - y)
    <3>1. (-u) * e = -(u * e) /\ u * e \in Int /\ 0 * e = 0
      BY <2>1
    <3> QED BY <3>1
  <2> QED BY <2>2 DEF Flip
<1> PICK v \in Int : v = -u
  OBVIOUS
<1>3. Flip(t, a) ++ Flip(v, Flip(0, b)) = Flip(t + v, a ++ Flip(0, b))
  BY <1>1, PlusFlips
<1>4. Flip(t, a) -- Flip(u, b) = Flip(t, a) ++ Flip(0, Flip(u, b))
  BY <1>1, MinusIs
<1>5. t + v = t - u
  OBVIOUS
<1> QED BY <1>1, <1>2, <1>3, <1>4, <1>5

(* Products, crosswise in lowest terms. *)
LEMMA TimesIs ==
    ASSUME NEW a \in Rationals, NEW b \in Rationals
    PROVE  /\ a ** b \in Rationals
           /\ Proper(a) /\ Proper(b) => Proper(a ** b)
           /\ a[1] >= 0 /\ b[1] >= 0 => (a ** b)[1] >= 0
           /\ a[1] # 0 /\ b[1] # 0 => (a ** b)[1] # 0
           /\ Flip(0, a) ** b = Flip(0, a ** b)
<1>0. PICK x \in Int, d \in Positive, y \in Int, e \in Positive : a = <<x, d>> /\ b = <<y, e>>
  BY DEF Rationals
<1>1. PICK f : f = Fraction(x, e)
  OBVIOUS
<1>2. PICK g : g = Fraction(y, d)
  OBVIOUS
<1>3. /\ Proper(f) /\ (f[1] = 0 <=> x = 0) /\ (x >= 0 => f[1] >= 0)
      /\ Proper(g) /\ (g[1] = 0 <=> y = 0) /\ (y >= 0 => g[1] >= 0)
  BY <1>1, <1>2, FractionIsProper
<1>4. PICK p \in Int, q \in Positive, r \in Int, s \in Positive : f = <<p, q>> /\ g = <<r, s>>
  BY <1>3 DEF Proper, Rationals
<1>5. a ** b = <<p * r, q * s>>
  <2>1. Fraction(x, e) = <<p, q>> /\ Fraction(y, d) = <<r, s>>
    BY <1>1, <1>2, <1>4
  <2> QED BY <1>0, <2>1 DEF **
<1>6. p * r \in Int /\ q * s \in Positive
  BY ProductIsPositive
<1>7. p * r = 0 <=> p = 0 \/ r = 0
  OBVIOUS
<1>8. ASSUME Proper(a), p = 0 PROVE a ** b = <<0, 1>>
  <2>1. f = <<0, 1>> /\ x = 0
    BY <1>3, <1>4, <1>8 DEF Proper
  <2>2. d = 1
    BY <1>0, <1>8, <2>1 DEF Proper
  <2>3. g = Whole(y)
    BY <1>2, <2>2, FractionOfOne
  <2>4. q = 1 /\ s = 1
    BY <1>4, <2>1, <2>3 DEF Whole
  <2> QED BY <1>5, <1>8, <2>4
<1>9. ASSUME Proper(b), r = 0 PROVE a ** b = <<0, 1>>
  <2>1. g = <<0, 1>> /\ y = 0
    BY <1>3, <1>4, <1>9 DEF Proper
  <2>2. e = 1
    BY <1>0, <1>9, <2>1 DEF Proper
  <2>3. f = Whole(x)
    BY <1>1, <2>2, FractionOfOne
  <2>4. q = 1 /\ s = 1
    BY <1>4, <2>1, <2>3 DEF Whole
  <2> QED BY <1>5, <1>9, <2>4
<1>10. x >= 0 /\ y >= 0 => p * r >= 0
  <2>1. x >= 0 /\ y >= 0 => p \in Nat /\ r \in Nat
    BY <1>3, <1>4
  <2>2. p \in Nat /\ r \in Nat => p * r \in Nat
    OBVIOUS
  <2> QED BY <2>1, <2>2
<1>11. Flip(0, a) ** b = Flip(0, a ** b)
  <2>1. Flip(0, a) = <<-x, d>>
    BY <1>0, FlipTwice
  <2>2. Fraction(-x, e) = <<-p, q>>
    <3> PICK z \in Int : z = 0
      OBVIOUS
    <3>1. Fraction(z * e - x, e) = Flip(z, f)
      BY <1>1, FractionFlips
    <3>2. z * e - x = -x /\ z * q - p = -p
      BY DEF Positive
    <3> QED BY <1>4, <3>1, <3>2 DEF Flip
  <2>3. Flip(0, a) ** b = <<(-p) * r, q * s>>
    <3>1. Fraction(y, d) = <<r, s>>
      BY <1>2, <1>4
    <3>2. PICK u \in Int, v \in Int : u = -x /\ v = -p
      OBVIOUS
    <3>3. Flip(0, a) = <<u, d>> /\ Fraction(u, e) = <<v, q>>
      BY <2>1, <2>2, <3>2
    <3>4. Flip(0, a) ** b = <<v * r, q * s>>
      BY <1>0, <3>1, <3>3 DEF **
    <3> QED BY <3>2, <3>4
  <2>4. 0 * (q * s) - p * r = (-p) * r
    <3>1. (-p) * r = -(p * r) /\ q * s \in Int /\ p * r \in Int
      BY <1>6 DEF Positive
    <3> QED BY <3>1
  <2> QED BY <1>5, <2>3, <2>4 DEF Flip
<1>12. a ** b \in Rationals
  BY <1>5, <1>6 DEF Rationals
<1>13. Proper(a) /\ Proper(b) => Proper(a ** b)
  BY <1>5, <1>7, <1>8, <1>9, <1>12 DEF Proper
<1> QED BY <1>0, <1>3, <1>4, <1>5, <1>7, <1>10, <1>11, <1>12, <1>13

(* A whole multiple of a mirrored fraction. *)
LEMMA TimesWholeFlips ==
    ASSUME NEW a \in Rationals, NEW k \in Int, NEW t \in Int
    PROVE  Whole(k) ** Flip(t, a) = Flip(k * t, Whole(k) ** a)
<1>0. PICK x \in Int, d \in Positive : a = <<x, d>>
  BY DEF Rationals
<1>1. PICK p \in Int, q \in Positive, g \in Positive :
        Fraction(k, d) = <<p, q>> /\ k = g * p /\ d = g * q /\ g = Divisor[Abs(k)][d]
  BY FractionIs
<1>2. d \in Int /\ q \in Int
  BY DEF Positive
<1>3. PICK m \in Int : m = t * d - x
  BY <1>2
<1>4. Flip(t, a) = <<m, d>>
  BY <1>0, <1>3 DEF Flip
<1>5. Whole(k) ** Flip(t, a) = <<p * m, q * 1>> /\ Whole(k) ** a = <<p * x, q * 1>>
  <2>1. Fraction(m, 1) = <<m, 1>> /\ Fraction(x, 1) = <<x, 1>>
    BY FractionOfOne DEF Whole
  <2> QED BY <1>0, <1>1, <1>4, <2>1 DEF **, Whole
<1>6. p * m = (k * t) * (q * 1) - p * x
  <2>1. p * m = p * (t * d) - p * x
    BY <1>2, <1>3
  <2>2. p * d = k * q
    <3>1. p * (g * q) = (g * p) * q
      BY <1>2 DEF Positive
    <3> QED BY <1>1, <3>1
  <2>3. p * (t * d) = t * (p * d) /\ t * (k * q) = (k * t) * (q * 1)
    BY <1>2
  <2> QED BY <2>1, <2>2, <2>3
<1> QED BY <1>5, <1>6 DEF Flip

(* A part of a mirrored fraction. *)
LEMMA PartFlips ==
    ASSUME NEW a \in Rationals, NEW n \in Positive, NEW t \in Int
    PROVE  /\ a // Whole(n) \in Rationals
           /\ Proper(a) => Proper(a // Whole(n))
           /\ a[1] >= 0 => (a // Whole(n))[1] >= 0
           /\ Flip(n * t, a) // Whole(n) = Flip(t, a // Whole(n))
<1>0. PICK x \in Int, d \in Positive : a = <<x, d>>
  BY DEF Rationals
<1>1. PICK f : f = Fraction(x, n)
  OBVIOUS
<1>2. PICK p \in Int, q \in Positive, g \in Positive :
        f = <<p, q>> /\ x = g * p /\ n = g * q /\ g = Divisor[Abs(x)][n]
  BY <1>1, FractionIs
<1>3. d \in Int /\ q \in Int /\ n \in Int
  BY DEF Positive
<1>4. Fraction(1, n) = <<1, n>> /\ Fraction(1, d) = <<1, d>>
  BY FractionOfOne
<1>5. \A b : b // Whole(n) = b ** <<1, n>>
  BY <1>4 DEF //, Whole
<1>6. a // Whole(n) = <<p, q * d>>
  <2>1. p * 1 = p
    OBVIOUS
  <2>2. a ** <<1, n>> = <<p * 1, q * d>>
    <3>1. Fraction(x, n) = <<p, q>>
      BY <1>1, <1>2
    <3> QED BY <1>0, <1>4, <3>1 DEF **
  <2> QED BY <1>5, <2>1, <2>2
<1>7. a // Whole(n) \in Rationals
  BY <1>6, ProductIsPositive DEF Rationals
<1>8. /\ Proper(a) => Proper(a // Whole(n))
      /\ a[1] >= 0 => (a // Whole(n))[1] >= 0
  <2>1. <<1, n>> \in Rationals /\ Proper(<<1, n>>)
    BY DEF Rationals, Proper
  <2> QED BY <1>5, <2>1, TimesIs
<1>9. Flip(n * t, a) // Whole(n) = Flip(t, a // Whole(n))
  <2>1. PICK u \in Int : u = t * d
    BY <1>3
  <2>2. n * t * d = u * n
    BY <1>3, <2>1
  <2>3. Flip(n * t, a) = <<u * n - x, d>>
    BY <1>0, <2>2 DEF Flip
  <2>4. Fraction(u * n - x, n) = Flip(u, f)
    BY <1>1, FractionFlips
  <2>5. Flip(u, f) = <<u * q - p, q>>
    BY <1>2 DEF Flip
  <2>6. Flip(n * t, a) // Whole(n) = <<u * q - p, q * d>>
    <3>1. (u * q - p) * 1 = u * q - p
      BY <1>3
    <3>2. PICK v \in Int, w \in Int : v = u * n - x /\ w = u * q - p
      BY <1>3
    <3>3. Flip(n * t, a) = <<v, d>> /\ Fraction(v, n) = <<w, q>>
      BY <2>3, <2>4, <2>5, <3>2
    <3>4. Flip(n * t, a) ** <<1, n>> = <<w * 1, q * d>>
      BY <1>4, <3>3 DEF **
    <3> QED BY <1>5, <3>1, <3>2, <3>4
  <2>7. u * q - p = t * (q * d) - p
    BY <1>3, <2>1
  <2> QED BY <1>6, <2>6, <2>7 DEF Flip
<1> QED BY <1>7, <1>8, <1>9

(* Divided by what is not nothing. *)
LEMMA OverIs ==
    ASSUME NEW a \in Rationals, NEW b \in Rationals, b[1] # 0
    PROVE  a // b \in Rationals /\ Flip(0, a) // b = Flip(0, a // b)
<1>0. PICK y \in Int, e \in Positive : b = <<y, e>>
  BY DEF Rationals
<1>1. Fraction(e, y) \in Rationals
  <2>1. e \in Int /\ y # 0
    BY <1>0 DEF Positive
  <2>2. CASE y > 0
    <3>1. y \in Positive
      BY <2>2 DEF Positive
    <3> QED BY <2>1, <3>1, FractionIsProper DEF Proper
  <2>3. CASE y < 0
    <3>1. -y \in Positive /\ -e \in Int
      BY <2>1, <2>3 DEF Positive
    <3>2. Fraction(e, y) = Fraction(-e, -y)
      BY <2>1, <2>3, FractionIsProper
    <3> QED BY <3>1, <3>2, FractionIsProper DEF Proper
  <2> QED BY <2>1, <2>2, <2>3
<1>2. \A c : c // b = c ** Fraction(e, y)
  BY <1>0 DEF //
<1> QED BY <1>1, <1>2, TimesIs

-----------------------------------------------------------------------------
\* A fraction is as far from nothing on one side as another is from t on the other.
Mirrors(t, y, x) ==
    /\ x \in Rationals /\ y \in Rationals
    /\ y[1] * x[2] + x[1] * y[2] = t * (x[2] * y[2])

(* A mirror image mirrors. *)
LEMMA FlipMirrors == ASSUME NEW x \in Rationals, NEW t \in Int PROVE Mirrors(t, Flip(t, x), x)
<1> PICK p \in Int, d \in Positive : x = <<p, d>>
  BY DEF Rationals
<1>1. (t * d - p) * d + p * d = t * (d * d)
  <2>1. d \in Int
    BY DEF Positive
  <2>2. (t * d - p) * d = t * (d * d) - p * d
    BY <2>1
  <2>3. p * d \in Int /\ t * (d * d) \in Int
    BY <2>1
  <2> QED BY <2>2, <2>3
<1> QED BY <1>1, FlipParts DEF Mirrors, Flip

(* Mirrored, what was below is above. *)
LEMMA MirrorAtMost ==
    ASSUME NEW t \in Int, NEW a, NEW b, NEW c, NEW f, Mirrors(t, c, a), Mirrors(t, f, b)
    PROVE  AtMost(c, f) = AtMost(b, a)
<1>0. PICK x \in Int, d \in Positive, y \in Int, e \in Positive : a = <<x, d>> /\ b = <<y, e>>
  BY DEF Mirrors, Rationals
<1>1. PICK p \in Int, m \in Positive, q \in Int, n \in Positive : c = <<p, m>> /\ f = <<q, n>>
  BY DEF Mirrors, Rationals
<1>2. p * d + x * m = t * (d * m) /\ q * e + y * n = t * (e * n)
  BY <1>0, <1>1 DEF Mirrors
<1>3. d \in Int /\ e \in Int /\ m \in Int /\ n \in Int
  BY DEF Positive
<1>4. PICK de \in Positive, mn \in Positive : de = d * e /\ mn = m * n
  BY ProductIsPositive
<1>5. de * (p * n) = t * (de * mn) - mn * (x * e)
  <2>1. PICK pd \in Int, dm \in Int, xm \in Int : pd = p * d /\ dm = d * m /\ xm = x * m
    BY <1>3
  <2>2. pd = t * dm - xm
    BY <1>2, <2>1
  <2>3. de * (p * n) = pd * (e * n)
    BY <1>3, <1>4, <2>1
  <2>4. pd * (e * n) = t * (dm * (e * n)) - xm * (e * n)
    BY <1>3, <2>2
  <2>5. dm * (e * n) = de * mn
    BY <1>3, <1>4, <2>1
  <2>6. xm * (e * n) = mn * (x * e)
    BY <1>3, <1>4, <2>1
  <2> QED BY <2>3, <2>4, <2>5, <2>6
<1>6. de * (q * m) = t * (de * mn) - mn * (y * d)
  <2>1. PICK qe \in Int, en \in Int, yn \in Int : qe = q * e /\ en = e * n /\ yn = y * n
    BY <1>3
  <2>2. qe = t * en - yn
    BY <1>2, <2>1
  <2>3. de * (q * m) = qe * (d * m)
    BY <1>3, <1>4, <2>1
  <2>4. qe * (d * m) = t * (en * (d * m)) - yn * (d * m)
    BY <1>3, <2>2
  <2>5. en * (d * m) = de * mn
    BY <1>3, <1>4, <2>1
  <2>6. yn * (d * m) = mn * (y * d)
    BY <1>3, <1>4, <2>1
  <2> QED BY <2>3, <2>4, <2>5, <2>6
<1>7. PICK pn \in Int, qm \in Int, xe \in Int, yd \in Int : pn = p * n /\ qm = q * m /\ xe = x * e /\ yd = y * d
  BY <1>3
<1>8. PICK k \in Int : k = t * (de * mn)
  BY <1>3 DEF Positive
<1>9. mn * xe \in Int /\ mn * yd \in Int /\ de * pn = k - mn * xe /\ de * qm = k - mn * yd
  BY <1>5, <1>6, <1>7, <1>8 DEF Positive
<1>10. de * pn <= de * qm <=> mn * yd <= mn * xe
  BY <1>9
<1>11. pn <= qm <=> yd <= xe
  BY <1>10, Scaled
<1> QED BY <1>0, <1>1, <1>7, <1>11 DEF AtMost

(* A reflection turns the order around. *)
LEMMA MirrorOrder ==
    ASSUME NEW t \in Int, NEW a, NEW b, NEW c, NEW f, Mirrors(t, c, a), Mirrors(t, f, b)
    PROVE  (c \preceq f) = (b \preceq a) /\ (c \prec f) = (b \prec a)
<1>1. AtMost(c, f) = AtMost(b, a) /\ AtMost(f, c) = AtMost(a, b)
  BY MirrorAtMost
<1>2. a \in Rationals /\ b \in Rationals /\ c \in Rationals /\ f \in Rationals
  BY DEF Mirrors
<1> QED BY <1>1, <1>2, UpToIs

(* The order of fractions is one: of two one is at most the other, of three as well. *)
LEMMA OrderIs ==
    ASSUME NEW a \in Rationals, NEW b \in Rationals
    PROVE  (a \prec b) = ~(b \preceq a) /\ (a \prec b => a \preceq b) /\ ~(a \prec b /\ b \prec a)
<1>1. PICK u \in Int, v \in Int : u = a[1] * b[2] /\ v = b[1] * a[2]
  <2>1. a[1] \in Int /\ a[2] \in Int /\ b[1] \in Int /\ b[2] \in Int
    BY DEF Rationals, Positive
  <2> QED BY <2>1
<1>2. AtMost(a, b) \/ AtMost(b, a)
  BY <1>1 DEF AtMost
<1>3. /\ (a \preceq b) = AtMost(a, b) /\ (b \preceq a) = AtMost(b, a)
      /\ (a \prec b) = ~AtMost(b, a) /\ (b \prec a) = ~AtMost(a, b)
  BY UpToIs
<1> QED BY <1>2, <1>3, Zenon

(* The order is transitive. *)
LEMMA OrderIsTransitive ==
    ASSUME NEW a \in Rationals, NEW b \in Rationals, NEW c \in Rationals, a \preceq b, b \preceq c
    PROVE  a \preceq c
<1>0. PICK x \in Int, d \in Positive, y \in Int, e \in Positive, z \in Int, f \in Positive :
        a = <<x, d>> /\ b = <<y, e>> /\ c = <<z, f>>
  BY DEF Rationals
<1>1. x * e <= y * d /\ y * f <= z * e
  <2>1. AtMost(a, b) /\ AtMost(b, c)
    BY UpToIs
  <2> QED BY <1>0, <2>1 DEF AtMost
<1>2. d \in Int /\ e \in Int /\ f \in Int
  BY DEF Positive
<1>3. PICK xe \in Int, yd \in Int, yf \in Int, ze \in Int, xf \in Int, zd \in Int :
        xe = x * e /\ yd = y * d /\ yf = y * f /\ ze = z * e /\ xf = x * f /\ zd = z * d
  BY <1>2
<1>4. f * xe <= f * yd /\ d * yf <= d * ze
  <2>1. xe <= yd /\ yf <= ze
    BY <1>1, <1>3
  <2> QED BY <2>1, Scaled
<1>5. f * xe = e * xf /\ f * yd = d * yf /\ d * ze = e * zd
  BY <1>2, <1>3
<1>6. e * xf <= e * zd
  <2>1. e * xf \in Int /\ e * zd \in Int /\ d * yf \in Int
    BY <1>2
  <2> QED BY <1>4, <1>5, <2>1
<1>7. xf <= zd
  BY <1>6, Scaled
<1>8. AtMost(a, c)
  BY <1>0, <1>3, <1>7 DEF AtMost
<1> QED BY <1>8, UpToIs

(* What is not negative does not make a sum less. *)
LEMMA PlusGrows ==
    ASSUME NEW a \in Rationals, NEW b \in Rationals, b[1] >= 0
    PROVE  a \preceq a ++ b /\ a -- b \preceq a
<1>1. ASSUME NEW r \in Rationals PROVE r \preceq r ++ b
  <2>0. PICK x \in Int, d \in Positive, y \in Int, e \in Positive : r = <<x, d>> /\ b = <<y, e>>
    BY DEF Rationals
  <2>1. PICK p \in Positive, q \in Positive : e * p = d * q /\ Fraction(d, e) = <<p, q>>
    BY PlusOver
  <2>2. d \in Int /\ e \in Int /\ q \in Int /\ p \in Int
    BY DEF Positive
  <2>3. PICK n \in Int, m \in Positive : n = x * q + y * p /\ m = d * q
    <3>1. x * q + y * p \in Int
      BY <2>2
    <3>2. d * q \in Positive
      BY ProductIsPositive
    <3> QED BY <3>1, <3>2
  <2>4. r ++ b = Fraction(n, m)
    BY <2>0, <2>1, <2>3 DEF ++
  <2>5. PICK h \in Int, k \in Positive, g \in Positive :
          Fraction(n, m) = <<h, k>> /\ n = g * h /\ m = g * k /\ g = Divisor[Abs(n)][m]
    BY FractionIs
  <2>6. x * m <= n * d
    <3>1. y \in Nat
      BY <2>0
    <3>2. d \in Nat /\ p \in Nat
      BY DEF Positive
    <3>3. y * p \in Nat
      BY <3>1, <3>2
    <3>4. y * p * d \in Nat
      BY <3>2, <3>3
    <3>5. n * d = x * q * d + y * p * d
      BY <2>2, <2>3
    <3>6. x * m = x * q * d /\ x * m \in Int
      BY <2>2, <2>3
    <3> QED BY <3>4, <3>5, <3>6
  <2>7. PICK xk \in Int, hd \in Int : xk = x * k /\ hd = h * d
    BY <2>2 DEF Positive
  <2>8. x * m = g * xk /\ n * d = g * hd
    BY <2>2, <2>5, <2>7 DEF Positive
  <2>9. xk <= hd
    <3>1. g * xk <= g * hd
      BY <2>6, <2>8
    <3> QED BY <3>1, Scaled
  <2>10. AtMost(r, r ++ b)
    BY <2>0, <2>4, <2>5, <2>7, <2>9 DEF AtMost
  <2> QED BY <2>10, PlusIs, UpToIs
<1>2. a -- b \preceq a
  <2>1. PICK z \in Int : z = 0
    OBVIOUS
  <2>2. PICK r \in Rationals : r = Flip(z, a)
    BY FlipParts
  <2>3. Flip(z, r) = a /\ a -- b = a ++ Flip(z, b) /\ r ++ b \in Rationals
    BY <2>1, <2>2, FlipTwice, MinusIs, PlusIs
  <2>4. Flip(z, r ++ b) = Flip(z, r) ++ Flip(z, b)
    <3>1. Flip(z, r) ++ Flip(z, b) = Flip(z + z, r ++ b)
      BY PlusFlips
    <3> QED BY <2>1, <3>1
  <2>5. Mirrors(z, Flip(z, r), r) /\ Mirrors(z, Flip(z, r ++ b), r ++ b)
    BY <2>3, FlipMirrors
  <2>6. Flip(z, r ++ b) \preceq Flip(z, r)
    <3>1. r \preceq r ++ b
      BY <1>1
    <3>2. (Flip(z, r ++ b) \preceq Flip(z, r)) = (r \preceq r ++ b)
      BY <2>5, MirrorOrder
    <3> QED BY <3>1, <3>2
  <2> QED BY <2>3, <2>4, <2>6
<1> QED BY <1>1, <1>2

(* The distance between two fractions: the same either way round, and mirrored. *)
LEMMA DistanceIs ==
    ASSUME NEW a \in Rationals, NEW b \in Rationals
    PROVE  /\ Proper(Distance(a, b)) /\ Distance(a, b) = Distance(b, a)
           /\ \A t \in Int : Distance(Flip(t, a), Flip(t, b)) = Distance(a, b)
<1>1. PICK z \in Int : z = 0
  OBVIOUS
<1>2. a -- b = Flip(z, b -- a) /\ Proper(a -- b) /\ Proper(b -- a)
  <2>1. a -- b = a ++ Flip(z, b) /\ b -- a = b ++ Flip(z, a) /\ Flip(z, a) \in Rationals /\ Flip(z, b) \in Rationals
    BY <1>1, MinusIs
  <2>2. Flip(z, b ++ Flip(z, a)) = Flip(z, b) ++ Flip(z, Flip(z, a))
    <3>1. Flip(z, b) ++ Flip(z, Flip(z, a)) = Flip(z + z, b ++ Flip(z, a))
      BY <2>1, PlusFlips
    <3> QED BY <1>1, <3>1
  <2>3. Flip(z, Flip(z, a)) = a
    BY FlipTwice
  <2>4. Flip(z, b) ++ a = a ++ Flip(z, b)
    BY <2>1, PlusIs
  <2>5. Proper(a -- b) /\ Proper(b -- a)
    BY MinusIs
  <2> QED BY <2>1, <2>2, <2>3, <2>4, <2>5
<1>3. ~(a \prec b) /\ ~(b \prec a) => a -- b = b -- a
  <2>1. SUFFICES ASSUME ~(a \prec b), ~(b \prec a) PROVE a -- b = b -- a
    OBVIOUS
  <2>2. AtMost(a, b) /\ AtMost(b, a)
    BY <2>1, UpToIs
  <2>3. PICK x \in Int, d \in Positive, y \in Int, e \in Positive : a = <<x, d>> /\ b = <<y, e>>
    BY DEF Rationals
  <2>4. x * e = y * d
    <3>1. x * e <= y * d /\ y * d <= x * e
      BY <2>2, <2>3 DEF AtMost
    <3>2. x * e \in Int /\ y * d \in Int
      BY DEF Positive
    <3> QED BY <3>1, <3>2
  <2>5. PICK p \in Positive, q \in Positive : e * p = d * q /\ Fraction(d, e) = <<p, q>>
    BY PlusOver
  <2>6. d \in Int /\ e \in Int /\ q \in Int /\ p \in Int
    BY DEF Positive
  <2>7. x * q - y * p = 0
    <3>1. d * (x * q) = d * (y * p)
      <4>1. d * (x * q) = x * (d * q) /\ x * (e * p) = (x * e) * p /\ (y * d) * p = d * (y * p)
        BY <2>6
      <4> QED BY <2>4, <2>5, <4>1
    <3>2. x * q \in Int /\ y * p \in Int
      BY <2>6
    <3>3. x * q = y * p
      BY <3>1, <3>2, Cancel
    <3> QED BY <3>2, <3>3
  <2>8. PICK m \in Positive : m = d * q
    BY ProductIsPositive
  <2>9. a -- b = Fraction(x * q + (-y) * p, m)
    BY <2>3, <2>5, <2>8 DEF --, ++
  <2>10. x * q + (-y) * p = 0
    <3>1. (-y) * p = -(y * p) /\ x * q \in Int /\ y * p \in Int
      BY <2>6
    <3> QED BY <2>7, <3>1
  <2>11. PICK k \in Int : k = 0
    OBVIOUS
  <2>12. Proper(Fraction(k, m)) /\ Fraction(k, m)[1] = 0
    BY <2>11, FractionIsProper
  <2>13. a -- b = <<0, 1>>
    BY <2>9, <2>10, <2>11, <2>12 DEF Proper
  <2>14. b -- a = <<0, 1>>
    <3>1. b -- a \in Rationals
      BY <1>2 DEF Proper
    <3>2. PICK h \in Int, l \in Int : b -- a = <<h, l>>
      BY <3>1 DEF Rationals, Positive
    <3>3. a -- b = <<-h, l>>
      BY <1>1, <1>2, <3>1, <3>2, FlipTwice
    <3>4. h = 0 /\ l = 1
      BY <2>13, <3>3
    <3> QED BY <3>2, <3>4
  <2> QED BY <2>13, <2>14
<1>4. Distance(a, b) = Distance(b, a)
  <2>1. ~(a \prec b /\ b \prec a)
    BY OrderIs
  <2> QED BY <1>3, <2>1 DEF Distance
<1>5. Proper(Distance(a, b))
  BY <1>2 DEF Distance
<1>6. ASSUME NEW t \in Int PROVE Distance(Flip(t, a), Flip(t, b)) = Distance(a, b)
  <2>1. PICK c \in Rationals, f \in Rationals : c = Flip(t, a) /\ f = Flip(t, b)
    BY FlipParts
  <2>2. (c \prec f) = (b \prec a)
    BY <2>1, FlipMirrors, MirrorOrder
  <2>3. c -- f = Flip(z, a -- b) /\ f -- c = Flip(z, b -- a)
    <3>1. Flip(t, a) -- Flip(t, b) = Flip(t - t, a -- b) /\ Flip(t, b) -- Flip(t, a) = Flip(t - t, b -- a)
      BY MinusFlips
    <3>2. t - t = z
      BY <1>1
    <3> QED BY <2>1, <3>1, <3>2
  <2>4. Flip(z, a -- b) = b -- a
    <3>1. b -- a \in Rationals
      BY <1>2 DEF Proper
    <3> QED BY <1>2, <3>1, FlipTwice
  <2>5. c -- f = b -- a /\ f -- c = a -- b
    BY <1>2, <2>3, <2>4
  <2>6. Distance(c, f) = Distance(b, a)
    BY <2>2, <2>5 DEF Distance
  <2> QED BY <1>4, <2>1, <2>6
<1> QED BY <1>4, <1>5, <1>6

-----------------------------------------------------------------------------
\* Lists of fractions, and their mirror images.
Flipped(t, x, y, n) ==
    /\ x \in Seq(Rationals) /\ Len(x) = n /\ y \in Seq(Rationals) /\ Len(y) = n
    /\ \A i \in 1..n : y[i] = Flip(t, x[i])

NotNegative(x) == \A i \in 1..Len(x) : x[i][1] >= 0

(* What a list of so many fractions has, mirrored. *)
LEMMA FlippedPart ==
    ASSUME NEW t \in Int, NEW x, NEW y, NEW n \in Nat, Flipped(t, x, y, n), NEW k \in Positive, k <= n
    PROVE  Flipped(t, Recent(x, k), Recent(y, k), k)
  <1>1. x \in Seq(Rationals) /\ Len(x) = n /\ y \in Seq(Rationals) /\ Len(y) = n
        /\ \A i \in 1..n : y[i] = Flip(t, x[i])
    BY DEF Flipped
  <1>2. ASSUME NEW z \in Seq(Rationals), Len(z) = n
        PROVE  Recent(z, k) \in Seq(Rationals) /\ Len(Recent(z, k)) = k
               /\ \A i \in 1..k : Recent(z, k)[i] = z[n - k + i]
    <2>1. PICK a \in Int : a = n - k + 1
      BY DEF Positive
    <2>2. \A i \in a..n : z[i] \in Rationals
      <3>1. \A i \in a..n : i \in 1..n
        BY <2>1 DEF Positive
      <3>. QED
        BY <1>2, <3>1
    <2>3. a <= n /\ n - a + 1 = k
      BY <2>1 DEF Positive
    <2>4. /\ SubSeq(z, a, n) \in Seq(Rationals) /\ Len(SubSeq(z, a, n)) = n - a + 1
          /\ \A i \in 1..(n - a + 1) : SubSeq(z, a, n)[i] = z[a + i - 1]
      BY <2>2, <2>3, SubSeqProperties
    <2>5. Recent(z, k) = SubSeq(z, a, n)
      BY <1>2, <2>1 DEF Recent
    <2>6. \A i \in 1..k : a + i - 1 = n - k + i
      BY <2>1 DEF Positive
    <2>. QED
      BY <2>3, <2>4, <2>5, <2>6
  <1>3. \A i \in 1..k : n - k + i \in 1..n
    BY DEF Positive
  <1>4. /\ Recent(x, k) \in Seq(Rationals) /\ Len(Recent(x, k)) = k
        /\ \A i \in 1..k : Recent(x, k)[i] = x[n - k + i]
    BY <1>1, <1>2
  <1>5. /\ Recent(y, k) \in Seq(Rationals) /\ Len(Recent(y, k)) = k
        /\ \A i \in 1..k : Recent(y, k)[i] = y[n - k + i]
    BY <1>1, <1>2
  <1>. QED
    BY <1>1, <1>3, <1>4, <1>5 DEF Flipped

(* All but the last of two mirrored lists, and the last. *)
LEMMA FlippedEnds ==
    ASSUME NEW t \in Int, NEW x, NEW y, NEW n \in Positive, Flipped(t, x, y, n)
    PROVE  /\ Flipped(t, Front(x), Front(y), n - 1)
           /\ Last(x) \in Rationals /\ Last(y) = Flip(t, Last(x))
  <1>1. x \in Seq(Rationals) /\ Len(x) = n /\ y \in Seq(Rationals) /\ Len(y) = n
        /\ \A i \in 1..n : y[i] = Flip(t, x[i])
    BY DEF Flipped
  <1>2. n \in 1..n /\ n > 0 /\ n - 1 \in Nat /\ \A i \in 1..(n - 1) : i \in 1..n
    BY DEF Positive
  <1>3. /\ Front(x) \in Seq(Rationals) /\ Len(Front(x)) = n - 1 /\ \A i \in 1..(n - 1) : Front(x)[i] = x[i]
        /\ Front(y) \in Seq(Rationals) /\ Len(Front(y)) = n - 1 /\ \A i \in 1..(n - 1) : Front(y)[i] = y[i]
    BY <1>1, <1>2, FrontProperties
  <1>4. Flipped(t, Front(x), Front(y), n - 1)
    BY <1>1, <1>2, <1>3 DEF Flipped
  <1>5. Last(x) = x[n] /\ Last(y) = y[n] /\ x[n] \in Rationals
    BY <1>1, <1>2 DEF Last
  <1>. QED
    BY <1>1, <1>2, <1>4, <1>5

(* A total of fractions is one, and mirrored as often as it has terms. *)
LEMMA TotalFlips ==
    ASSUME NEW t \in Int, NEW x, NEW y, NEW n \in Nat, Flipped(t, x, y, n)
    PROVE  /\ Proper(Total(x)) /\ Total(y) = Flip(n * t, Total(x))
           /\ NotNegative(x) => Total(x)[1] >= 0
  <1>1. x \in Seq(Rationals) /\ Len(x) = n /\ y \in Seq(Rationals) /\ Len(y) = n
        /\ \A i \in 1..n : x[i] \in Rationals /\ y[i] = Flip(t, x[i])
    BY DEF Flipped
  <1>2. PICK f : /\ Total(x) = Last(f[n]) /\ f[0] = <<Whole(0)>>
                 /\ \A i \in 0..n : IsList(f[i], i + 1)
                 /\ \A i \in 1..n : f[i] = Append(f[i - 1], Last(f[i - 1]) ++ x[i])
    BY <1>1, TotalUnfolds
  <1>3. PICK g : /\ Total(y) = Last(g[n]) /\ g[0] = <<Whole(0)>>
                 /\ \A i \in 0..n : IsList(g[i], i + 1)
                 /\ \A i \in 1..n : g[i] = Append(g[i - 1], Last(g[i - 1]) ++ y[i])
    BY <1>1, TotalUnfolds
  <1>. DEFINE Sums(i) == /\ Proper(Last(f[i])) /\ Last(g[i]) = Flip(i * t, Last(f[i]))
                         /\ NotNegative(x) => Last(f[i])[1] >= 0
              T == {i \in Nat : i <= n => Sums(i)}
  <1>4. 0 \in T
    <2>1. Last(<<Whole(0)>>) = Whole(0)
      BY DEF Last
    <2>2. PICK z \in Int : z = 0 * t /\ z = 0
      OBVIOUS
    <2>3. Proper(Whole(z)) /\ Flip(z, Whole(z)) = Whole(z - z)
      BY Wholly
    <2>4. z - z = z
      BY <2>2
    <2>5. Last(f[0]) = Whole(z) /\ Last(g[0]) = Whole(z)
      BY <1>2, <1>3, <2>1, <2>2
    <2>6. Whole(z)[1] >= 0
      BY <2>2 DEF Whole
    <2>7. Sums(0)
      BY <2>2, <2>3, <2>4, <2>5, <2>6
    <2>. HIDE DEF Sums
    <2>. QED
      BY <2>7
  <1>5. ASSUME NEW i \in Nat, i \in T PROVE i + 1 \in T
    <2>1. CASE i + 1 <= n
      <3>. PICK j \in Nat : j = i + 1
        OBVIOUS
      <3>1. j \in 1..n /\ j - 1 = i /\ i \in 0..n /\ i <= n
        BY <2>1
      <3>2. Sums(i)
        BY <1>5, <3>1
      <3>3. IsList(f[i], j) /\ IsList(g[i], j)
        BY <1>2, <1>3, <3>1
      <3>4. Last(f[j]) = Last(f[i]) ++ x[j] /\ Last(g[j]) = Last(g[i]) ++ y[j]
        <4>1. f[j] = Append(f[i], Last(f[i]) ++ x[j]) /\ g[j] = Append(g[i], Last(g[i]) ++ y[j])
          BY <1>2, <1>3, <3>1
        <4>. QED
          BY <3>3, <4>1, LastAppended
      <3>5. PICK a \in Rationals, b \in Rationals : a = Last(f[i]) /\ b = x[j]
        BY <1>1, <3>1, <3>2 DEF Proper
      <3>6. PICK u \in Int : u = i * t
        OBVIOUS
      <3>7. Flip(u, a) ++ Flip(t, b) = Flip(u + t, a ++ b)
        BY PlusFlips
      <3>8. u + t = j * t
        BY <3>6
      <3>9. Last(f[j]) = a ++ b /\ Last(g[j]) = Flip(u, a) ++ Flip(t, b)
        BY <1>1, <3>1, <3>2, <3>4, <3>5, <3>6
      <3>10. Proper(a ++ b) /\ (a[1] >= 0 /\ b[1] >= 0 => (a ++ b)[1] >= 0)
        BY PlusIs
      <3>11. NotNegative(x) => a[1] >= 0 /\ b[1] >= 0
        BY <1>1, <3>1, <3>2, <3>5 DEF NotNegative
      <3>12. Sums(j)
        BY <3>7, <3>8, <3>9, <3>10, <3>11
      <3>. HIDE DEF Sums
      <3>. QED
        BY <3>12
    <2>. QED
      BY <2>1
  <1>6. n \in T
    <2>. HIDE DEF T
    <2>. QED
      BY <1>4, <1>5, Induct
  <1>. QED
    BY <1>2, <1>3, <1>6

(* So is a mean, to the same height. *)
LEMMA MeanFlips ==
    ASSUME NEW t \in Int, NEW x, NEW y, NEW n \in Positive, Flipped(t, x, y, n)
    PROVE  /\ Proper(Mean(x)) /\ Mean(x) \in Rationals /\ Mean(y) = Flip(t, Mean(x))
           /\ NotNegative(x) => Mean(x)[1] >= 0
  <1>1. n \in Nat /\ Len(x) = n /\ Len(y) = n
    BY DEF Flipped, Positive
  <1>2. PICK a \in Rationals : a = Total(x) /\ Proper(a) /\ Total(y) = Flip(n * t, a)
                               /\ (NotNegative(x) => a[1] >= 0)
    BY <1>1, TotalFlips DEF Proper
  <1>3. /\ Proper(a // Whole(n)) /\ Flip(n * t, a) // Whole(n) = Flip(t, a // Whole(n))
        /\ a[1] >= 0 => (a // Whole(n))[1] >= 0
    BY <1>2, PartFlips
  <1>4. Mean(x) = a // Whole(n) /\ Mean(y) = Flip(n * t, a) // Whole(n)
    BY <1>1, <1>2 DEF Mean
  <1>. QED
    BY <1>2, <1>3, <1>4 DEF Proper

(* The moving average of mirrored values is the average mirrored. *)
LEMMA SmaFlips ==
    ASSUME NEW t \in Int, NEW x, NEW y, NEW n \in Nat, Flipped(t, x, y, n), NEW p \in Positive, p <= n
    PROVE  Sma(x, p) \in Rationals /\ Sma(y, p) = Flip(t, Sma(x, p))
  BY FlippedPart, MeanFlips DEF Sma

(* A list of fractions is its own image, whatever that is mirrored at. *)
LEMMA FlippedSelf ==
    ASSUME NEW n \in Nat, NEW x \in Seq(Rationals), Len(x) = n, NEW t \in Int
    PROVE  \E y : Flipped(t, x, y, n)
  <1>. DEFINE y == [i \in 1..n |-> Flip(t, x[i])]
  <1>1. \A i \in 1..n : y[i] \in Rationals
    BY FlipParts
  <1>2. y \in [1..n -> Rationals]
    BY <1>1
  <1>3. y \in Seq(Rationals) /\ Len(y) = n
    <2>. HIDE DEF y
    <2>. QED
      BY <1>2
  <1>4. \A i \in 1..n : y[i] = Flip(t, x[i])
    OBVIOUS
  <1>. HIDE DEF y
  <1>5. Flipped(t, x, y, n)
    BY <1>3, <1>4 DEF Flipped
  <1>. QED
    BY <1>5

-----------------------------------------------------------------------------
\* Runs of a step over so many values, the step as a function on a set.
Stepwise(f, S, a, h, n) ==
    /\ f[0] = <<a>>
    /\ \A i \in 1..n : Last(f[i - 1]) \in S => f[i] = Append(f[i - 1], h[<<Last(f[i - 1]), i>>])

Results(g, S, a, h, n) ==
    /\ \A i \in 0..n : g[i] \in Seq(S) /\ Len(g[i]) = i + 1
    /\ g[n][1] = a /\ \A i \in 1..n : g[n][i + 1] = h[<<g[n][i], i>>]

(* A run stays in the set, and its last list has every result after the one it was made of. *)
LEMMA RunUnfolds ==
    ASSUME NEW S, NEW a \in S, NEW n \in Nat, NEW h \in [S \X (1..n) -> S], NEW g, Stepwise(g, S, a, h, n)
    PROVE  Results(g, S, a, h, n)
  <1>. DEFINE Steps(i) == /\ g[i] \in Seq(S) /\ Len(g[i]) = i + 1 /\ g[i][1] = a
                          /\ \A j \in 1..i : g[i][j + 1] = h[<<g[i][j], j>>]
              T == {i \in Nat : i <= n => Steps(i)}
  <1>1. 0 \in T
    <2>1. g[0] = <<a>>
      BY DEF Stepwise
    <2>2. <<a>> \in Seq(S) /\ Len(<<a>>) = 0 + 1 /\ <<a>>[1] = a
      OBVIOUS
    <2>3. Steps(0)
      BY <2>1, <2>2
    <2>. HIDE DEF Steps
    <2>. QED
      BY <2>3
  <1>2. ASSUME NEW i \in Nat, i \in T PROVE i + 1 \in T
    <2>1. CASE i + 1 <= n
      <3>. PICK k \in Nat : k = i + 1
        OBVIOUS
      <3>1. k \in 1..n /\ k - 1 = i /\ i <= n
        BY <2>1
      <3>2. Steps(i)
        BY <1>2, <3>1
      <3>3. Last(g[i]) = g[i][k] /\ g[i][k] \in S
        BY <3>1, <3>2 DEF Last
      <3>4. PICK step \in S : step = h[<<g[i][k], k>>]
        BY <3>1, <3>3
      <3>5. g[k] = Append(g[i], step)
        <4>1. Last(g[k - 1]) \in S => g[k] = Append(g[k - 1], h[<<Last(g[k - 1]), k>>])
          BY <3>1 DEF Stepwise
        <4>. QED
          BY <3>1, <3>3, <3>4, <4>1
      <3>6. /\ g[k] \in Seq(S) /\ Len(g[k]) = k + 1 /\ g[k][k + 1] = step
            /\ \A j \in 1..k : g[k][j] = g[i][j]
        BY <3>2, <3>5, <3>4, AppendProperties
      <3>7. ASSUME NEW j \in 1..k PROVE g[k][j + 1] = h[<<g[k][j], j>>]
        <4>1. CASE j = k
          BY <3>4, <3>6, <4>1
        <4>2. CASE j # k
          <5>1. j \in 1..i /\ j + 1 \in 1..k
            BY <3>1, <4>2
          <5>. QED
            BY <3>2, <3>6, <5>1
        <4>. QED
          BY <4>1, <4>2
      <3>8. g[k][1] = a
        <4>1. 1 \in 1..k
          BY <3>1
        <4>. QED
          BY <3>2, <3>6, <4>1
      <3>9. Steps(k)
        BY <3>6, <3>7, <3>8
      <3>. HIDE DEF Steps
      <3>. QED
        BY <3>9
    <2>. QED
      BY <2>1
  <1>3. \A i \in Nat : i \in T
    <2>. HIDE DEF T
    <2>. QED
      BY <1>1, <1>2, Induct
  <1>4. \A i \in 0..n : Steps(i)
    BY <1>3
  <1>5. Steps(n)
    BY <1>4
  <1>. QED
    BY <1>4, <1>5 DEF Results

(* There is one. *)
LEMMA RunExists ==
    ASSUME NEW S, NEW a \in S, NEW n \in Nat, NEW h \in [S \X (1..n) -> S]
    PROVE  \E f : f = [i \in 0..n |-> f[i]] /\ Stepwise(f, S, a, h, n)
  <1>. DEFINE next(done, i) == Append(done, h[<<Last(done), i>>])
              Run(f, k) == f = [i \in 0..k |-> IF i = 0 THEN <<a>> ELSE next(f[i - 1], i)]
              T == {k \in Nat : \E f : Run(f, k)}
  <1>. HIDE DEF next
  <1>1. 0 \in T
    <2>1. Run([i \in 0..0 |-> <<a>>], 0)
      OBVIOUS
    <2>. QED
      BY <2>1
  <1>2. ASSUME NEW k \in Nat, k \in T PROVE k + 1 \in T
    <2>1. PICK g : Run(g, k)
      BY <1>2
    <2>. DEFINE l == [i \in 0..(k + 1) |-> IF i = k + 1 THEN next(g[k], k + 1) ELSE g[i]]
    <2>2. \A i \in 0..(k + 1) : l[i] = IF i = 0 THEN <<a>> ELSE next(l[i - 1], i)
      <3>. SUFFICES ASSUME NEW i \in 0..(k + 1) PROVE l[i] = IF i = 0 THEN <<a>> ELSE next(l[i - 1], i)
        OBVIOUS
      <3>1. CASE i = k + 1
        <4>1. i - 1 = k /\ k \in 0..(k + 1) /\ k # k + 1 /\ i # 0
          BY <3>1
        <4>2. l[k] = g[k] /\ l[i] = next(g[k], i)
          BY <3>1, <4>1
        <4>. HIDE DEF l
        <4>. QED
          BY <4>1, <4>2
      <3>2. CASE i # k + 1
        <4>1. i \in 0..k
          BY <3>2
        <4>2. g[i] = IF i = 0 THEN <<a>> ELSE next(g[i - 1], i)
          BY <2>1, <4>1
        <4>3. l[i] = g[i]
          BY <3>2
        <4>4. CASE i = 0
          BY <4>2, <4>3, <4>4
        <4>5. CASE i # 0
          <5>1. i - 1 \in 0..(k + 1) /\ i - 1 # k + 1
            BY <4>1, <4>5
          <5>2. l[i - 1] = g[i - 1]
            BY <5>1
          <5>. HIDE DEF l, Run
          <5>. QED
            BY <4>2, <4>3, <4>5, <5>2
        <4>. QED
          BY <4>4, <4>5
      <3>. QED
        BY <3>1, <3>2
    <2>3. Run(l, k + 1)
      <3>1. l = [i \in 0..(k + 1) |-> l[i]]
        OBVIOUS
      <3>. HIDE DEF l
      <3>. QED
        BY <2>2, <3>1
    <2>. HIDE DEF Run, l
    <2>. QED
      BY <2>3
  <1>3. n \in T
    <2>. HIDE DEF T
    <2>. QED
      BY <1>1, <1>2, Induct
  <1>4. PICK f : Run(f, n)
    BY <1>3
  <1>5. f = [i \in 0..n |-> f[i]] /\ f[0] = <<a>> /\ \A i \in 1..n : f[i] = next(f[i - 1], i)
    <2>1. \A i \in 0..n : f[i] = IF i = 0 THEN <<a>> ELSE next(f[i - 1], i)
      BY <1>4
    <2>2. f = [i \in 0..n |-> f[i]]
      BY <1>4
    <2>3. f[0] = <<a>> /\ \A i \in 1..n : f[i] = next(f[i - 1], i)
      <3>. HIDE DEF Run
      <3>. QED
        BY <2>1
    <2>. HIDE DEF Run
    <2>. QED
      BY <2>2, <2>3
  <1>6. Stepwise(f, S, a, h, n)
    BY <1>5 DEF Stepwise, next
  <1>. QED
    BY <1>5, <1>6

(* Of a list that is not empty, all but the first. *)
LEMMA TailProperties ==
    ASSUME NEW S, NEW n \in Nat, NEW s \in Seq(S), Len(s) = n + 1
    PROVE  /\ Tail(s) \in Seq(S) /\ Len(Tail(s)) = n /\ s[1] \in S
           /\ \A i \in 1..n : Tail(s)[i] = s[i + 1] /\ s[i + 1] \in S
  <1>1. s # <<>>
    OBVIOUS
  <1>2. Tail(s) \in Seq(S) /\ Len(Tail(s)) = Len(s) - 1 /\ \A i \in 1..Len(Tail(s)) : Tail(s)[i] = s[i + 1]
    BY <1>1, HeadTailProperties
  <1>3. Len(s) - 1 = n /\ 1 \in 1..Len(s) /\ \A i \in 1..n : i + 1 \in 1..Len(s)
    OBVIOUS
  <1>. QED
    BY <1>2, <1>3

\* What EmaSeries scans.
EmaStep(p, value, x) == (x -- value) ** <<2, p + 1>> ++ value
EmaRun(f, v, p) ==
    f = [i \in 0..Len(Tail(v)) |->
            IF i = 0 THEN <<v[1]>>
            ELSE LET done == f[i - 1] IN Append(done, EmaStep(p, Last(done), Tail(v)[i]))]

(* EmaSeries is the last value of a recursive function, spelled out. *)
LEMMA EmaIsRun == ASSUME NEW v, NEW p PROVE EmaSeries(v, p) = (CHOOSE f : EmaRun(f, v, p))[Len(Tail(v))]
  BY DEF EmaSeries, Scan, EmaRun, EmaStep

(* A step between fractions is a fraction, and mirrored between mirrored ones. *)
LEMMA EmaStepFlips ==
    ASSUME NEW p \in Positive, NEW a \in Rationals, NEW x \in Rationals
    PROVE  /\ EmaStep(p, a, x) \in Rationals
           /\ \A t \in Int : EmaStep(p, Flip(t, a), Flip(t, x)) = Flip(t, EmaStep(p, a, x))
  <1>1. PICK w \in Rationals : w = <<2, p + 1>>
    <2>1. <<2, p + 1>> \in Rationals
      BY DEF Rationals, Positive
    <2>. QED
      BY <2>1
  <1>2. PICK d \in Rationals : d = x -- a
    BY MinusIs
  <1>3. PICK e \in Rationals : e = d ** w
    BY TimesIs
  <1>4. PICK z \in Int : z = 0
    OBVIOUS
  <1>5. EmaStep(p, a, x) = e ++ a /\ e ++ a \in Rationals
    BY <1>1, <1>2, <1>3, PlusIs DEF EmaStep
  <1>6. ASSUME NEW t \in Int PROVE EmaStep(p, Flip(t, a), Flip(t, x)) = Flip(t, EmaStep(p, a, x))
    <2>1. Flip(t, x) -- Flip(t, a) = Flip(t - t, d)
      BY <1>2, MinusFlips
    <2>2. t - t = z /\ z + t = t
      BY <1>4
    <2>3. Flip(z, d) ** w = Flip(z, e)
      BY <1>3, <1>4, TimesIs
    <2>4. Flip(z, e) ++ Flip(t, a) = Flip(z + t, e ++ a)
      BY PlusFlips
    <2>. QED
      BY <1>1, <1>5, <2>1, <2>2, <2>3, <2>4 DEF EmaStep
  <1>. QED
    BY <1>5, <1>6

(* EmaSeries starts with the first value and goes on step by step. *)
LEMMA EmaUnfolds ==
    ASSUME NEW n \in Nat, NEW v \in Seq(Rationals), Len(v) = n + 1, NEW p \in Positive
    PROVE  /\ EmaSeries(v, p) \in Seq(Rationals) /\ Len(EmaSeries(v, p)) = n + 1
           /\ EmaSeries(v, p)[1] = v[1]
           /\ \A i \in 1..n : EmaSeries(v, p)[i + 1] = EmaStep(p, EmaSeries(v, p)[i], v[i + 1])
  <1>1. Len(Tail(v)) = n /\ v[1] \in Rationals /\ \A i \in 1..n : Tail(v)[i] = v[i + 1] /\ v[i + 1] \in Rationals
    BY TailProperties
  <1>. DEFINE h == [c \in Rationals \X (1..n) |-> EmaStep(p, c[1], v[c[2] + 1])]
              g == CHOOSE f : EmaRun(f, v, p)
  <1>2. h \in [Rationals \X (1..n) -> Rationals]
    <2>1. \A c \in Rationals \X (1..n) : EmaStep(p, c[1], v[c[2] + 1]) \in Rationals
      BY <1>1, EmaStepFlips
    <2>. QED
      BY <2>1
  <1>3. \A a \in Rationals, i \in 1..n : h[<<a, i>>] = EmaStep(p, a, Tail(v)[i]) /\ h[<<a, i>>] = EmaStep(p, a, v[i + 1])
    BY <1>1
  <1>. HIDE DEF h
  <1>. PICK a \in Rationals : a = v[1]
    BY <1>1
  <1>4. PICK f : f = [i \in 0..n |-> f[i]] /\ Stepwise(f, Rationals, a, h, n)
    BY <1>1, <1>2, RunExists
  <1>a. Stepwise(f, Rationals, a, h, n)
    BY <1>4
  <1>5. EmaRun(f, v, p)
    <2>. DEFINE next(done, i) == Append(done, EmaStep(p, Last(done), Tail(v)[i]))
    <2>a. Results(f, Rationals, a, h, n)
      BY <1>2, <1>a, RunUnfolds
    <2>1. \A i \in 0..n : f[i] \in Seq(Rationals) /\ Len(f[i]) = i + 1
      BY <2>a DEF Results
    <2>2. f[0] = <<v[1]>>
      BY <1>a DEF Stepwise
    <2>3. ASSUME NEW i \in 1..n PROVE f[i] = next(f[i - 1], i)
      <3>1. i - 1 \in 0..n /\ i - 1 + 1 = i /\ i \in 1..i
        OBVIOUS
      <3>2. Last(f[i - 1]) \in Rationals
        BY <2>1, <3>1 DEF Last
      <3>. QED
        BY <1>3, <1>a, <3>2 DEF Stepwise
    <2>4. \A i \in 0..n : f[i] = IF i = 0 THEN <<v[1]>> ELSE next(f[i - 1], i)
      <3>. HIDE DEF next
      <3>. QED
        BY <2>2, <2>3
    <2>5. f = [i \in 0..n |-> IF i = 0 THEN <<v[1]>> ELSE next(f[i - 1], i)]
      <3>. HIDE DEF next
      <3>. QED
        BY <1>4, <2>4
    <2>. QED
      BY <1>1, <2>5 DEF EmaRun
  <1>6. EmaRun(g, v, p)
    BY <1>5
  <1>7. EmaSeries(v, p) = g[n]
    BY <1>1, EmaIsRun
  <1>. HIDE DEF g
  <1>8. Stepwise(g, Rationals, a, h, n)
    <2>. DEFINE next(done, i) == Append(done, EmaStep(p, Last(done), Tail(v)[i]))
    <2>1. g = [i \in 0..n |-> IF i = 0 THEN <<v[1]>> ELSE next(g[i - 1], i)]
      BY <1>1, <1>6 DEF EmaRun
    <2>2. g[0] = <<v[1]>> /\ \A i \in 1..n : g[i] = next(g[i - 1], i)
      <3>. HIDE DEF next
      <3>1. \A i \in 0..n : g[i] = IF i = 0 THEN <<v[1]>> ELSE next(g[i - 1], i)
        BY <2>1
      <3>. QED
        BY <3>1
    <2>. QED
      BY <1>3, <2>2 DEF Stepwise
  <1>b. Results(g, Rationals, a, h, n)
    BY <1>2, <1>8, RunUnfolds
  <1>9. /\ \A i \in 0..n : g[i] \in Seq(Rationals) /\ Len(g[i]) = i + 1
        /\ g[n][1] = v[1] /\ \A i \in 1..n : g[n][i + 1] = h[<<g[n][i], i>>]
    BY <1>b DEF Results
  <1>10. g[n] \in Seq(Rationals) /\ Len(g[n]) = n + 1
    <2>1. n \in 0..n
      OBVIOUS
    <2>. QED
      BY <1>9, <2>1
  <1>11. ASSUME NEW i \in 1..n PROVE g[n][i + 1] = EmaStep(p, g[n][i], v[i + 1])
    <2>1. i \in 1..Len(g[n])
      BY <1>10
    <2>2. g[n][i] \in Rationals
      BY <1>10, <2>1
    <2>. QED
      BY <1>3, <1>9, <2>2
  <1>. QED
    BY <1>7, <1>9, <1>10, <1>11

(* Averages of mirrored values are the averages mirrored. *)
LEMMA EmaFlips ==
    ASSUME NEW t \in Int, NEW x, NEW y, NEW n \in Positive, Flipped(t, x, y, n), NEW p \in Positive
    PROVE  Flipped(t, EmaSeries(x, p), EmaSeries(y, p), n) /\ Ema(y, p) = Flip(t, Ema(x, p)) /\ Ema(x, p) \in Rationals
  <1>1. x \in Seq(Rationals) /\ Len(x) = n /\ y \in Seq(Rationals) /\ Len(y) = n
        /\ \A i \in 1..n : y[i] = Flip(t, x[i]) /\ x[i] \in Rationals
    BY DEF Flipped
  <1>2. PICK m \in Nat : m = n - 1 /\ n = m + 1
    <2>1. n - 1 \in Nat /\ n = (n - 1) + 1
      BY DEF Positive
    <2>. QED
      BY <2>1
  <1>3. PICK a : /\ a = EmaSeries(x, p) /\ a \in Seq(Rationals) /\ Len(a) = n /\ a[1] = x[1]
                 /\ \A i \in 1..m : a[i + 1] = EmaStep(p, a[i], x[i + 1])
    BY <1>1, <1>2, EmaUnfolds
  <1>4. PICK b : /\ b = EmaSeries(y, p) /\ b \in Seq(Rationals) /\ Len(b) = n /\ b[1] = y[1]
                 /\ \A i \in 1..m : b[i + 1] = EmaStep(p, b[i], y[i + 1])
    BY <1>1, <1>2, EmaUnfolds
  <1>. DEFINE T == {i \in Nat : i <= m => b[i + 1] = Flip(t, a[i + 1])}
  <1>5. 0 \in T
    <2>1. 0 + 1 = 1 /\ 1 \in 1..n
      BY <1>2
    <2>2. b[1] = Flip(t, a[1])
      BY <1>1, <1>3, <1>4, <2>1
    <2>. QED
      BY <2>1, <2>2
  <1>6. ASSUME NEW i \in Nat, i \in T PROVE i + 1 \in T
    <2>1. CASE i + 1 <= m
      <3>1. PICK j \in Nat : j = i + 1
        OBVIOUS
      <3>2. j \in 1..m /\ j \in 1..n /\ j + 1 \in 1..n
        BY <1>2, <2>1, <3>1
      <3>3. b[j] = Flip(t, a[j]) /\ a[j] \in Rationals
        BY <1>3, <1>6, <2>1, <3>1, <3>2
      <3>4. b[j + 1] = EmaStep(p, b[j], y[j + 1]) /\ a[j + 1] = EmaStep(p, a[j], x[j + 1])
        BY <1>3, <1>4, <3>2
      <3>5. x[j + 1] \in Rationals /\ y[j + 1] = Flip(t, x[j + 1])
        BY <1>1, <3>2
      <3>6. b[j + 1] = Flip(t, a[j + 1])
        BY <3>3, <3>4, <3>5, EmaStepFlips
      <3>. QED
        BY <3>1, <3>6
    <2>. QED
      BY <2>1
  <1>7. \A i \in Nat : i \in T
    <2>. HIDE DEF T
    <2>. QED
      BY <1>5, <1>6, Induct
  <1>8. \A i \in 1..n : b[i] = Flip(t, a[i])
    <2>. SUFFICES ASSUME NEW i \in 1..n PROVE b[i] = Flip(t, a[i])
      OBVIOUS
    <2>1. i - 1 \in Nat /\ i - 1 <= m /\ (i - 1) + 1 = i
      BY <1>2
    <2>2. b[(i - 1) + 1] = Flip(t, a[(i - 1) + 1])
      BY <1>7, <2>1
    <2>. QED
      BY <2>1, <2>2
  <1>9. Flipped(t, a, b, n)
    BY <1>3, <1>4, <1>8 DEF Flipped
  <1>10. n \in 1..n
    BY DEF Positive
  <1>11. Ema(x, p) = a[n] /\ Ema(y, p) = b[n]
    BY <1>1, <1>3, <1>4 DEF Ema
  <1>. QED
    BY <1>3, <1>4, <1>8, <1>9, <1>10, <1>11

-----------------------------------------------------------------------------
\* Fractions that can be divided by unless they are nothing, and those that are not negative.
Propers == {f \in Rationals : Proper(f)}
NonNegatives == {f \in Rationals : f[1] >= 0}

\* What Wilder scans, and the smoothed sums of Dmi.
WilderStep(p, average, x) == (average ** Whole(p - 1) ++ x) // Whole(p)
WilderRun(f, a, r, p) ==
    f = [i \in 0..Len(r) |->
            IF i = 0 THEN <<a>> ELSE LET done == f[i - 1] IN Append(done, WilderStep(p, Last(done), r[i]))]
Averaged(a, r, p) == (CHOOSE f : WilderRun(f, a, r, p))[Len(r)]
SmoothStep(p, value, x) == value -- (value // Whole(p)) ++ x
SmoothRun(f, a, r, p) ==
    f = [i \in 0..Len(r) |->
            IF i = 0 THEN <<a>> ELSE LET done == f[i - 1] IN Append(done, SmoothStep(p, Last(done), r[i]))]
Smoothed(a, r, p) == (CHOOSE f : SmoothRun(f, a, r, p))[Len(r)]

(* Wilder is the last value of a recursive function, spelled out. *)
LEMMA WilderIsRun ==
    ASSUME NEW s, NEW p
    PROVE  Wilder(s, p) = Averaged(Mean(SubSeq(s, 1, p)), SubSeq(s, p + 1, Len(s)), p)
  BY DEF Wilder, Scan, Averaged, WilderRun, WilderStep

(* The averages of what is not negative are not negative. *)
LEMMA WilderStepIs ==
    ASSUME NEW p \in Positive, NEW a \in NonNegatives, NEW x \in NonNegatives
    PROVE  WilderStep(p, a, x) \in NonNegatives
  <1>1. PICK k \in Nat : k = p - 1
    <2>1. p - 1 \in Nat
      BY DEF Positive
    <2>. QED
      BY <2>1
  <1>2. PICK w \in Rationals : w = Whole(k) /\ w[1] >= 0
    <2>1. Whole(k) \in Rationals
      BY Wholly
    <2>2. Whole(k)[1] = k
      BY DEF Whole
    <2>. QED
      BY <2>1, <2>2
  <1>3. PICK b \in NonNegatives : b = a ** w
    <2>1. a ** w \in Rationals /\ (a ** w)[1] >= 0
      BY <1>2, TimesIs DEF NonNegatives
    <2>. QED
      BY <2>1 DEF NonNegatives
  <1>4. PICK c \in NonNegatives : c = b ++ x
    <2>1. b ++ x \in Rationals /\ (b ++ x)[1] >= 0
      BY PlusIs DEF NonNegatives
    <2>. QED
      BY <2>1 DEF NonNegatives
  <1>5. c // Whole(p) \in NonNegatives
    <2>1. PICK z \in Int : z = 0
      OBVIOUS
    <2>. QED
      BY <2>1, PartFlips DEF NonNegatives
  <1>. QED
    BY <1>1, <1>2, <1>3, <1>4, <1>5 DEF WilderStep

(* The smoothed sums of proper fractions are proper. *)
LEMMA SmoothStepIs ==
    ASSUME NEW p \in Positive, NEW a \in Propers, NEW x \in Propers
    PROVE  SmoothStep(p, a, x) \in Propers
  <1>1. PICK b \in Rationals : b = a // Whole(p)
    <2>1. PICK z \in Int : z = 0
      OBVIOUS
    <2>. QED
      BY <2>1, PartFlips DEF Propers
  <1>2. PICK c \in Rationals : c = a -- b
    BY MinusIs DEF Propers
  <1>3. Proper(c ++ x) /\ c ++ x \in Rationals
    BY PlusIs DEF Propers
  <1>. QED
    BY <1>1, <1>2, <1>3 DEF Propers, SmoothStep

(* Averages of values that are not negative are not either. *)
LEMMA WilderRuns ==
    ASSUME NEW a \in NonNegatives, NEW n \in Nat, NEW r \in Seq(NonNegatives), Len(r) = n, NEW p \in Positive
    PROVE  Averaged(a, r, p) \in Seq(NonNegatives) /\ Len(Averaged(a, r, p)) = n + 1
  <1>. DEFINE h == [c \in NonNegatives \X (1..n) |-> WilderStep(p, c[1], r[c[2]])]
              g == CHOOSE f : WilderRun(f, a, r, p)
  <1>1. \A i \in 1..n : r[i] \in NonNegatives
    OBVIOUS
  <1>2. h \in [NonNegatives \X (1..n) -> NonNegatives]
    <2>1. \A c \in NonNegatives \X (1..n) : WilderStep(p, c[1], r[c[2]]) \in NonNegatives
      BY <1>1, WilderStepIs
    <2>. QED
      BY <2>1
  <1>3. \A l \in NonNegatives, i \in 1..n : h[<<l, i>>] = WilderStep(p, l, r[i])
    OBVIOUS
  <1>. HIDE DEF h
  <1>4. PICK f : f = [i \in 0..n |-> f[i]] /\ Stepwise(f, NonNegatives, a, h, n)
    BY <1>2, RunExists
  <1>a. Stepwise(f, NonNegatives, a, h, n)
    BY <1>4
  <1>5. WilderRun(f, a, r, p)
    <2>. DEFINE next(done, i) == Append(done, WilderStep(p, Last(done), r[i]))
    <2>a. Results(f, NonNegatives, a, h, n)
      BY <1>2, <1>a, RunUnfolds
    <2>1. \A i \in 0..n : f[i] \in Seq(NonNegatives) /\ Len(f[i]) = i + 1
      BY <2>a DEF Results
    <2>2. f[0] = <<a>>
      BY <1>a DEF Stepwise
    <2>3. ASSUME NEW i \in 1..n PROVE f[i] = next(f[i - 1], i)
      <3>1. i - 1 \in 0..n /\ i - 1 + 1 = i /\ i \in 1..i
        OBVIOUS
      <3>2. Last(f[i - 1]) \in NonNegatives
        BY <2>1, <3>1 DEF Last
      <3>. QED
        BY <1>3, <1>a, <3>2 DEF Stepwise
    <2>4. \A i \in 0..n : f[i] = IF i = 0 THEN <<a>> ELSE next(f[i - 1], i)
      <3>. HIDE DEF next
      <3>. QED
        BY <2>2, <2>3
    <2>5. f = [i \in 0..n |-> IF i = 0 THEN <<a>> ELSE next(f[i - 1], i)]
      <3>. HIDE DEF next
      <3>. QED
        BY <1>4, <2>4
    <2>. QED
      BY <2>5 DEF WilderRun
  <1>6. WilderRun(g, a, r, p)
    BY <1>5
  <1>7. Averaged(a, r, p) = g[n]
    BY DEF Averaged
  <1>. HIDE DEF g
  <1>8. Stepwise(g, NonNegatives, a, h, n)
    <2>. DEFINE next(done, i) == Append(done, WilderStep(p, Last(done), r[i]))
    <2>1. g = [i \in 0..n |-> IF i = 0 THEN <<a>> ELSE next(g[i - 1], i)]
      BY <1>6 DEF WilderRun
    <2>2. g[0] = <<a>> /\ \A i \in 1..n : g[i] = next(g[i - 1], i)
      <3>. HIDE DEF next
      <3>1. \A i \in 0..n : g[i] = IF i = 0 THEN <<a>> ELSE next(g[i - 1], i)
        BY <2>1
      <3>. QED
        BY <3>1
    <2>. QED
      BY <1>3, <2>2 DEF Stepwise
  <1>b. Results(g, NonNegatives, a, h, n)
    BY <1>2, <1>8, RunUnfolds
  <1>c. n \in 0..n
    OBVIOUS
  <1>9. g[n] \in Seq(NonNegatives) /\ Len(g[n]) = n + 1
    BY <1>b, <1>c DEF Results
  <1>. QED
    BY <1>7, <1>9

(* Smoothed sums can be divided by unless they are nothing. *)
LEMMA SmoothRuns ==
    ASSUME NEW a \in Propers, NEW n \in Nat, NEW r \in Seq(Propers), Len(r) = n, NEW p \in Positive
    PROVE  Smoothed(a, r, p) \in Seq(Propers) /\ Len(Smoothed(a, r, p)) = n + 1
  <1>. DEFINE h == [c \in Propers \X (1..n) |-> SmoothStep(p, c[1], r[c[2]])]
              g == CHOOSE f : SmoothRun(f, a, r, p)
  <1>1. \A i \in 1..n : r[i] \in Propers
    OBVIOUS
  <1>2. h \in [Propers \X (1..n) -> Propers]
    <2>1. \A c \in Propers \X (1..n) : SmoothStep(p, c[1], r[c[2]]) \in Propers
      BY <1>1, SmoothStepIs
    <2>. QED
      BY <2>1
  <1>3. \A l \in Propers, i \in 1..n : h[<<l, i>>] = SmoothStep(p, l, r[i])
    OBVIOUS
  <1>. HIDE DEF h
  <1>4. PICK f : f = [i \in 0..n |-> f[i]] /\ Stepwise(f, Propers, a, h, n)
    BY <1>2, RunExists
  <1>a. Stepwise(f, Propers, a, h, n)
    BY <1>4
  <1>5. SmoothRun(f, a, r, p)
    <2>. DEFINE next(done, i) == Append(done, SmoothStep(p, Last(done), r[i]))
    <2>a. Results(f, Propers, a, h, n)
      BY <1>2, <1>a, RunUnfolds
    <2>1. \A i \in 0..n : f[i] \in Seq(Propers) /\ Len(f[i]) = i + 1
      BY <2>a DEF Results
    <2>2. f[0] = <<a>>
      BY <1>a DEF Stepwise
    <2>3. ASSUME NEW i \in 1..n PROVE f[i] = next(f[i - 1], i)
      <3>1. i - 1 \in 0..n /\ i - 1 + 1 = i /\ i \in 1..i
        OBVIOUS
      <3>2. Last(f[i - 1]) \in Propers
        BY <2>1, <3>1 DEF Last
      <3>. QED
        BY <1>3, <1>a, <3>2 DEF Stepwise
    <2>4. \A i \in 0..n : f[i] = IF i = 0 THEN <<a>> ELSE next(f[i - 1], i)
      <3>. HIDE DEF next
      <3>. QED
        BY <2>2, <2>3
    <2>5. f = [i \in 0..n |-> IF i = 0 THEN <<a>> ELSE next(f[i - 1], i)]
      <3>. HIDE DEF next
      <3>. QED
        BY <1>4, <2>4
    <2>. QED
      BY <2>5 DEF SmoothRun
  <1>6. SmoothRun(g, a, r, p)
    BY <1>5
  <1>7. Smoothed(a, r, p) = g[n]
    BY DEF Smoothed
  <1>. HIDE DEF g
  <1>8. Stepwise(g, Propers, a, h, n)
    <2>. DEFINE next(done, i) == Append(done, SmoothStep(p, Last(done), r[i]))
    <2>1. g = [i \in 0..n |-> IF i = 0 THEN <<a>> ELSE next(g[i - 1], i)]
      BY <1>6 DEF SmoothRun
    <2>2. g[0] = <<a>> /\ \A i \in 1..n : g[i] = next(g[i - 1], i)
      <3>. HIDE DEF next
      <3>1. \A i \in 0..n : g[i] = IF i = 0 THEN <<a>> ELSE next(g[i - 1], i)
        BY <2>1
      <3>. QED
        BY <3>1
    <2>. QED
      BY <1>3, <2>2 DEF Stepwise
  <1>b. Results(g, Propers, a, h, n)
    BY <1>2, <1>8, RunUnfolds
  <1>c. n \in 0..n
    OBVIOUS
  <1>9. g[n] \in Seq(Propers) /\ Len(g[n]) = n + 1
    BY <1>b, <1>c DEF Results
  <1>. QED
    BY <1>7, <1>9

(* The last average of values that are not negative. *)
LEMMA WilderIs ==
    ASSUME NEW n \in Nat, NEW s \in Seq(NonNegatives), Len(s) = n, NEW p \in Positive, p <= n
    PROVE  Last(Wilder(s, p)) \in NonNegatives
  <1>1. PICK x \in Seq(Rationals) : x = SubSeq(s, 1, p) /\ Len(x) = p /\ NotNegative(x)
    <2>1. PICK o \in Int : o = 1
      OBVIOUS
    <2>2. o <= p /\ p - o + 1 = p /\ \A i \in o..p : i \in 1..n
      BY <2>1 DEF Positive
    <2>3. \A i \in o..p : s[i] \in NonNegatives
      BY <2>2
    <2>4. SubSeq(s, o, p) \in Seq(NonNegatives) /\ Len(SubSeq(s, o, p)) = p
      BY <2>2, <2>3, SubSeqProperties DEF Positive
    <2>5. PICK x \in Seq(NonNegatives) : x = SubSeq(s, 1, p) /\ Len(x) = p
      BY <2>1, <2>4
    <2>6. x \in Seq(Rationals)
      BY <2>5 DEF NonNegatives
    <2>7. \A i \in 1..p : x[i] \in NonNegatives
      BY <2>5
    <2>8. NotNegative(x)
      BY <2>5, <2>7 DEF NotNegative, NonNegatives
    <2>. QED
      BY <2>5, <2>6, <2>8
  <1>2. PICK a \in NonNegatives : a = Mean(x)
    <2>1. PICK z \in Int : z = 0
      OBVIOUS
    <2>2. PICK y : Flipped(z, x, y, p)
      BY <1>1, FlippedSelf DEF Positive
    <2>3. Mean(x) \in Rationals /\ Mean(x)[1] >= 0
      BY <1>1, <2>2, MeanFlips
    <2>. QED
      BY <2>3 DEF NonNegatives
  <1>3. PICK m \in Nat, r \in Seq(NonNegatives) : r = SubSeq(s, p + 1, n) /\ Len(r) = m
    <2>1. PICK o \in Int : o = p + 1
      BY DEF Positive
    <2>2. \A i \in o..n : i \in 1..n
      BY <2>1 DEF Positive
    <2>3. \A i \in o..n : s[i] \in NonNegatives
      BY <2>2
    <2>4. SubSeq(s, o, n) \in Seq(NonNegatives)
      BY <2>3, SubSeqProperties
    <2>5. Len(SubSeq(s, o, n)) \in Nat
      BY <2>4
    <2>. QED
      BY <2>1, <2>4, <2>5
  <1>4. PICK w \in Seq(NonNegatives) : w = Averaged(a, r, p) /\ Len(w) = m + 1
    <2>1. Len(r) = m
      BY <1>3
    <2>2. Averaged(a, r, p) \in Seq(NonNegatives) /\ Len(Averaged(a, r, p)) = m + 1
      BY <2>1, WilderRuns
    <2>. QED
      BY <2>2
  <1>5. Wilder(s, p) = w
    BY <1>1, <1>2, <1>3, <1>4, WilderIsRun
  <1>6. m + 1 \in 1..Len(w)
    BY <1>4
  <1>7. w[m + 1] \in NonNegatives
    BY <1>6
  <1>. QED
    BY <1>4, <1>5, <1>7 DEF Last

-----------------------------------------------------------------------------
\* Bars, and the same bars in the market turned upside down.
GoodBar == {bar \in PriceBar : bar.low <= bar.high}
TurnedBars(s, t, n) ==
    /\ s \in Seq(GoodBar) /\ Len(s) = n /\ t \in Seq(GoodBar) /\ Len(t) = n
    /\ \A i \in 1..n : t[i] = Turned(s[i])

(* A bar and its reflection: high and low change places. *)
LEMMA TurnedBar ==
    ASSUME NEW b \in GoodBar
    PROVE  /\ b.open \in Int /\ b.high \in Int /\ b.low \in Int /\ b.close \in Int /\ b.volume \in Int
           /\ b.low <= b.high /\ Turned(b) \in GoodBar /\ Top \in Int
           /\ Turned(b).open = Top - b.open /\ Turned(b).high = Top - b.low /\ Turned(b).low = Top - b.high
           /\ Turned(b).close = Top - b.close /\ Turned(b).volume = b.volume
  <1>1. b.open \in Int /\ b.high \in Int /\ b.low \in Int /\ b.close \in Int /\ b.volume \in Int /\ b.low <= b.high
    BY DEF GoodBar, PriceBar
  <1>2. Top \in Int
    BY BarAssumption
  <1>3. /\ Turned(b).open = Top - b.open /\ Turned(b).high = Top - b.low /\ Turned(b).low = Top - b.high
        /\ Turned(b).close = Top - b.close /\ Turned(b).volume = b.volume
    BY DEF Turned
  <1>4. Turned(b) \in PriceBar
    BY <1>1, <1>2 DEF PriceBar, Turned
  <1>5. Turned(b).low <= Turned(b).high
    BY <1>1, <1>2, <1>3
  <1>. QED
    BY <1>1, <1>2, <1>3, <1>4, <1>5 DEF GoodBar

(* Parts of them are, too. *)
LEMMA TurnedPart ==
    ASSUME NEW s, NEW t, NEW n \in Nat, TurnedBars(s, t, n),
           NEW a \in Positive, NEW b \in Positive, a <= b, b <= n, NEW k \in Nat, k = b - a + 1
    PROVE  /\ TurnedBars(SubSeq(s, a, b), SubSeq(t, a, b), k)
           /\ \A i \in 1..k : SubSeq(s, a, b)[i] = s[a + i - 1]
  <1>1. s \in Seq(GoodBar) /\ Len(s) = n /\ t \in Seq(GoodBar) /\ Len(t) = n /\ \A i \in 1..n : t[i] = Turned(s[i])
    BY DEF TurnedBars
  <1>2. \A i \in a..b : i \in 1..n
    BY DEF Positive
  <1>3. a \in Int /\ b \in Int /\ (\A i \in a..b : s[i] \in GoodBar /\ t[i] \in GoodBar)
    BY <1>1, <1>2 DEF Positive
  <1>4. /\ SubSeq(s, a, b) \in Seq(GoodBar) /\ Len(SubSeq(s, a, b)) = k
        /\ \A i \in 1..k : SubSeq(s, a, b)[i] = s[a + i - 1]
    BY <1>1, <1>3, SubSeqProperties DEF Positive
  <1>5. /\ SubSeq(t, a, b) \in Seq(GoodBar) /\ Len(SubSeq(t, a, b)) = k
        /\ \A i \in 1..k : SubSeq(t, a, b)[i] = t[a + i - 1]
    BY <1>1, <1>3, SubSeqProperties DEF Positive
  <1>6. \A i \in 1..k : a + i - 1 \in 1..n
    BY DEF Positive
  <1>. QED
    BY <1>1, <1>4, <1>5, <1>6 DEF TurnedBars

(* The last bars of reflected bars are the last bars reflected. *)
LEMMA TurnedRecent ==
    ASSUME NEW s, NEW t, NEW n \in Nat, TurnedBars(s, t, n), NEW k \in Positive, k <= n
    PROVE  /\ TurnedBars(Recent(s, k), Recent(t, k), k)
           /\ \A i \in 1..k : Recent(s, k)[i] = s[n - k + i]
  <1>1. PICK a \in Positive : a = n - k + 1
    <2>1. n - k + 1 \in Positive
      BY DEF Positive
    <2>. QED
      BY <2>1
  <1>2. a <= n /\ k = n - a + 1 /\ n \in Positive /\ k \in Nat
    BY <1>1 DEF Positive
  <1>3. TurnedBars(SubSeq(s, a, n), SubSeq(t, a, n), k) /\ \A i \in 1..k : SubSeq(s, a, n)[i] = s[a + i - 1]
    BY <1>2, TurnedPart
  <1>4. Recent(s, k) = SubSeq(s, a, n) /\ Recent(t, k) = SubSeq(t, a, n)
    BY <1>1 DEF Recent, TurnedBars
  <1>5. \A i \in 1..k : a + i - 1 = n - k + i
    BY <1>1 DEF Positive
  <1>. QED
    BY <1>3, <1>4, <1>5

(* So are all but the last. *)
LEMMA TurnedFront ==
    ASSUME NEW s, NEW t, NEW n \in Nat, TurnedBars(s, t, n + 1)
    PROVE  /\ TurnedBars(Front(s), Front(t), n) /\ \A i \in 1..n : Front(s)[i] = s[i]
           /\ Closes(Front(s)) = Front(Closes(s)) /\ Closes(Front(t)) = Front(Closes(t))
  <1>1. /\ s \in Seq(GoodBar) /\ Len(s) = n + 1 /\ t \in Seq(GoodBar) /\ Len(t) = n + 1
        /\ \A i \in 1..(n + 1) : t[i] = Turned(s[i])
    BY DEF TurnedBars
  <1>2. Len(s) > 0 /\ Len(t) > 0 /\ Len(s) - 1 = n /\ Len(t) - 1 = n /\ \A i \in 1..n : i \in 1..(n + 1)
    BY <1>1
  <1>3. /\ Front(s) \in Seq(GoodBar) /\ Len(Front(s)) = n /\ \A i \in 1..n : Front(s)[i] = s[i]
        /\ Front(t) \in Seq(GoodBar) /\ Len(Front(t)) = n /\ \A i \in 1..n : Front(t)[i] = t[i]
    BY <1>1, <1>2, FrontProperties
  <1>. QED
    BY <1>1, <1>2, <1>3, ClosesFront DEF TurnedBars

(* One of them is a bar, and it is turned; so is the last. *)
LEMMA TurnedOne ==
    ASSUME NEW s, NEW t, NEW n \in Positive, TurnedBars(s, t, n)
    PROVE  /\ \A i \in 1..n : s[i] \in GoodBar /\ t[i] = Turned(s[i]) /\ t[i] \in GoodBar
           /\ s[n] \in GoodBar /\ t[n] = Turned(s[n]) /\ Last(s) = s[n] /\ Last(t) = t[n]
           /\ DOMAIN s = 1..n /\ DOMAIN t = 1..n /\ Len(s) = n /\ Len(t) = n
  <1>1. s \in Seq(GoodBar) /\ Len(s) = n /\ t \in Seq(GoodBar) /\ Len(t) = n /\ \A i \in 1..n : t[i] = Turned(s[i])
    BY DEF TurnedBars
  <1>2. n \in 1..n
    BY DEF Positive
  <1>. QED
    BY <1>1, <1>2 DEF Last

(* The closes of reflected bars are the closes reflected. *)
LEMMA TurnedCloses ==
    ASSUME NEW s, NEW t, NEW n \in Nat, TurnedBars(s, t, n)
    PROVE  Flipped(Top, Closes(s), Closes(t), n)
  <1>1. s \in Seq(GoodBar) /\ Len(s) = n /\ t \in Seq(GoodBar) /\ Len(t) = n /\ \A i \in 1..n : t[i] = Turned(s[i])
    BY DEF TurnedBars
  <1>2. ASSUME NEW r \in Seq(GoodBar), Len(r) = n
        PROVE  Closes(r) \in Seq(Rationals) /\ Len(Closes(r)) = n /\ \A i \in 1..n : Closes(r)[i] = Whole(r[i].close)
    <2>1. {Whole(x.close) : x \in GoodBar} \subseteq Rationals
      BY TurnedBar, Wholly
    <2>2. /\ Closes(r) \in Seq({Whole(x.close) : x \in GoodBar})
          /\ IsList(Closes(r), n) /\ \A i \in 1..n : Closes(r)[i] = Whole(r[i].close)
      BY <1>2, ClosesAre
    <2>3. Closes(r) \in Seq(Rationals)
      BY <2>1, <2>2
    <2>. QED
      BY <2>2, <2>3 DEF IsList
  <1>3. ASSUME NEW i \in 1..n PROVE Whole(t[i].close) = Flip(Top, Whole(s[i].close))
    <2>1. s[i] \in GoodBar /\ t[i] = Turned(s[i])
      BY <1>1, <1>3
    <2>2. PICK c \in Int : c = s[i].close /\ t[i].close = Top - c /\ Top \in Int
      BY <2>1, TurnedBar
    <2>. QED
      BY <2>2, Wholly
  <1>. QED
    BY <1>1, <1>2, <1>3 DEF Flipped

(* The highest and the lowest of some bars. *)
LEMMA EdgesAre ==
    ASSUME NEW n \in Positive, NEW r, DOMAIN r = 1..n, \A i \in 1..n : r[i] \in GoodBar
    PROVE  /\ Highest(r) \in Int /\ Lowest(r) \in Int
           /\ (\E i \in 1..n : Highest(r) = r[i].high) /\ (\A i \in 1..n : r[i].high <= Highest(r))
           /\ (\E i \in 1..n : Lowest(r) = r[i].low) /\ (\A i \in 1..n : Lowest(r) <= r[i].low)
  <1>1. PICK m \in Nat : m + 1 = n
    <2>1. n - 1 \in Nat /\ (n - 1) + 1 = n
      BY DEF Positive
    <2>. QED
      BY <2>1
  <1>. DEFINE h == [i \in 1..n |-> r[i].high]
              l == [i \in 1..n |-> r[i].low]
  <1>2. \A i \in 1..n : h[i] \in Int /\ l[i] \in Int /\ h[i] = r[i].high /\ l[i] = r[i].low
    BY TurnedBar
  <1>3. {h[i] : i \in 1..n} = {r[i].high : i \in DOMAIN r}
    OBVIOUS
  <1>4. {l[i] : i \in 1..n} = {r[i].low : i \in DOMAIN r}
    OBVIOUS
  <1>. HIDE DEF h, l
  <1>. PICK H : H = {h[i] : i \in 1..n}
    OBVIOUS
  <1>. PICK L : L = {l[i] : i \in 1..n}
    OBVIOUS
  <1>5. Max(H) \in Int /\ (\E i \in 1..n : Max(H) = h[i]) /\ (\A i \in 1..n : h[i] <= Max(H))
    BY <1>1, <1>2, GreatestAndLeast
  <1>6. Min(L) \in Int /\ (\E i \in 1..n : Min(L) = l[i]) /\ (\A i \in 1..n : Min(L) <= l[i])
    BY <1>1, <1>2, GreatestAndLeast
  <1>7. Highest(r) = Max(H) /\ Lowest(r) = Min(L)
    BY <1>3, <1>4 DEF Highest, Lowest
  <1>. QED
    BY <1>2, <1>5, <1>6, <1>7

(* The highest of the bars turned upside down is the lowest, turned. *)
LEMMA TurnedEdges ==
    ASSUME NEW s, NEW t, NEW n \in Positive, TurnedBars(s, t, n)
    PROVE  /\ Highest(s) \in Int /\ Lowest(s) \in Int /\ Lowest(s) <= Highest(s)
           /\ Highest(t) = Top - Lowest(s) /\ Lowest(t) = Top - Highest(s)
           /\ \A i \in 1..n : s[i].high <= Highest(s) /\ Lowest(s) <= s[i].low
  <1>1. \A i \in 1..n : s[i] \in GoodBar /\ t[i] \in GoodBar /\ t[i] = Turned(s[i])
    BY TurnedOne
  <1>2. DOMAIN s = 1..n /\ DOMAIN t = 1..n
    BY TurnedOne
  <1>3. PICK a \in Int, b \in Int :
            /\ a = Highest(s) /\ b = Lowest(s)
            /\ (\E i \in 1..n : a = s[i].high) /\ (\A i \in 1..n : s[i].high <= a)
            /\ (\E i \in 1..n : b = s[i].low) /\ (\A i \in 1..n : b <= s[i].low)
    BY <1>1, <1>2, EdgesAre
  <1>4. PICK c \in Int, d \in Int :
            /\ c = Highest(t) /\ d = Lowest(t)
            /\ (\E i \in 1..n : c = t[i].high) /\ (\A i \in 1..n : t[i].high <= c)
            /\ (\E i \in 1..n : d = t[i].low) /\ (\A i \in 1..n : d <= t[i].low)
    BY <1>1, <1>2, EdgesAre
  <1>5. /\ Top \in Int
        /\ \A i \in 1..n : /\ s[i].high \in Int /\ s[i].low \in Int /\ s[i].low <= s[i].high
                           /\ t[i].high = Top - s[i].low /\ t[i].low = Top - s[i].high
    <2>1. 1 \in 1..n
      BY DEF Positive
    <2>. QED
      BY <1>1, <2>1, TurnedBar
  <1>6. b <= a
    <2>1. PICK i \in 1..n : a = s[i].high
      BY <1>3
    <2>. QED
      BY <1>3, <1>5, <2>1
  <1>7. c = Top - b
    <2>1. PICK i \in 1..n : c = t[i].high
      BY <1>4
    <2>2. PICK j \in 1..n : b = s[j].low
      BY <1>3
    <2>3. c <= Top - b
      BY <1>3, <1>5, <2>1
    <2>4. Top - b <= c
      BY <1>4, <1>5, <2>2
    <2>. QED
      BY <1>5, <2>3, <2>4
  <1>8. d = Top - a
    <2>1. PICK i \in 1..n : d = t[i].low
      BY <1>4
    <2>2. PICK j \in 1..n : a = s[j].high
      BY <1>3
    <2>3. Top - a <= d
      BY <1>3, <1>5, <2>1
    <2>4. d <= Top - a
      BY <1>4, <1>5, <2>2
    <2>. QED
      BY <1>5, <2>3, <2>4
  <1>. QED
    BY <1>3, <1>4, <1>6, <1>7, <1>8

-----------------------------------------------------------------------------
(* The rules to buy and to sell, each the mirror image of the other and not both. *)
LEMMA ChooseFlips ==
    ASSUME NEW up \in BOOLEAN, NEW down \in BOOLEAN, ~(up /\ down)
    PROVE  Choose(down, up) = -Choose(up, down)
BY DEF Choose

(* What rises above a line falls below its mirror image. *)
LEMMA RisesAndFalls ==
    ASSUME NEW x0, NEW x, NEW l0, NEW l, NEW y0, NEW y, NEW k0, NEW k, NEW t \in Int, NEW u \in Int,
           Mirrors(t, y0, x0), Mirrors(t, k0, l0), Mirrors(u, y, x), Mirrors(u, k, l)
    PROVE  /\ Rises(y0, y, k0, k) = Falls(x0, x, l0, l) /\ Falls(y0, y, k0, k) = Rises(x0, x, l0, l)
           /\ Rises(x0, x, l0, l) \in BOOLEAN /\ Falls(x0, x, l0, l) \in BOOLEAN
           /\ ~(Rises(x0, x, l0, l) /\ Falls(x0, x, l0, l))
  <1>1. (y0 \preceq k0) = (l0 \preceq x0) /\ (y \prec k) = (l \prec x)
    BY MirrorOrder
  <1>2. (k0 \preceq y0) = (x0 \preceq l0) /\ (k \prec y) = (x \prec l)
    BY MirrorOrder
  <1>3. ~(x \prec l /\ l \prec x)
    BY OrderIs DEF Mirrors
  <1>. QED
    BY <1>1, <1>2, <1>3 DEF Rises, Falls

(* A crossing of mirror images is the opposite crossing. *)
LEMMA MirrorCrosses ==
    ASSUME NEW x0, NEW x, NEW l0, NEW l, NEW y0, NEW y, NEW k0, NEW k, NEW t \in Int, NEW u \in Int,
           Mirrors(t, y0, x0), Mirrors(t, k0, l0), Mirrors(u, y, x), Mirrors(u, k, l)
    PROVE  Crosses(y0, y, k0, k) = -Crosses(x0, x, l0, l)
  <1>1. /\ Rises(y0, y, k0, k) = Falls(x0, x, l0, l) /\ Falls(y0, y, k0, k) = Rises(x0, x, l0, l)
        /\ Rises(x0, x, l0, l) \in BOOLEAN /\ Falls(x0, x, l0, l) \in BOOLEAN
        /\ ~(Rises(x0, x, l0, l) /\ Falls(x0, x, l0, l))
    BY RisesAndFalls
  <1>2. Choose(Falls(x0, x, l0, l), Rises(x0, x, l0, l)) = -Choose(Rises(x0, x, l0, l), Falls(x0, x, l0, l))
    BY <1>1, ChooseFlips
  <1>. QED
    BY <1>1, <1>2 DEF Crosses

(* So is a crossing of fractions reflected. *)
LEMMA FlipCrosses ==
    ASSUME NEW x0 \in Rationals, NEW x \in Rationals, NEW l0 \in Rationals, NEW l \in Rationals, NEW t \in Int
    PROVE  Crosses(Flip(t, x0), Flip(t, x), Flip(t, l0), Flip(t, l)) = -Crosses(x0, x, l0, l)
BY FlipMirrors, MirrorCrosses

(* Out of a channel on one side, and out of its mirror image on the other. *)
LEMMA MirrorLeaves ==
    ASSUME NEW x0, NEW x, NEW y0, NEW y, NEW low, NEW high, NEW t \in Int,
           Mirrors(t, y0, x0), Mirrors(t, y, x), Mirrors(t, low, high), Mirrors(t, high, low)
    PROVE  Leaves(y0, y, low, high) = -Leaves(x0, x, low, high)
  <1>1. Rises(y0, y, low, low) = Falls(x0, x, high, high) /\ Falls(x0, x, high, high) \in BOOLEAN
    BY RisesAndFalls
  <1>2. Falls(y0, y, high, high) = Rises(x0, x, low, low) /\ Rises(x0, x, low, low) \in BOOLEAN
    BY RisesAndFalls
  <1>3. x0 \in Rationals /\ x \in Rationals /\ low \in Rationals /\ high \in Rationals
    BY DEF Mirrors
  <1>4. ~(Rises(x0, x, low, low) /\ Falls(x0, x, high, high))
    <2>. SUFFICES ASSUME x0 \preceq low, low \prec x, high \preceq x0, x \prec high PROVE FALSE
      BY DEF Rises, Falls
    <2>1. high \preceq low
      BY <1>3, OrderIsTransitive
    <2>2. x \preceq low
      BY <1>3, <2>1, OrderIs, OrderIsTransitive
    <2>. QED
      BY <1>3, <2>2, OrderIs
  <1>5. PICK up \in BOOLEAN, down \in BOOLEAN : up = Rises(x0, x, low, low) /\ down = Falls(x0, x, high, high)
    BY <1>1, <1>2
  <1>. QED
    BY <1>1, <1>2, <1>4, <1>5, ChooseFlips DEF Leaves

-----------------------------------------------------------------------------
\* Bars before the last, enough of them for every strategy.
Enough(n) ==
    /\ n \in Positive /\ Fast <= n /\ Mid <= n /\ Slow <= n /\ Period + 1 <= n /\ Period + Smooth <= n

(* What the assumptions say of the constants. *)
LEMMA Periods ==
    /\ Fast \in Positive /\ Mid \in Positive /\ Slow \in Positive /\ Period \in Positive /\ Smooth \in Positive
    /\ Deviations \in Positive /\ Far \in Positive /\ Top \in Int /\ Slow - 1 \in Positive /\ Period - 1 \in Positive
BY PeriodAssumption, BarAssumption DEF Positive

(* The closes before the last one and with it. *)
LEMMA TurnedNowAndBefore ==
    ASSUME NEW s, NEW t, NEW n, Enough(n), TurnedBars(s, t, n + 1)
    PROVE  /\ Flipped(Top, Closes(s), Closes(t), n + 1) /\ Flipped(Top, Front(Closes(s)), Front(Closes(t)), n)
           /\ n \in Nat /\ n + 1 \in Nat /\ n + 1 \in Positive
           /\ Closes(Front(s)) = Front(Closes(s)) /\ Closes(Front(t)) = Front(Closes(t))
           /\ TurnedBars(Front(s), Front(t), n)
           /\ Last(Closes(s)) \in Rationals /\ Last(Closes(t)) = Flip(Top, Last(Closes(s)))
           /\ Last(Front(Closes(s))) \in Rationals
           /\ Last(Front(Closes(t))) = Flip(Top, Last(Front(Closes(s))))
  <1>1. n \in Nat /\ n + 1 \in Nat /\ n + 1 \in Positive /\ (n + 1) - 1 = n /\ n \in Positive
    BY DEF Enough, Positive
  <1>2. Top \in Int
    BY Periods
  <1>3. Flipped(Top, Closes(s), Closes(t), n + 1)
    BY <1>1, TurnedCloses
  <1>4. TurnedBars(Front(s), Front(t), n) /\ Closes(Front(s)) = Front(Closes(s)) /\ Closes(Front(t)) = Front(Closes(t))
    BY <1>1, TurnedFront
  <1>5. Flipped(Top, Front(Closes(s)), Front(Closes(t)), n)
    BY <1>1, <1>4, TurnedCloses
  <1>6. PICK m \in Positive : m = n + 1
    BY <1>1
  <1>7. Last(Closes(s)) \in Rationals /\ Last(Closes(t)) = Flip(Top, Last(Closes(s)))
    BY <1>2, <1>3, <1>6, FlippedEnds
  <1>8. Last(Front(Closes(s))) \in Rationals /\ Last(Front(Closes(t))) = Flip(Top, Last(Front(Closes(s))))
    BY <1>1, <1>2, <1>5, FlippedEnds
  <1>. QED
    BY <1>1, <1>3, <1>4, <1>5, <1>7, <1>8

(* The line between two averages does not see where the prices are, only which way they go. *)
LEMMA MacdFlips ==
    ASSUME NEW t \in Int, NEW x, NEW y, NEW n \in Positive, Flipped(t, x, y, n),
           NEW a \in Positive, NEW b \in Positive, NEW c \in Positive
    PROVE  /\ Macd(x, a, b, c)[1] \in Rationals /\ Macd(y, a, b, c)[1] = Flip(0, Macd(x, a, b, c)[1])
           /\ Macd(x, a, b, c)[2] \in Rationals /\ Macd(y, a, b, c)[2] = Flip(0, Macd(x, a, b, c)[2])
  <1>. DEFINE line(v) == [i \in DOMAIN v |-> EmaSeries(v, a)[i] -- EmaSeries(v, b)[i]]
  <1>1. \A v : Macd(v, a, b, c) = <<Last(line(v)), Ema(line(v), c)>>
    BY DEF Macd
  <1>2. DOMAIN x = 1..n /\ DOMAIN y = 1..n
    BY DEF Flipped
  <1>3. PICK z \in Int : z = 0
    OBVIOUS
  <1>4. Flipped(t, EmaSeries(x, a), EmaSeries(y, a), n) /\ Flipped(t, EmaSeries(x, b), EmaSeries(y, b), n)
    BY EmaFlips
  <1>5. ASSUME NEW v, NEW p, NEW q, p = EmaSeries(v, a), q = EmaSeries(v, b), DOMAIN v = 1..n,
               \A i \in 1..n : p[i] \in Rationals /\ q[i] \in Rationals
        PROVE  line(v) \in Seq(Rationals) /\ Len(line(v)) = n /\ \A i \in 1..n : line(v)[i] = p[i] -- q[i]
    <2>1. line(v) = [i \in 1..n |-> p[i] -- q[i]]
      BY <1>5
    <2>2. \A i \in 1..n : p[i] -- q[i] \in Rationals
      BY <1>5, MinusIs
    <2>. HIDE DEF line
    <2>. PICK l : l = line(v)
      OBVIOUS
    <2>3. l \in [1..n -> Rationals]
      BY <2>1, <2>2
    <2>4. l \in Seq(Rationals) /\ Len(l) = n
      BY <2>3 DEF Positive
    <2>5. \A i \in 1..n : l[i] = p[i] -- q[i]
      BY <2>1
    <2>. QED
      BY <2>4, <2>5
  <1>. HIDE DEF line
  <1>6. PICK p, q : /\ p = EmaSeries(x, a) /\ q = EmaSeries(x, b)
                    /\ \A i \in 1..n : p[i] \in Rationals /\ q[i] \in Rationals
    BY <1>4 DEF Flipped
  <1>7. PICK u, w : u = EmaSeries(y, a) /\ w = EmaSeries(y, b)
    OBVIOUS
  <1>8. \A i \in 1..n : u[i] = Flip(t, p[i]) /\ w[i] = Flip(t, q[i])
    BY <1>4, <1>6, <1>7 DEF Flipped
  <1>9. \A i \in 1..n : u[i] \in Rationals /\ w[i] \in Rationals
    <2>1. \A f \in Rationals : Flip(t, f) \in Rationals
      BY FlipParts
    <2>. QED
      BY <1>6, <1>8, <2>1
  <1>10. line(x) \in Seq(Rationals) /\ Len(line(x)) = n /\ \A i \in 1..n : line(x)[i] = p[i] -- q[i]
    BY <1>2, <1>5, <1>6
  <1>11. line(y) \in Seq(Rationals) /\ Len(line(y)) = n /\ \A i \in 1..n : line(y)[i] = u[i] -- w[i]
    BY <1>2, <1>5, <1>7, <1>9
  <1>12. \A i \in 1..n : u[i] -- w[i] = Flip(z, p[i] -- q[i])
    <2>1. t - t = z
      BY <1>3
    <2>. QED
      BY <1>6, <1>8, <2>1, MinusFlips
  <1>13. Flipped(z, line(x), line(y), n)
    BY <1>10, <1>11, <1>12 DEF Flipped
  <1>14. Last(line(x)) \in Rationals /\ Last(line(y)) = Flip(z, Last(line(x)))
    BY <1>13, FlippedEnds
  <1>15. Ema(line(x), c) \in Rationals /\ Ema(line(y), c) = Flip(z, Ema(line(x), c))
    BY <1>13, EmaFlips
  <1>. QED
    BY <1>1, <1>3, <1>14, <1>15

(* SmaCrossover, EmaCrossover, MacdSignal and MacdZero say the opposite of the market turned. *)
LEMMA AverageMirrors ==
    ASSUME NEW s, NEW t, NEW n, Enough(n), TurnedBars(s, t, n + 1)
    PROVE  Opposite(Lopsided, AverageSignals(t), AverageSignals(s))
  <1>1. /\ Flipped(Top, Closes(s), Closes(t), n + 1) /\ Flipped(Top, Front(Closes(s)), Front(Closes(t)), n)
        /\ n \in Nat /\ n + 1 \in Nat /\ n + 1 \in Positive
    BY TurnedNowAndBefore
  <1>2. PICK m \in Positive : m = n + 1
    BY <1>1
  <1>3. n \in Positive /\ Fast <= n /\ Slow <= n /\ Fast <= m /\ Slow <= m /\ m \in Nat /\ n \in Nat
    BY <1>2, Periods DEF Enough, Positive
  <1>4. PICK x, y, x0, y0 : /\ x = Closes(s) /\ y = Closes(t) /\ x0 = Front(x) /\ y0 = Front(y)
                            /\ Flipped(Top, x, y, m) /\ Flipped(Top, x0, y0, n)
    BY <1>1, <1>2
  <1>5. Fast \in Positive /\ Slow \in Positive /\ Smooth \in Positive /\ Top \in Int
    BY Periods
  <1>6. AverageSignals(t).sma_crossover = -AverageSignals(s).sma_crossover
    <2>1. Sma(x, Fast) \in Rationals /\ Sma(y, Fast) = Flip(Top, Sma(x, Fast))
      BY <1>3, <1>4, <1>5, SmaFlips
    <2>2. Sma(x, Slow) \in Rationals /\ Sma(y, Slow) = Flip(Top, Sma(x, Slow))
      BY <1>3, <1>4, <1>5, SmaFlips
    <2>3. Sma(x0, Fast) \in Rationals /\ Sma(y0, Fast) = Flip(Top, Sma(x0, Fast))
      BY <1>3, <1>4, <1>5, SmaFlips
    <2>4. Sma(x0, Slow) \in Rationals /\ Sma(y0, Slow) = Flip(Top, Sma(x0, Slow))
      BY <1>3, <1>4, <1>5, SmaFlips
    <2>5. Crosses(Sma(y0, Fast), Sma(y, Fast), Sma(y0, Slow), Sma(y, Slow))
              = -Crosses(Sma(x0, Fast), Sma(x, Fast), Sma(x0, Slow), Sma(x, Slow))
      BY <1>5, <2>1, <2>2, <2>3, <2>4, FlipCrosses
    <2>. QED
      BY <1>4, <2>5 DEF AverageSignals
  <1>7. AverageSignals(t).ema_crossover = -AverageSignals(s).ema_crossover
    <2>1. Ema(x, Fast) \in Rationals /\ Ema(y, Fast) = Flip(Top, Ema(x, Fast))
      BY <1>4, <1>5, EmaFlips
    <2>2. Ema(x, Slow) \in Rationals /\ Ema(y, Slow) = Flip(Top, Ema(x, Slow))
      BY <1>4, <1>5, EmaFlips
    <2>3. Ema(x0, Fast) \in Rationals /\ Ema(y0, Fast) = Flip(Top, Ema(x0, Fast))
      BY <1>3, <1>4, <1>5, EmaFlips
    <2>4. Ema(x0, Slow) \in Rationals /\ Ema(y0, Slow) = Flip(Top, Ema(x0, Slow))
      BY <1>3, <1>4, <1>5, EmaFlips
    <2>5. Crosses(Ema(y0, Fast), Ema(y, Fast), Ema(y0, Slow), Ema(y, Slow))
              = -Crosses(Ema(x0, Fast), Ema(x, Fast), Ema(x0, Slow), Ema(x, Slow))
      BY <1>5, <2>1, <2>2, <2>3, <2>4, FlipCrosses
    <2>. QED
      BY <1>4, <2>5 DEF AverageSignals
  <1>8. PICK z \in Int : z = 0
    OBVIOUS
  <1>9. PICK a, b, a0, b0 : /\ a = Macd(x, Fast, Slow, Smooth) /\ b = Macd(y, Fast, Slow, Smooth)
                            /\ a0 = Macd(x0, Fast, Slow, Smooth) /\ b0 = Macd(y0, Fast, Slow, Smooth)
    OBVIOUS
  <1>10. a[1] \in Rationals /\ b[1] = Flip(z, a[1]) /\ a[2] \in Rationals /\ b[2] = Flip(z, a[2])
    BY <1>4, <1>5, <1>8, <1>9, MacdFlips
  <1>11. a0[1] \in Rationals /\ b0[1] = Flip(z, a0[1]) /\ a0[2] \in Rationals /\ b0[2] = Flip(z, a0[2])
    <2>1. Flipped(Top, x0, y0, n) /\ n \in Positive
      BY <1>3, <1>4
    <2>. QED
      BY <1>5, <1>8, <1>9, <2>1, MacdFlips
  <1>12. AverageSignals(t).macd_signal = -AverageSignals(s).macd_signal
    <2>1. Crosses(b0[1], b[1], b0[2], b[2]) = -Crosses(a0[1], a[1], a0[2], a[2])
      BY <1>10, <1>11, FlipCrosses
    <2>. QED
      BY <1>4, <1>9, <2>1 DEF AverageSignals
  <1>13. AverageSignals(t).macd_zero = -AverageSignals(s).macd_zero
    <2>1. PICK w \in Rationals : w = Whole(0) /\ Flip(z, w) = w
      <3>1. z - z = z
        BY <1>8
      <3>2. Whole(z) \in Rationals /\ Flip(z, Whole(z)) = Whole(z)
        BY <3>1, Wholly
      <3>. QED
        BY <1>8, <3>2
    <2>2. Crosses(b0[1], b[1], w, w) = -Crosses(a0[1], a[1], w, w)
      BY <1>10, <1>11, <2>1, FlipCrosses
    <2>. QED
      BY <1>4, <1>9, <2>1, <2>2 DEF AverageSignals
  <1>14. DOMAIN AverageSignals(t) = {"sma_crossover", "ema_crossover", "macd_signal", "macd_zero"}
    BY DEF AverageSignals
  <1>15. \A name \in DOMAIN AverageSignals(t) : AverageSignals(t)[name] = -AverageSignals(s)[name]
    <2>. SUFFICES ASSUME NEW name \in DOMAIN AverageSignals(t)
                  PROVE  AverageSignals(t)[name] = -AverageSignals(s)[name]
      OBVIOUS
    <2>1. name \in {"sma_crossover", "ema_crossover", "macd_signal", "macd_zero"}
      BY <1>14
    <2>. QED
      BY <1>6, <1>7, <1>12, <1>13, <2>1
  <1>. QED
    BY <1>15 DEF Opposite

-----------------------------------------------------------------------------
(* The prices and the volume of a bar, turned. *)
LEMMA TurnedPrices ==
    ASSUME NEW s, NEW t, NEW n \in Positive, TurnedBars(s, t, n), NEW i \in 1..n
    PROVE  /\ s[i].close \in Int /\ t[i].close = Top - s[i].close /\ t[i].volume = s[i].volume
           /\ s[i].volume \in Int /\ s[i].open \in Int /\ s[i].high \in Int /\ s[i].low \in Int
           /\ t[i].open = Top - s[i].open /\ t[i].high = Top - s[i].low /\ t[i].low = Top - s[i].high
           /\ s[i].low <= s[i].high
  <1>1. s[i] \in GoodBar /\ t[i] = Turned(s[i])
    BY TurnedOne
  <1>2. PICK b \in GoodBar : b = s[i] /\ t[i] = Turned(b)
    BY <1>1
  <1>. QED
    BY <1>2, TurnedBar

(* The channel of the last bars, turned. *)
LEMMA TurnedChannel ==
    ASSUME NEW s, NEW t, NEW n \in Nat, TurnedBars(s, t, n), NEW k \in Positive, k <= n
    PROVE  /\ Highest(Recent(s, k)) \in Int /\ Lowest(Recent(s, k)) \in Int
           /\ Lowest(Recent(s, k)) <= Highest(Recent(s, k))
           /\ Highest(Recent(t, k)) = Top - Lowest(Recent(s, k))
           /\ Lowest(Recent(t, k)) = Top - Highest(Recent(s, k))
  <1>1. PICK p, q : p = Recent(s, k) /\ q = Recent(t, k)
    OBVIOUS
  <1>2. TurnedBars(p, q, k)
    BY <1>1, TurnedRecent
  <1>. QED
    BY <1>1, <1>2, TurnedEdges

(* Nothing is its own mirror image. *)
LEMMA NothingFlips == Whole(0) \in Rationals /\ Flip(0, Whole(0)) = Whole(0) /\ Mirrors(0, Whole(0), Whole(0))
  <1>1. PICK z \in Int : z = 0 /\ z - z = z
    OBVIOUS
  <1>2. Whole(z) \in Rationals /\ Flip(z, Whole(z)) = Whole(z)
    BY <1>1, Wholly
  <1>3. Mirrors(z, Flip(z, Whole(z)), Whole(z))
    BY <1>2, FlipMirrors
  <1>4. Mirrors(z, Whole(z), Whole(z))
    BY <1>2, <1>3
  <1>. QED
    BY <1>1, <1>2, <1>4

(* DonchianBreakout, DonchianMeanReversion and RocMomentum. *)
LEMMA ChannelMirrors ==
    ASSUME NEW s, NEW t, NEW n, Enough(n), TurnedBars(s, t, n + 1)
    PROVE  Opposite(Lopsided, ChannelSignals(t), ChannelSignals(s))
  <1>1. n \in Nat /\ n + 1 \in Nat /\ n + 1 \in Positive /\ n \in Positive /\ TurnedBars(Front(s), Front(t), n)
    BY TurnedNowAndBefore DEF Enough
  <1>2. PICK m \in Positive : m = n + 1
    BY <1>1
  <1>3. PICK s0, t0 : s0 = Front(s) /\ t0 = Front(t) /\ TurnedBars(s0, t0, n) /\ TurnedBars(s, t, m)
    BY <1>1, <1>2
  <1>4. Period \in Positive /\ Period <= n /\ Period <= m /\ m \in Nat /\ n \in Nat /\ Top \in Int
    BY <1>1, <1>2, Periods DEF Enough, Positive
  <1>5. PICK c \in Int : c = s[m].close /\ t[m].close = Top - c
    <2>1. m \in 1..m /\ TurnedBars(s, t, m)
      BY <1>3 DEF Positive
    <2>. QED
      BY <2>1, TurnedPrices
  <1>6. PICK c0 \in Int : c0 = s0[n].close /\ t0[n].close = Top - c0
    <2>1. n \in 1..n /\ TurnedBars(s0, t0, n) /\ n \in Positive
      BY <1>1, <1>3 DEF Positive
    <2>. QED
      BY <2>1, TurnedPrices
  <1>7. Len(s) = m /\ Len(t) = m /\ Len(s0) = n /\ Len(t0) = n
    BY <1>3 DEF TurnedBars
  <1>8. PICK h \in Int, l \in Int :
            /\ h = Highest(Recent(s, Period)) /\ l = Lowest(Recent(s, Period)) /\ l <= h
            /\ Highest(Recent(t, Period)) = Top - l /\ Lowest(Recent(t, Period)) = Top - h
    BY <1>3, <1>4, TurnedChannel
  <1>9. PICK h0 \in Int, l0 \in Int :
            /\ h0 = Highest(Recent(s0, Period)) /\ l0 = Lowest(Recent(s0, Period)) /\ l0 <= h0
            /\ Highest(Recent(t0, Period)) = Top - l0 /\ Lowest(Recent(t0, Period)) = Top - h0
    BY <1>3, <1>4, TurnedChannel
  <1>10. ChannelSignals(t).donchian_breakout = -ChannelSignals(s).donchian_breakout
    <2>1. ChannelSignals(s).donchian_breakout = Choose(c > h0, c < l0)
      BY <1>3, <1>5, <1>7, <1>9 DEF ChannelSignals
    <2>2. ChannelSignals(t).donchian_breakout = Choose(Top - c > Top - l0, Top - c < Top - h0)
      BY <1>3, <1>5, <1>7, <1>9 DEF ChannelSignals
    <2>. QED
      BY <1>4, <1>5, <1>9, <2>1, <2>2 DEF Choose
  <1>11. ChannelSignals(t).donchian_mean_reversion = -ChannelSignals(s).donchian_mean_reversion
    <2>1. ChannelSignals(s).donchian_mean_reversion = Choose(c0 <= l0 /\ c > l /\ 2 * c < h + l, c0 >= h0 /\ c < h /\ 2 * c > h + l)
      BY <1>3, <1>5, <1>6, <1>7, <1>8, <1>9 DEF ChannelSignals
    <2>2. ChannelSignals(t).donchian_mean_reversion
              = Choose(Top - c0 <= Top - h0 /\ Top - c > Top - h /\ 2 * (Top - c) < (Top - l) + (Top - h),
                       Top - c0 >= Top - l0 /\ Top - c < Top - l /\ 2 * (Top - c) > (Top - l) + (Top - h))
      BY <1>3, <1>5, <1>6, <1>7, <1>8, <1>9 DEF ChannelSignals
    <2>. QED
      BY <1>4, <1>5, <1>6, <1>8, <1>9, <2>1, <2>2 DEF Choose
  <1>12. ChannelSignals(t).roc_momentum = -ChannelSignals(s).roc_momentum
    <2>1. PICK d \in Int : d = s[m - Period].close /\ t[m - Period].close = Top - d
      <3>1. m - Period \in 1..m
        BY <1>2, <1>4 DEF Positive
      <3>2. TurnedBars(s, t, m)
        BY <1>3
      <3>. QED
        BY <3>1, <3>2, TurnedPrices
    <2>2. PICK d0 \in Int : d0 = s0[n - Period].close /\ t0[n - Period].close = Top - d0
      <3>1. n - Period \in 1..n
        BY <1>4, Periods DEF Enough, Positive
      <3>2. TurnedBars(s0, t0, n) /\ n \in Positive
        BY <1>1, <1>3
      <3>. QED
        BY <3>1, <3>2, TurnedPrices
    <2>3. PICK e \in Int, e0 \in Int : e = c - d /\ e0 = c0 - d0
      OBVIOUS
    <2>4. (Top - c) - (Top - d) = -e /\ (Top - c0) - (Top - d0) = -e0
      BY <1>4, <2>3
    <2>5. Last(s).close = c /\ Last(t).close = Top - c /\ Last(s0).close = c0 /\ Last(t0).close = Top - c0
      BY <1>5, <1>6, <1>7 DEF Last
    <2>6. ChannelSignals(s).roc_momentum = Crosses(Whole(e0), Whole(e), Whole(0), Whole(0))
      BY <1>3, <1>7, <2>1, <2>2, <2>3, <2>5 DEF ChannelSignals
    <2>7. ChannelSignals(t).roc_momentum = Crosses(Whole(-e0), Whole(-e), Whole(0), Whole(0))
      BY <1>3, <1>7, <2>1, <2>2, <2>4, <2>5 DEF ChannelSignals
    <2>8. PICK z \in Int : z = 0
      OBVIOUS
    <2>9. z - e = -e /\ z - e0 = -e0
      BY <2>8
    <2>10. Flip(z, Whole(e)) = Whole(-e) /\ Flip(z, Whole(e0)) = Whole(-e0) /\ Whole(e) \in Rationals /\ Whole(e0) \in Rationals
      BY <2>9, Wholly
    <2>11. PICK w \in Rationals : w = Whole(0) /\ Flip(z, w) = w
      BY <2>8, NothingFlips
    <2>12. Crosses(Flip(z, Whole(e0)), Flip(z, Whole(e)), Flip(z, w), Flip(z, w)) = -Crosses(Whole(e0), Whole(e), w, w)
      BY <2>10, FlipCrosses
    <2>. QED
      BY <2>6, <2>7, <2>10, <2>11, <2>12
  <1>13. \A name \in DOMAIN ChannelSignals(t) \ Lopsided : ChannelSignals(t)[name] = -ChannelSignals(s)[name]
    <2>. SUFFICES ASSUME NEW name \in DOMAIN ChannelSignals(t) \ Lopsided
                  PROVE  ChannelSignals(t)[name] = -ChannelSignals(s)[name]
      OBVIOUS
    <2>1. name \in {"donchian_breakout", "donchian_mean_reversion", "roc_momentum"}
      BY DEF ChannelSignals, Lopsided
    <2>. QED
      BY <1>10, <1>11, <1>12, <2>1
  <1>. QED
    BY <1>13 DEF Opposite

(* EmaPullback and TripleMaTrend. *)
LEMMA PullbackMirrors ==
    ASSUME NEW s, NEW t, NEW n, Enough(n), TurnedBars(s, t, n + 1)
    PROVE  Opposite(Lopsided, PullbackSignals(t), PullbackSignals(s))
  <1>1. /\ Flipped(Top, Closes(s), Closes(t), n + 1) /\ Flipped(Top, Front(Closes(s)), Front(Closes(t)), n)
        /\ n + 1 \in Positive /\ n \in Positive
        /\ Last(Closes(s)) \in Rationals /\ Last(Closes(t)) = Flip(Top, Last(Closes(s)))
        /\ Last(Front(Closes(s))) \in Rationals
        /\ Last(Front(Closes(t))) = Flip(Top, Last(Front(Closes(s))))
    BY TurnedNowAndBefore DEF Enough
  <1>2. PICK m \in Positive : m = n + 1
    BY <1>1
  <1>3. PICK x, y, x0, y0 : /\ x = Closes(s) /\ y = Closes(t) /\ x0 = Front(x) /\ y0 = Front(y)
                            /\ Flipped(Top, x, y, m) /\ Flipped(Top, x0, y0, n)
    BY <1>1, <1>2
  <1>4. Fast \in Positive /\ Mid \in Positive /\ Slow \in Positive /\ Top \in Int /\ n \in Positive
    BY <1>1, Periods
  <1>5. PICK c \in Rationals, c0 \in Rationals : /\ c = Last(x) /\ Last(y) = Flip(Top, c)
                                                 /\ c0 = Last(x0) /\ Last(y0) = Flip(Top, c0)
    BY <1>1, <1>3
  <1>6. ASSUME NEW p \in Positive
        PROVE  /\ Ema(x, p) \in Rationals /\ Ema(y, p) = Flip(Top, Ema(x, p))
               /\ Ema(x0, p) \in Rationals /\ Ema(y0, p) = Flip(Top, Ema(x0, p))
    <2>1. Flipped(Top, x, y, m) /\ Flipped(Top, x0, y0, n)
      BY <1>3
    <2>. QED
      BY <1>4, <2>1, EmaFlips
  <1>7. PICK f \in Rationals, g \in Rationals, f0 \in Rationals, g0 \in Rationals :
            /\ f = Ema(x, Fast) /\ f0 = Ema(x0, Fast) /\ g = Ema(x, Mid) /\ g0 = Ema(x0, Mid)
    BY <1>4, <1>6
  <1>8. PICK e \in Rationals, e0 \in Rationals : e = Ema(x, Slow) /\ e0 = Ema(x0, Slow)
    BY <1>4, <1>6
  <1>9. /\ Ema(y, Fast) = Flip(Top, f) /\ Ema(y, Mid) = Flip(Top, g) /\ Ema(y, Slow) = Flip(Top, e)
        /\ Ema(y0, Fast) = Flip(Top, f0) /\ Ema(y0, Mid) = Flip(Top, g0) /\ Ema(y0, Slow) = Flip(Top, e0)
    BY <1>4, <1>6, <1>7, <1>8
  <1>10. \A a, b \in Rationals : (Flip(Top, a) \prec Flip(Top, b)) = (b \prec a) /\ ~(a \prec b /\ b \prec a)
    BY <1>4, FlipMirrors, MirrorOrder, OrderIs
  <1>11. PullbackSignals(t).ema_pullback = -PullbackSignals(s).ema_pullback
    <2>1. PullbackSignals(s).ema_pullback = Choose(e \prec c /\ Rises(c0, c, f0, f), c \prec e /\ Falls(c0, c, f0, f))
      BY <1>3, <1>5, <1>7, <1>8 DEF PullbackSignals
    <2>2. PullbackSignals(t).ema_pullback
              = Choose(Flip(Top, e) \prec Flip(Top, c) /\ Rises(Flip(Top, c0), Flip(Top, c), Flip(Top, f0), Flip(Top, f)),
                       Flip(Top, c) \prec Flip(Top, e) /\ Falls(Flip(Top, c0), Flip(Top, c), Flip(Top, f0), Flip(Top, f)))
      BY <1>3, <1>5, <1>9 DEF PullbackSignals
    <2>3. /\ Rises(Flip(Top, c0), Flip(Top, c), Flip(Top, f0), Flip(Top, f)) = Falls(c0, c, f0, f)
          /\ Falls(Flip(Top, c0), Flip(Top, c), Flip(Top, f0), Flip(Top, f)) = Rises(c0, c, f0, f)
      BY <1>4, FlipMirrors, RisesAndFalls
    <2>. QED
      BY <1>10, <2>1, <2>2, <2>3 DEF Choose
  <1>12. PullbackSignals(t).triple_ma_trend = -PullbackSignals(s).triple_ma_trend
    <2>1. PullbackSignals(s).triple_ma_trend
              = Choose(~(g0 \prec f0 /\ e0 \prec g0) /\ (g \prec f /\ e \prec g),
                       ~(f0 \prec g0 /\ g0 \prec e0) /\ (f \prec g /\ g \prec e))
      BY <1>3, <1>7, <1>8 DEF PullbackSignals
    <2>2. PullbackSignals(t).triple_ma_trend
              = Choose(~(Flip(Top, g0) \prec Flip(Top, f0) /\ Flip(Top, e0) \prec Flip(Top, g0))
                           /\ (Flip(Top, g) \prec Flip(Top, f) /\ Flip(Top, e) \prec Flip(Top, g)),
                       ~(Flip(Top, f0) \prec Flip(Top, g0) /\ Flip(Top, g0) \prec Flip(Top, e0))
                           /\ (Flip(Top, f) \prec Flip(Top, g) /\ Flip(Top, g) \prec Flip(Top, e)))
      BY <1>3, <1>9 DEF PullbackSignals
    <2>. QED
      BY <1>10, <2>1, <2>2 DEF Choose
  <1>13. \A name \in DOMAIN PullbackSignals(t) \ Lopsided : PullbackSignals(t)[name] = -PullbackSignals(s)[name]
    <2>. SUFFICES ASSUME NEW name \in DOMAIN PullbackSignals(t) \ Lopsided
                  PROVE  PullbackSignals(t)[name] = -PullbackSignals(s)[name]
      OBVIOUS
    <2>1. name \in {"ema_pullback", "triple_ma_trend"}
      BY DEF PullbackSignals, Lopsided
    <2>. QED
      BY <1>11, <1>12, <2>1
  <1>. QED
    BY <1>13 DEF Opposite

-----------------------------------------------------------------------------
\* A list made of so many values.
Made(x, n) == x = [i \in 1..n |-> x[i]]

(* Lists that mirror each other value by value. *)
LEMMA FlippedMade ==
    ASSUME NEW t \in Int, NEW n \in Nat, NEW x, NEW y, Made(x, n), Made(y, n),
           \A i \in 1..n : x[i] \in Rationals /\ y[i] = Flip(t, x[i])
    PROVE  Flipped(t, x, y, n)
  <1>1. \A f \in Rationals : Flip(t, f) \in Rationals
    BY FlipParts
  <1>2. \A i \in 1..n : x[i] \in Rationals /\ y[i] \in Rationals
    BY <1>1
  <1>3. x \in [1..n -> Rationals] /\ y \in [1..n -> Rationals]
    BY <1>2 DEF Made
  <1>4. x \in Seq(Rationals) /\ Len(x) = n /\ y \in Seq(Rationals) /\ Len(y) = n
    BY <1>3
  <1>. QED
    BY <1>4 DEF Flipped

(* All of a list is the list. *)
LEMMA WholeList ==
    ASSUME NEW S, NEW n \in Nat, NEW x \in Seq(S), Len(x) = n
    PROVE  SubSeq(x, 1, n) = x
  <1>1. PICK o \in Int : o = 1
    OBVIOUS
  <1>2. \A i \in o..n : x[i] \in S
    BY <1>1
  <1>3. SubSeq(x, o, n) \in Seq(S) /\ Len(SubSeq(x, o, n)) = (IF o <= n THEN n - o + 1 ELSE 0)
        /\ \A i \in 1..(n - o + 1) : SubSeq(x, o, n)[i] = x[o + i - 1]
    BY <1>2, SubSeqProperties
  <1>4. n - o + 1 = n /\ (\A i \in 1..n : o + i - 1 = i) /\ (IF o <= n THEN n - o + 1 ELSE 0) = n
    BY <1>1
  <1>5. PICK v \in Seq(S) : v = SubSeq(x, o, n) /\ Len(v) = n /\ \A i \in 1..n : v[i] = x[i]
    BY <1>3, <1>4
  <1>6. v = x
    BY <1>5, SeqEqual
  <1>. QED
    BY <1>1, <1>5, <1>6

(* The place between two edges, seen from the other edge. *)
LEMMA PlaceFlips ==
    ASSUME NEW x \in Int, NEW l \in Int, NEW h \in Int, l <= h, NEW t \in Int,
           NEW y \in Int, NEW low \in Int, NEW high \in Int, y = t - x, low = t - h, high = t - l
    PROVE  /\ Place(Whole(x), Whole(l), Whole(h)) \in Rationals
           /\ Place(Whole(y), Whole(low), Whole(high)) = Flip(100, Place(Whole(x), Whole(l), Whole(h)))
  <1>1. \A a, b \in Int : Whole(a) -- Whole(b) = Whole(a - b)
    <2>. SUFFICES ASSUME NEW a \in Int, NEW b \in Int PROVE Whole(a) -- Whole(b) = Whole(a - b)
      OBVIOUS
    <2>1. <<-b, 1>> = Whole(-b) /\ Whole(b)[1] = b /\ Whole(b)[2] = 1
      BY DEF Whole
    <2>2. Whole(a) ++ Whole(-b) = Whole(a + (-b))
      BY WholePlus
    <2>3. a + (-b) = a - b
      OBVIOUS
    <2>. QED
      BY <2>1, <2>2, <2>3 DEF --
  <1>2. PICK p \in Int, q \in Nat : p = x - l /\ q = h - l
    OBVIOUS
  <1>3. y - low = q - p /\ high - low = q
    BY <1>2
  <1>4. Whole(x) -- Whole(l) = Whole(p) /\ Whole(h) -- Whole(l) = Whole(q)
    BY <1>1, <1>2
  <1>5. Whole(y) -- Whole(low) = Whole(q - p) /\ Whole(high) -- Whole(low) = Whole(q)
    <2>1. Whole(y) -- Whole(low) = Whole(y - low) /\ Whole(high) -- Whole(low) = Whole(high - low)
      BY <1>1
    <2>. QED
      BY <1>3, <2>1
  <1>6. Place(Whole(x), Whole(l), Whole(h)) = Percent(Whole(p), Whole(q), Whole(50))
    BY <1>4 DEF Place
  <1>7. Place(Whole(y), Whole(low), Whole(high)) = Percent(Whole(q - p), Whole(q), Whole(50))
    BY <1>5 DEF Place
  <1>8. PICK c \in Int, f \in Int : c = 100 /\ f = 50 /\ c - f = f
    OBVIOUS
  <1>9. CASE q = 0
    <2>1. Percent(Whole(q - p), Whole(q), Whole(50)) = Whole(f) /\ Percent(Whole(p), Whole(q), Whole(50)) = Whole(f)
      BY <1>8, <1>9 DEF Percent
    <2>2. Whole(f) \in Rationals /\ Flip(c, Whole(f)) = Whole(f)
      BY <1>8, Wholly
    <2>. QED
      BY <1>6, <1>7, <1>8, <2>1, <2>2
  <1>10. CASE q # 0
    <2>1. PICK n \in Positive : n = q
      BY <1>10 DEF Positive
    <2>2. Whole(n) # Whole(0)
      BY <1>10, <2>1 DEF Whole
    <2>3. PICK a \in Rationals : a = Whole(p) // Whole(n)
      <3>1. PICK z \in Int : z = 0
        OBVIOUS
      <3>2. Whole(p) \in Rationals
        BY Wholly
      <3>. QED
        BY <3>1, <3>2, PartFlips
    <2>4. PICK o \in Int : o = 1
      OBVIOUS
    <2>5. Whole(q - p) // Whole(n) = Flip(o, a)
      <3>1. Flip(n * o, Whole(p)) // Whole(n) = Flip(o, a)
        BY <2>3, Wholly, PartFlips
      <3>2. n * o = q /\ n * o \in Int
        BY <2>1, <2>4
      <3>3. Flip(n * o, Whole(p)) = Whole(n * o - p)
        BY <3>2, Wholly
      <3>. QED
        BY <3>1, <3>2, <3>3
    <2>6. Whole(c) ** Flip(o, a) = Flip(c * o, Whole(c) ** a)
      BY TimesWholeFlips
    <2>7. c * o = c
      BY <2>4
    <2>8. Whole(c) ** a \in Rationals
      BY Wholly, TimesIs
    <2>9. Percent(Whole(p), Whole(q), Whole(50)) = Whole(c) ** a
      BY <1>8, <2>1, <2>2, <2>3 DEF Percent
    <2>10. Percent(Whole(q - p), Whole(q), Whole(50)) = Whole(c) ** Flip(o, a)
      BY <1>8, <2>1, <2>2, <2>5 DEF Percent
    <2>. QED
      BY <1>6, <1>7, <1>8, <2>6, <2>7, <2>8, <2>9, <2>10
  <1>. QED
    BY <1>9, <1>10

(* The stochastic of the market turned is the rest to 100. *)
LEMMA StochFlips ==
    ASSUME NEW s, NEW t, NEW n \in Nat, TurnedBars(s, t, n), NEW p \in Positive, NEW d \in Positive, p + d <= n + 1
    PROVE  /\ Stoch(s, p, d)[1] \in Rationals /\ Stoch(t, p, d)[1] = Flip(100, Stoch(s, p, d)[1])
           /\ Stoch(s, p, d)[2] \in Rationals /\ Stoch(t, p, d)[2] = Flip(100, Stoch(s, p, d)[2])
  <1>. DEFINE place(x, part) == Place(Whole(x.close), Whole(Lowest(part)), Whole(Highest(part)))
              places(b) == [j \in 1..d |-> place(b[Len(b) - d + j], SubSeq(b, (Len(b) - d + j) - p + 1, Len(b) - d + j))]
  <1>1. \A b : Stoch(b, p, d) = LastAndMean(SubSeq(places(b), 1, d))
    BY DEF Stoch, Each
  <1>2. PICK c \in Int : c = 100
    OBVIOUS
  <1>3. n \in Positive /\ Len(s) = n /\ Len(t) = n
    BY DEF TurnedBars, Positive
  <1>4. ASSUME NEW j \in 1..d
        PROVE  /\ place(s[n - d + j], SubSeq(s, (n - d + j) - p + 1, n - d + j)) \in Rationals
               /\ place(t[n - d + j], SubSeq(t, (n - d + j) - p + 1, n - d + j))
                      = Flip(c, place(s[n - d + j], SubSeq(s, (n - d + j) - p + 1, n - d + j)))
    <2>1. PICK b \in Positive : b = n - d + j /\ b <= n /\ b \in 1..n
      <3>1. n - d + j \in Positive /\ n - d + j <= n /\ n - d + j \in 1..n
        BY DEF Positive
      <3>. QED
        BY <3>1
    <2>2. PICK a \in Positive : a = b - p + 1 /\ a <= b /\ p = b - a + 1
      <3>1. b - p + 1 \in Positive /\ b - p + 1 <= b /\ p = b - (b - p + 1) + 1
        BY <2>1 DEF Positive
      <3>. QED
        BY <3>1
    <2>3. PICK u, w : u = SubSeq(s, a, b) /\ w = SubSeq(t, a, b)
      OBVIOUS
    <2>4. TurnedBars(u, w, p)
      <3>1. p \in Nat
        BY DEF Positive
      <3>. QED
        BY <2>1, <2>2, <2>3, <3>1, TurnedPart
    <2>5. PICK l \in Int, h \in Int : l = Lowest(u) /\ h = Highest(u) /\ l <= h /\ Lowest(w) = Top - h /\ Highest(w) = Top - l
      BY <2>4, TurnedEdges
    <2>6. PICK x \in Int : x = s[b].close /\ t[b].close = Top - x
      BY <1>3, <2>1, TurnedPrices
    <2>7. /\ Place(Whole(x), Whole(l), Whole(h)) \in Rationals
          /\ Place(Whole(Top - x), Whole(Top - h), Whole(Top - l)) = Flip(c, Place(Whole(x), Whole(l), Whole(h)))
      <3>1. PICK y \in Int, low \in Int, high \in Int : y = Top - x /\ low = Top - h /\ high = Top - l /\ Top \in Int
        BY Periods
      <3>2. /\ Place(Whole(x), Whole(l), Whole(h)) \in Rationals
            /\ Place(Whole(y), Whole(low), Whole(high)) = Flip(100, Place(Whole(x), Whole(l), Whole(h)))
        <4>1. l <= h /\ y = Top - x /\ low = Top - h /\ high = Top - l /\ Top \in Int
          BY <2>5, <3>1
        <4>2. PICK height \in Int : height = Top
          BY <4>1
        <4>3. y = height - x /\ low = height - h /\ high = height - l
          BY <4>1, <4>2
        <4>4. Place(Whole(x), Whole(l), Whole(h)) \in Rationals
          BY <4>1, <4>3, PlaceFlips
        <4>5. Place(Whole(y), Whole(low), Whole(high)) = Flip(100, Place(Whole(x), Whole(l), Whole(h)))
          BY <4>1, <4>3, PlaceFlips
        <4>. QED
          BY <4>4, <4>5
      <3>. QED
        BY <1>2, <3>1, <3>2
    <2>. QED
      BY <2>1, <2>2, <2>3, <2>5, <2>6, <2>7
  <1>. HIDE DEF place
  <1>5. PICK x, y : x = places(s) /\ y = places(t)
    OBVIOUS
  <1>6. Made(x, d) /\ \A j \in 1..d : x[j] = place(s[n - d + j], SubSeq(s, (n - d + j) - p + 1, n - d + j))
    BY <1>3, <1>5 DEF Made
  <1>7. Made(y, d) /\ \A j \in 1..d : y[j] = place(t[n - d + j], SubSeq(t, (n - d + j) - p + 1, n - d + j))
    BY <1>3, <1>5 DEF Made
  <1>8. \A j \in 1..d : x[j] \in Rationals /\ y[j] = Flip(c, x[j])
    BY <1>4, <1>6, <1>7
  <1>9. d \in Nat
    BY DEF Positive
  <1>10. Flipped(c, x, y, d)
    BY <1>6, <1>7, <1>8, <1>9, FlippedMade
  <1>11. SubSeq(x, 1, d) = x /\ SubSeq(y, 1, d) = y
    BY <1>9, <1>10, WholeList DEF Flipped
  <1>12. Stoch(s, p, d) = <<Last(x), Mean(x)>> /\ Stoch(t, p, d) = <<Last(y), Mean(y)>>
    <2>. HIDE DEF places
    <2>. QED
      BY <1>1, <1>5, <1>11 DEF LastAndMean
  <1>13. Last(x) \in Rationals /\ Last(y) = Flip(c, Last(x))
    BY <1>10, FlippedEnds
  <1>14. Mean(x) \in Rationals /\ Mean(y) = Flip(c, Mean(x))
    BY <1>10, MeanFlips
  <1>. QED
    BY <1>2, <1>12, <1>13, <1>14

(* SlowStochastic. *)
LEMMA OscillatorMirrors ==
    ASSUME NEW s, NEW t, NEW n, Enough(n), TurnedBars(s, t, n + 1)
    PROVE  Opposite(Lopsided, OscillatorSignals(t), OscillatorSignals(s))
  <1>1. n \in Nat /\ n + 1 \in Nat /\ n \in Positive /\ TurnedBars(Front(s), Front(t), n)
    BY TurnedNowAndBefore DEF Enough
  <1>2. PICK m \in Nat : m = n + 1 /\ TurnedBars(s, t, m)
    BY <1>1
  <1>3. PICK s0, t0 : s0 = Front(s) /\ t0 = Front(t) /\ TurnedBars(s0, t0, n)
    BY <1>1
  <1>4. /\ Period \in Positive /\ Smooth \in Positive /\ Period + Smooth <= n + 1 /\ Period + Smooth <= m + 1
    BY <1>1, <1>2, Periods DEF Enough, Positive
  <1>5. PICK c \in Int : c = 100
    OBVIOUS
  <1>6. PICK k, r : k = Stoch(s, Period, Smooth) /\ r = Stoch(t, Period, Smooth)
    OBVIOUS
  <1>7. PICK k0, r0 : k0 = Stoch(s0, Period, Smooth) /\ r0 = Stoch(t0, Period, Smooth)
    OBVIOUS
  <1>8. k[1] \in Rationals /\ r[1] = Flip(c, k[1]) /\ k[2] \in Rationals /\ r[2] = Flip(c, k[2])
    BY <1>2, <1>4, <1>5, <1>6, StochFlips
  <1>9. k0[1] \in Rationals /\ r0[1] = Flip(c, k0[1]) /\ k0[2] \in Rationals /\ r0[2] = Flip(c, k0[2])
    BY <1>1, <1>3, <1>4, <1>5, <1>7, StochFlips
  <1>10. PICK a, b, a0, b0 : a = k[1] /\ b = k[2] /\ a0 = k0[1] /\ b0 = k0[2]
    OBVIOUS
  <1>11. /\ Rises(r0[1], r[1], r0[2], r[2]) = Falls(a0, a, b0, b) /\ Falls(r0[1], r[1], r0[2], r[2]) = Rises(a0, a, b0, b)
         /\ ~(Rises(a0, a, b0, b) /\ Falls(a0, a, b0, b))
    BY <1>8, <1>9, <1>10, FlipMirrors, RisesAndFalls
  <1>12. (r[1] \prec Whole(20)) = (Whole(80) \prec a) /\ (Whole(80) \prec r[1]) = (a \prec Whole(20))
    <2>1. PICK i \in Int, j \in Int : i = 20 /\ j = 80 /\ c - i = j /\ c - j = i
      BY <1>5
    <2>2. Whole(i) \in Rationals /\ Whole(j) \in Rationals /\ Flip(c, Whole(i)) = Whole(j) /\ Flip(c, Whole(j)) = Whole(i)
      BY <2>1, Wholly
    <2>3. Mirrors(c, Whole(j), Whole(i)) /\ Mirrors(c, Whole(i), Whole(j)) /\ Mirrors(c, r[1], a)
      BY <1>8, <1>10, <2>2, FlipMirrors
    <2>4. (r[1] \prec Whole(i)) = (Whole(j) \prec a) /\ (Whole(j) \prec r[1]) = (a \prec Whole(i))
      BY <2>3, MirrorOrder
    <2>. QED
      BY <2>1, <2>4
  <1>13. OscillatorSignals(s).slow_stochastic
             = Choose(Rises(a0, a, b0, b) /\ a \prec Whole(20), Falls(a0, a, b0, b) /\ Whole(80) \prec a)
    BY <1>3, <1>6, <1>7, <1>10 DEF OscillatorSignals
  <1>14. OscillatorSignals(t).slow_stochastic
             = Choose(Rises(r0[1], r[1], r0[2], r[2]) /\ r[1] \prec Whole(20),
                      Falls(r0[1], r[1], r0[2], r[2]) /\ Whole(80) \prec r[1])
    BY <1>3, <1>6, <1>7 DEF OscillatorSignals
  <1>15. OscillatorSignals(t).slow_stochastic = -OscillatorSignals(s).slow_stochastic
    BY <1>11, <1>12, <1>13, <1>14 DEF Choose
  <1>16. \A name \in DOMAIN OscillatorSignals(t) \ Lopsided : name = "slow_stochastic"
    BY DEF OscillatorSignals, Lopsided
  <1>17. \A name \in DOMAIN OscillatorSignals(t) \ Lopsided : OscillatorSignals(t)[name] = -OscillatorSignals(s)[name]
    BY <1>15, <1>16
  <1>. QED
    BY <1>17 DEF Opposite

-----------------------------------------------------------------------------
(* What is bought and sold: the volume is the same, the money flows the other way. *)
FlowOf(f, c, l, h, v) == f = Fraction((2 * c - l - h) * v, h - l)
Against(c, l, h, y, low, high) == l < h /\ 2 * y - low - high = -(2 * c - l - h) /\ high - low = h - l
(* The flow of one bar is the opposite of that of its reflection. *)
LEMMA FlowFlips ==
    ASSUME NEW c \in Int, NEW l \in Int, NEW h \in Int, NEW v \in Int,
           NEW y \in Int, NEW low \in Int, NEW high \in Int, NEW f, NEW g,
           Against(c, l, h, y, low, high),
           FlowOf(f, c, l, h, v), FlowOf(g, y, low, high, v)
    PROVE  f \in Rationals /\ g = Flip(0, f)
  <1>1. PICK d \in Positive : d = h - l /\ d = high - low
    <2>1. h - l \in Positive /\ h - l = high - low
      BY DEF Against, Positive
    <2>. QED
      BY <2>1
  <1>2. PICK a \in Int, b \in Int : a = 2 * c - l - h /\ b = 2 * y - low - high /\ b = -a
    <2>1. 2 * c - l - h \in Int /\ 2 * y - low - high \in Int /\ 2 * y - low - high = -(2 * c - l - h)
      BY DEF Against
    <2>. QED
      BY <2>1
  <1>3. PICK n \in Int : n = a * v
    OBVIOUS
  <1>4. PICK z \in Int : z = 0
    OBVIOUS
  <1>5. z * d - n = b * v
    <2>1. z * d = 0
      BY <1>4 DEF Positive
    <2>2. b * v = -(a * v)
      BY <1>2
    <2>. QED
      BY <1>3, <2>1, <2>2
  <1>6. Fraction(z * d - n, d) = Flip(z, Fraction(n, d))
    BY FractionFlips
  <1>7. Fraction(n, d) \in Rationals
    BY FractionIsProper DEF Proper
  <1>. QED
    BY <1>1, <1>2, <1>3, <1>4, <1>5, <1>6, <1>7 DEF FlowOf

(* The money flow of reflected bars is the opposite. *)
LEMMA CmfFlips ==
    ASSUME NEW s, NEW t, NEW n \in Nat, TurnedBars(s, t, n), NEW p \in Positive, p <= n
    PROVE  Cmf(s, p) \in Rationals /\ Cmf(t, p) = Flip(0, Cmf(s, p))
  <1>. DEFINE flow(bar) == IF bar.high = bar.low THEN Whole(0)
                           ELSE Fraction((2 * bar.close - bar.low - bar.high) * bar.volume, bar.high - bar.low)
              volumes(part) == [i \in 1..p |-> Whole(part[i].volume)]
              flows(part) == [i \in 1..p |-> flow(part[i])]
              of(volume, money) == IF volume = Whole(0) THEN Whole(0) ELSE money // volume
  <1>1. \A r : Cmf(r, p) = of(Total(volumes(Recent(r, p))), Total(flows(Recent(r, p))))
    BY DEF Cmf
  <1>2. PICK u, w : u = Recent(s, p) /\ w = Recent(t, p) /\ TurnedBars(u, w, p)
    BY TurnedRecent
  <1>3. PICK z \in Int : z = 0
    OBVIOUS
  <1>4. p \in Nat
    BY DEF Positive
  <1>5. \A i \in 1..p : u[i].volume \in Int /\ w[i].volume = u[i].volume
    BY <1>2, TurnedPrices
  <1>6. ASSUME NEW i \in 1..p PROVE flow(u[i]) \in Rationals /\ flow(w[i]) = Flip(z, flow(u[i]))
    <2>1. TurnedBars(u, w, p)
      BY <1>2
    <2>2. PICK c \in Int, l \in Int, h \in Int, v \in Int, height \in Int :
              /\ c = u[i].close /\ l = u[i].low /\ h = u[i].high /\ v = u[i].volume /\ l <= h /\ height = Top
      <3>1. u[i].close \in Int /\ u[i].low \in Int /\ u[i].high \in Int /\ u[i].volume \in Int /\ u[i].low <= u[i].high
        BY <2>1, TurnedPrices
      <3>. QED
        BY <3>1, Periods
    <2>3. PICK y \in Int, low \in Int, high \in Int : y = height - c /\ low = height - h /\ high = height - l
      OBVIOUS
    <2>4. w[i].close = y /\ w[i].low = low /\ w[i].high = high /\ w[i].volume = v
      BY <2>1, <2>2, <2>3, TurnedPrices
    <2>5. CASE l = h
      <3>1. flow(u[i]) = Whole(z) /\ flow(w[i]) = Whole(z)
        BY <1>3, <2>2, <2>3, <2>4, <2>5
      <3>2. Whole(z) \in Rationals /\ Flip(z, Whole(z)) = Whole(z)
        BY <1>3, NothingFlips
      <3>. QED
        BY <3>1, <3>2
    <2>6. CASE l # h
      <3>1. l < h /\ low # high
        <4>1. l <= h
          BY <2>2
        <4>. QED
          BY <2>3, <2>6, <4>1
      <3>2. flow(u[i]) = Fraction((2 * c - l - h) * v, h - l)
        BY <2>2, <2>6
      <3>3. flow(w[i]) = Fraction((2 * y - low - high) * v, high - low)
        BY <2>4, <3>1
      <3>4. PICK f, g : f = flow(u[i]) /\ g = flow(w[i]) /\ FlowOf(f, c, l, h, v) /\ FlowOf(g, y, low, high, v)
        BY <3>2, <3>3 DEF FlowOf
      <3>5. l < h
        BY <3>1
      <3>6. f \in Rationals /\ g = Flip(z, f)
        <4>. HIDE DEF flow
        <4>1. FlowOf(f, c, l, h, v) /\ FlowOf(g, y, low, high, v)
          BY <3>4
        <4>2. Against(c, l, h, y, low, high)
          BY <2>3, <3>5 DEF Against
        <4>3. f \in Rationals /\ g = Flip(0, f)
          BY <4>1, <4>2, FlowFlips
        <4>. QED
          BY <1>3, <4>3
      <3>. QED
        BY <3>4, <3>6
    <2>. QED
      BY <2>5, <2>6
  <1>7. PICK x, x2 : x = volumes(u) /\ x2 = volumes(w) /\ x = x2
    BY <1>5
  <1>8. PICK y, y2 : y = flows(u) /\ y2 = flows(w)
    OBVIOUS
  <1>9. Made(x, p) /\ \A i \in 1..p : x[i] \in Rationals
    <2>1. Made(x, p) /\ \A i \in 1..p : x[i] = Whole(u[i].volume)
      BY <1>7 DEF Made
    <2>. QED
      BY <1>5, <2>1, Wholly
  <1>10. /\ Made(y, p) /\ Made(y2, p) /\ \A i \in 1..p : y[i] \in Rationals /\ y2[i] = Flip(z, y[i])
    <2>1. Made(y, p) /\ \A i \in 1..p : y[i] = flow(u[i])
      <3>. HIDE DEF flow
      <3>. QED
        BY <1>8 DEF Made
    <2>2. Made(y2, p) /\ \A i \in 1..p : y2[i] = flow(w[i])
      <3>. HIDE DEF flow
      <3>. QED
        BY <1>8 DEF Made
    <2>. HIDE DEF flow
    <2>. QED
      BY <1>6, <2>1, <2>2
  <1>11. Flipped(z, y, y2, p)
    BY <1>4, <1>10, FlippedMade
  <1>12. PICK f \in Rationals : f = Total(y) /\ Total(y2) = Flip(z, f)
    <2>1. Proper(Total(y)) /\ Total(y2) = Flip(p * z, Total(y))
      BY <1>4, <1>11, TotalFlips
    <2>2. p * z = z
      BY <1>3, <1>4
    <2>. QED
      BY <2>1, <2>2 DEF Proper
  <1>13. PICK volume : volume = Total(x) /\ Proper(volume)
    <2>1. x \in Seq(Rationals) /\ Len(x) = p
      <3>1. x \in [1..p -> Rationals]
        BY <1>9 DEF Made
      <3>. QED
        BY <1>4, <3>1
    <2>2. PICK v : Flipped(z, x, v, p)
      BY <1>4, <2>1, FlippedSelf
    <2>. QED
      BY <1>4, <2>2, TotalFlips
  <1>. HIDE DEF volumes, flows
  <1>14. Cmf(s, p) = of(volume, f) /\ Cmf(t, p) = of(volume, Flip(z, f))
    BY <1>1, <1>2, <1>7, <1>8, <1>12, <1>13
  <1>15. CASE volume = Whole(0)
    BY <1>3, <1>14, <1>15, NothingFlips
  <1>16. CASE volume # Whole(0)
    <2>1. volume \in Rationals /\ volume[1] # 0
      BY <1>13, <1>16 DEF Proper, Whole
    <2>2. f // volume \in Rationals /\ Flip(0, f) // volume = Flip(0, f // volume)
      BY <2>1, OverIs
    <2>. QED
      BY <1>3, <1>14, <1>16, <2>2
  <1>. QED
    BY <1>15, <1>16

-----------------------------------------------------------------------------
\* Numbers that are opposite, but for a constant.
Opposed(u, v, w, n) ==
    /\ v \in Seq(Int) /\ w \in Seq(Int) /\ Len(v) = n /\ Len(w) = n
    /\ \A i \in 1..n : w[i] = u - v[i]

(* All but the last of two opposed lists, and the last. *)
LEMMA OpposedEnds ==
    ASSUME NEW u \in Int, NEW v, NEW w, NEW n \in Positive, Opposed(u, v, w, n)
    PROVE  Opposed(u, Front(v), Front(w), n - 1) /\ Last(v) \in Int /\ Last(w) = u - Last(v)
  <1>1. v \in Seq(Int) /\ w \in Seq(Int) /\ Len(v) = n /\ Len(w) = n /\ \A i \in 1..n : w[i] = u - v[i]
    BY DEF Opposed
  <1>2. Len(v) > 0 /\ Len(w) > 0 /\ n \in 1..n /\ (\A i \in 1..(n - 1) : i \in 1..n)
    BY <1>1 DEF Positive
  <1>3. /\ Front(v) \in Seq(Int) /\ Len(Front(v)) = n - 1 /\ \A i \in 1..(n - 1) : Front(v)[i] = v[i]
        /\ Front(w) \in Seq(Int) /\ Len(Front(w)) = n - 1 /\ \A i \in 1..(n - 1) : Front(w)[i] = w[i]
    BY <1>1, <1>2, FrontProperties
  <1>4. Opposed(u, Front(v), Front(w), n - 1)
    BY <1>1, <1>2, <1>3 DEF Opposed
  <1>. QED
    BY <1>1, <1>2, <1>4 DEF Last

(* The mean of opposed numbers is the mean mirrored. *)
LEMMA OpposedMean ==
    ASSUME NEW u \in Int, NEW v, NEW w, NEW n \in Positive, Opposed(u, v, w, n), NEW k \in Positive, k <= n,
           NEW x, NEW y, Wholes(x, Recent(v, k), k), Wholes(y, Recent(w, k), k)
    PROVE  Mean(x) \in Rationals /\ Mean(y) = Flip(u, Mean(x))
  <1>1. v \in Seq(Int) /\ w \in Seq(Int) /\ Len(v) = n /\ Len(w) = n /\ \A i \in 1..n : w[i] = u - v[i]
    BY DEF Opposed
  <1>2. ASSUME NEW r \in Seq(Int), Len(r) = n PROVE \A i \in 1..k : Recent(r, k)[i] = r[n - k + i]
    <2>1. IsEnd(r, r)
      BY DEF IsEnd
    <2>. QED
      BY <1>2, <2>1, EndRecent
  <1>3. /\ \A i \in 1..k : Recent(v, k)[i] = v[n - k + i]
        /\ \A i \in 1..k : Recent(w, k)[i] = w[n - k + i]
    BY <1>1, <1>2
  <1>4. Made(x, k) /\ Made(y, k) /\ \A i \in 1..k : x[i] = Whole(v[n - k + i]) /\ y[i] = Whole(w[n - k + i])
    <2>1. Made(x, k) /\ Made(y, k)
      BY DEF Wholes, Made
    <2>2. \A i \in 1..k : x[i] = Whole(Recent(v, k)[i]) /\ y[i] = Whole(Recent(w, k)[i])
      BY WholesAre DEF Positive
    <2>. QED
      BY <1>3, <2>1, <2>2
  <1>5. ASSUME NEW i \in 1..k PROVE x[i] \in Rationals /\ y[i] = Flip(u, x[i])
    <2>1. n - k + i \in 1..n
      BY DEF Positive
    <2>2. PICK a \in Int : a = v[n - k + i] /\ w[n - k + i] = u - a
      BY <1>1, <2>1
    <2>3. Whole(a) \in Rationals /\ Flip(u, Whole(a)) = Whole(u - a)
      BY Wholly
    <2>. QED
      BY <1>4, <2>2, <2>3
  <1>6. k \in Nat
    BY DEF Positive
  <1>7. Flipped(u, x, y, k)
    BY <1>4, <1>5, <1>6, FlippedMade
  <1>. QED
    BY <1>7, MeanFlips

(* Where prices fell they rise: the volume is taken away. *)
LEMMA ObvFlips ==
    ASSUME NEW s, NEW t, NEW n \in Positive, TurnedBars(s, t, n)
    PROVE  \E u \in Int : Opposed(u, Obv(s), Obv(t), n)
  <1>1. s \in Seq(PriceBar) /\ t \in Seq(PriceBar) /\ Len(s) = n /\ Len(t) = n /\ Len(s) > 0 /\ Len(t) > 0
    BY DEF TurnedBars, GoodBar, Positive
  <1>2. PICK v \in Seq(Int) : /\ v = Obv(s) /\ Len(v) = n
                              /\ \A i \in 1..(n - 1) : v[i + 1] = ObvStep(s, v[i], i + 1)
    BY <1>1, ObvUnfolds
  <1>3. PICK w \in Seq(Int) : /\ w = Obv(t) /\ Len(w) = n
                              /\ \A i \in 1..(n - 1) : w[i + 1] = ObvStep(t, w[i], i + 1)
    BY <1>1, ObvUnfolds
  <1>4. 1 \in 1..n /\ \A i \in 1..n : v[i] \in Int /\ w[i] \in Int
    BY <1>2, <1>3 DEF Positive
  <1>5. PICK u \in Int : u = v[1] + w[1]
    BY <1>4
  <1>. DEFINE T == {k \in Nat : k + 1 <= n => w[k + 1] = u - v[k + 1]}
  <1>6. 0 \in T
    <2>1. 0 + 1 = 1
      OBVIOUS
    <2>2. w[1] = u - v[1]
      BY <1>4, <1>5
    <2>. QED
      BY <2>1, <2>2
  <1>7. ASSUME NEW k \in Nat, k \in T PROVE k + 1 \in T
    <2>1. CASE k + 1 + 1 <= n
      <3>1. PICK i \in Nat, j \in Nat : i = k + 1 /\ j = i + 1
        OBVIOUS
      <3>2. i \in 1..(n - 1) /\ i \in 1..n /\ j \in 1..n /\ j - 1 = i
        BY <2>1, <3>1 DEF Positive
      <3>3. PICK a \in Int, b \in Int : a = v[i] /\ b = w[i] /\ b = u - a
        BY <1>4, <1>7, <2>1, <3>1, <3>2 DEF Positive
      <3>4. v[j] = ObvStep(s, a, j) /\ w[j] = ObvStep(t, b, j)
        BY <1>2, <1>3, <3>1, <3>2, <3>3
      <3>5. PICK c \in Int, c0 \in Int, d \in Int, height \in Int :
                /\ c = s[j].close /\ c0 = s[i].close /\ d = s[j].volume /\ t[j].volume = d
                /\ t[j].close = height - c /\ t[i].close = height - c0
        <4>1. PICK height \in Int : height = Top
          BY Periods
        <4>2. s[j].close \in Int /\ s[j].volume \in Int /\ t[j].volume = s[j].volume /\ t[j].close = Top - s[j].close
          BY <3>2, TurnedPrices
        <4>3. s[i].close \in Int /\ t[i].close = Top - s[i].close
          BY <3>2, TurnedPrices
        <4>. QED
          BY <4>1, <4>2, <4>3
      <3>6. ObvStep(s, a, j) = IF c - c0 > 0 THEN a + d ELSE IF c - c0 < 0 THEN a - d ELSE a
        BY <3>2, <3>5 DEF ObvStep
      <3>7. PICK e \in Int : e = (height - c) - (height - c0) /\ e = -(c - c0)
        OBVIOUS
      <3>8. ObvStep(t, b, j) = IF e > 0 THEN b + d ELSE IF e < 0 THEN b - d ELSE b
        BY <3>2, <3>5, <3>7 DEF ObvStep
      <3>9. w[j] = u - v[j]
        BY <3>3, <3>4, <3>6, <3>7, <3>8
      <3>. QED
        BY <3>1, <3>9
    <2>. QED
      BY <2>1
  <1>8. \A k \in Nat : k \in T
    <2>. HIDE DEF T
    <2>. QED
      BY <1>6, <1>7, Induct
  <1>9. \A i \in 1..n : w[i] = u - v[i]
    <2>. SUFFICES ASSUME NEW i \in 1..n PROVE w[i] = u - v[i]
      OBVIOUS
    <2>1. PICK k \in Nat : k = i - 1 /\ k + 1 = i /\ k + 1 <= n
      <3>1. i - 1 \in Nat /\ (i - 1) + 1 = i /\ i <= n
        BY DEF Positive
      <3>. QED
        BY <3>1
    <2>2. w[k + 1] = u - v[k + 1]
      BY <1>8, <2>1
    <2>. QED
      BY <2>1, <2>2
  <1>10. Opposed(u, v, w, n)
    BY <1>2, <1>3, <1>9 DEF Opposed
  <1>. QED
    BY <1>2, <1>3, <1>10

(* ObvConfirmation and CmfBreakout. *)
LEMMA VolumeMirrors ==
    ASSUME NEW s, NEW t, NEW n, Enough(n), TurnedBars(s, t, n + 1)
    PROVE  Opposite(Lopsided, VolumeSignals(t), VolumeSignals(s))
  <1>1. /\ Flipped(Top, Closes(s), Closes(t), n + 1) /\ TurnedBars(Front(s), Front(t), n)
        /\ n \in Nat /\ n + 1 \in Nat /\ n + 1 \in Positive /\ n \in Positive
        /\ Last(Closes(s)) \in Rationals /\ Last(Closes(t)) = Flip(Top, Last(Closes(s)))
    BY TurnedNowAndBefore DEF Enough
  <1>2. PICK m \in Positive : m = n + 1 /\ m \in Nat /\ m - 1 = n
    BY <1>1
  <1>3. PICK s0, t0 : s0 = Front(s) /\ t0 = Front(t) /\ TurnedBars(s0, t0, n) /\ TurnedBars(s, t, m)
    BY <1>1, <1>2
  <1>4. Period \in Positive /\ Period <= n /\ Period <= m
    BY <1>1, <1>2, Periods DEF Enough, Positive
  <1>5. PICK z \in Int, height \in Int : z = 0 /\ height = Top
    BY Periods
  <1>6. PICK c \in Rationals : c = Last(Closes(s)) /\ Last(Closes(t)) = Flip(height, c)
    BY <1>1, <1>5
  <1>7. PICK q \in Rationals : q = Sma(Closes(s), Period) /\ Sma(Closes(t), Period) = Flip(height, q)
    <2>1. PICK k, l : k = Closes(s) /\ l = Closes(t) /\ Flipped(height, k, l, m)
      BY <1>1, <1>2, <1>5
    <2>2. Sma(k, Period) \in Rationals /\ Sma(l, Period) = Flip(height, Sma(k, Period))
      BY <1>2, <1>4, <2>1, SmaFlips
    <2>. QED
      BY <2>1, <2>2
  <1>8. PICK g \in Int :
            /\ g = Choose(q \prec c, c \prec q)
            /\ Choose(Flip(height, q) \prec Flip(height, c), Flip(height, c) \prec Flip(height, q)) = -g
    <2>1. /\ (Flip(height, q) \prec Flip(height, c)) = (c \prec q)
          /\ (Flip(height, c) \prec Flip(height, q)) = (q \prec c)
          /\ ~(c \prec q /\ q \prec c)
      BY FlipMirrors, MirrorOrder, OrderIs
    <2>. QED
      BY <2>1 DEF Choose
  <1>9. VolumeSignals(t).cmf_breakout = -VolumeSignals(s).cmf_breakout
    <2>. DEFINE money(b) == Crosses(Cmf(Front(b), Period), Cmf(b, Period), Whole(0), Whole(0))
                with(signal, price, close) ==
                    IF signal = Choose(price \prec close, close \prec price) THEN signal ELSE 0
    <2>1. \A b : VolumeSignals(b).cmf_breakout = with(money(b), Sma(Closes(b), Period), Last(Closes(b)))
      BY DEF VolumeSignals
    <2>2. PICK a \in Rationals : a = Cmf(s, Period) /\ Cmf(t, Period) = Flip(z, a)
      BY <1>2, <1>3, <1>4, <1>5, CmfFlips
    <2>3. PICK a0 \in Rationals : a0 = Cmf(s0, Period) /\ Cmf(t0, Period) = Flip(z, a0)
      BY <1>1, <1>3, <1>4, <1>5, CmfFlips
    <2>4. PICK w \in Rationals : w = Whole(0) /\ Flip(z, w) = w
      BY <1>5, NothingFlips
    <2>5. Crosses(Flip(z, a0), Flip(z, a), Flip(z, w), Flip(z, w)) = -Crosses(a0, a, w, w)
      BY FlipCrosses
    <2>6. money(s) = Crosses(a0, a, w, w) /\ money(t) = Crosses(Flip(z, a0), Flip(z, a), w, w)
      BY <1>3, <2>2, <2>3, <2>4
    <2>7. PICK e \in Int : e = money(s) /\ money(t) = -e
      BY <2>4, <2>5, <2>6 DEF Crosses, Choose
    <2>. HIDE DEF money
    <2>8. VolumeSignals(s).cmf_breakout = IF e = g THEN e ELSE 0
      BY <1>6, <1>7, <1>8, <2>1, <2>7
    <2>9. VolumeSignals(t).cmf_breakout = IF -e = -g THEN -e ELSE 0
      BY <1>6, <1>7, <1>8, <2>1, <2>7
    <2>. QED
      BY <2>8, <2>9
  <1>10. VolumeSignals(t).obv_confirmation = -VolumeSignals(s).obv_confirmation
    <2>. DEFINE recent(v) == [i \in 1..Period |-> Whole(Recent(v, Period)[i])]
                volume(v) == Crosses(Whole(Last(Front(v))), Whole(Last(v)), Mean(recent(Front(v))), Mean(recent(v)))
                with(signal, price, close) ==
                    IF signal = Choose(price \prec close, close \prec price) THEN signal ELSE 0
    <2>1. \A b : VolumeSignals(b).obv_confirmation = with(volume(Obv(b)), Sma(Closes(b), Period), Last(Closes(b)))
      BY DEF VolumeSignals
    <2>2. PICK u \in Int : Opposed(u, Obv(s), Obv(t), m)
      BY <1>3, ObvFlips
    <2>3. PICK v, w : v = Obv(s) /\ w = Obv(t) /\ Opposed(u, v, w, m)
      BY <2>2
    <2>4. PICK v0, w0 : v0 = Front(v) /\ w0 = Front(w) /\ Opposed(u, v0, w0, n)
      BY <1>2, <2>3, OpposedEnds
    <2>5. PICK a \in Int : a = Last(v) /\ Last(w) = u - a
      <3>1. Opposed(u, v, w, m)
        BY <2>3
      <3>2. Last(v) \in Int /\ Last(w) = u - Last(v)
        BY <3>1, OpposedEnds
      <3>. QED
        BY <3>2
    <2>6. PICK a0 \in Int : a0 = Last(v0) /\ Last(w0) = u - a0
      BY <1>1, <2>4, OpposedEnds
    <2>7. PICK x, y, x0, y0 : /\ x = recent(v) /\ y = recent(w) /\ x0 = recent(v0) /\ y0 = recent(w0)
                              /\ Wholes(x, Recent(v, Period), Period) /\ Wholes(y, Recent(w, Period), Period)
                              /\ Wholes(x0, Recent(v0, Period), Period) /\ Wholes(y0, Recent(w0, Period), Period)
      BY DEF Wholes
    <2>8. PICK b \in Rationals : b = Mean(x) /\ Mean(y) = Flip(u, b)
      <3>1. Opposed(u, v, w, m) /\ Wholes(x, Recent(v, Period), Period) /\ Wholes(y, Recent(w, Period), Period)
        BY <2>3, <2>7
      <3>2. Mean(x) \in Rationals /\ Mean(y) = Flip(u, Mean(x))
        BY <1>4, <3>1, OpposedMean
      <3>. QED
        BY <3>2
    <2>9. PICK b0 \in Rationals : b0 = Mean(x0) /\ Mean(y0) = Flip(u, b0)
      <3>1. /\ Opposed(u, v0, w0, n) /\ n \in Positive
            /\ Wholes(x0, Recent(v0, Period), Period) /\ Wholes(y0, Recent(w0, Period), Period)
        BY <1>1, <2>4, <2>7
      <3>2. Mean(x0) \in Rationals /\ Mean(y0) = Flip(u, Mean(x0))
        BY <1>4, <3>1, OpposedMean
      <3>. QED
        BY <3>2
    <2>10. /\ Whole(a) \in Rationals /\ Flip(u, Whole(a)) = Whole(u - a)
           /\ Whole(a0) \in Rationals /\ Flip(u, Whole(a0)) = Whole(u - a0)
      BY Wholly
    <2>11. Crosses(Flip(u, Whole(a0)), Flip(u, Whole(a)), Flip(u, b0), Flip(u, b)) = -Crosses(Whole(a0), Whole(a), b0, b)
      BY <2>10, FlipCrosses
    <2>. HIDE DEF recent
    <2>12. volume(v) = Crosses(Whole(a0), Whole(a), b0, b)
      BY <2>4, <2>5, <2>6, <2>7, <2>8, <2>9
    <2>13. volume(w) = Crosses(Flip(u, Whole(a0)), Flip(u, Whole(a)), Flip(u, b0), Flip(u, b))
      BY <2>4, <2>5, <2>6, <2>7, <2>8, <2>9, <2>10
    <2>14. PICK e \in Int : e = volume(v) /\ volume(w) = -e
      BY <2>11, <2>12, <2>13 DEF Crosses, Choose
    <2>. HIDE DEF volume
    <2>15. VolumeSignals(s).obv_confirmation = IF e = g THEN e ELSE 0
      BY <1>6, <1>7, <1>8, <2>1, <2>3, <2>14
    <2>16. VolumeSignals(t).obv_confirmation = IF -e = -g THEN -e ELSE 0
      BY <1>6, <1>7, <1>8, <2>1, <2>3, <2>14
    <2>. QED
      BY <2>15, <2>16
  <1>11. \A name \in DOMAIN VolumeSignals(t) \ Lopsided : VolumeSignals(t)[name] = -VolumeSignals(s)[name]
    <2>. SUFFICES ASSUME NEW name \in DOMAIN VolumeSignals(t) \ Lopsided
                  PROVE  VolumeSignals(t)[name] = -VolumeSignals(s)[name]
      OBVIOUS
    <2>1. name \in {"obv_confirmation", "cmf_breakout"}
      BY DEF VolumeSignals, Lopsided
    <2>. QED
      BY <1>9, <1>10, <2>1
  <1>. QED
    BY <1>11 DEF Opposite

-----------------------------------------------------------------------------
(* Squares with their sign, and what is taken away from nothing. *)
Signed(x) == IF Whole(0) \preceq x THEN x ** x ELSE Whole(0) -- x ** x

(* Products commute. *)
LEMMA TimesCommutes ==
    ASSUME NEW a \in Rationals, NEW b \in Rationals
    PROVE  a ** b = b ** a
  <1>1. a[1] \in Int /\ a[2] \in Positive /\ b[1] \in Int /\ b[2] \in Positive
    BY DEF Rationals
  <1>2. PICK f : f = Fraction(a[1], b[2])
    OBVIOUS
  <1>3. PICK g : g = Fraction(b[1], a[2])
    OBVIOUS
  <1>4. f \in Rationals /\ g \in Rationals
    BY <1>1, <1>2, <1>3, FractionIsProper DEF Proper
  <1>5. f[1] \in Int /\ f[2] \in Int /\ g[1] \in Int /\ g[2] \in Int
    BY <1>4 DEF Rationals, Positive
  <1>6. a ** b = <<f[1] * g[1], f[2] * g[2]>> /\ b ** a = <<g[1] * f[1], g[2] * f[2]>>
    BY <1>2, <1>3 DEF **
  <1>7. f[1] * g[1] = g[1] * f[1] /\ f[2] * g[2] = g[2] * f[2]
    BY <1>5
  <1>. QED
    BY <1>6, <1>7

(* A square does not know the sign. *)
LEMMA SquareIs ==
    ASSUME NEW a \in Rationals
    PROVE  /\ a ** a \in Rationals /\ Flip(0, a) ** Flip(0, a) = a ** a
           /\ a[1] = 0 => (a ** a)[1] = 0
  <1>1. PICK b \in Rationals : b = a ** a
    BY TimesIs
  <1>2. PICK c \in Rationals : c = Flip(0, a)
    BY MinusIs
  <1>3. c ** a = Flip(0, b)
    BY <1>1, <1>2, TimesIs
  <1>4. a ** c = Flip(0, b)
    BY <1>3, TimesCommutes
  <1>5. c ** c = Flip(0, Flip(0, b))
    <2>1. c ** c = Flip(0, a ** c)
      BY <1>2, TimesIs
    <2>. QED
      BY <1>4, <2>1
  <1>6. PICK z \in Int : z = 0
    OBVIOUS
  <1>7. Flip(z, Flip(z, b)) = b
    BY FlipTwice
  <1>8. ASSUME a[1] = 0 PROVE b[1] = 0
    <2>1. Flip(z, a) = <<-a[1], a[2]>> /\ a = <<a[1], a[2]>> /\ a[1] \in Int
      BY <1>6, FlipTwice, FlipParts
    <2>2. c = a
      BY <1>2, <1>6, <1>8, <2>1
    <2>3. b = Flip(z, b)
      BY <1>1, <1>3, <1>6, <2>2
    <2>4. b[1] \in Int /\ b[2] \in Int /\ Flip(z, b)[1] = z * b[2] - b[1]
      BY FlipParts
    <2>5. z * b[2] = 0
      BY <1>6, <2>4
    <2>. QED
      BY <2>3, <2>4, <2>5
  <1>. QED
    BY <1>1, <1>2, <1>5, <1>6, <1>7, <1>8

(* Each of two is the mirror image of the other. *)
LEMMA SwappedMirror == ASSUME NEW t \in Int, NEW x, NEW y, Mirrors(t, y, x) PROVE Mirrors(t, x, y)
  <1>1. x \in Rationals /\ y \in Rationals /\ y[1] * x[2] + x[1] * y[2] = t * (x[2] * y[2])
    BY DEF Mirrors
  <1>2. PICK a \in Int, b \in Int, c \in Int, d \in Int : a = x[1] /\ b = x[2] /\ c = y[1] /\ d = y[2]
    BY <1>1, FlipParts
  <1>3. a * d + c * b = t * (d * b)
    <2>1. c * b + a * d = t * (b * d)
      BY <1>1, <1>2
    <2>2. b * d = d * b
      OBVIOUS
    <2>. QED
      BY <2>1, <2>2
  <1>. QED
    BY <1>1, <1>2, <1>3 DEF Mirrors

(* What is taken away from nothing mirrors it. *)
LEMMA NothingMinus ==
    ASSUME NEW b \in Rationals
    PROVE  Whole(0) -- b \in Rationals /\ Mirrors(0, Whole(0) -- b, b) /\ Mirrors(0, b, Whole(0) -- b)
  <1>1. PICK x \in Int, d \in Positive : b = <<x, d>> /\ b[1] = x /\ b[2] = d
    BY DEF Rationals
  <1>2. d \in Int
    BY DEF Positive
  <1>3. PICK y \in Int : y = -x
    OBVIOUS
  <1>4. Fraction(1, d) = <<1, d>>
    BY FractionOfOne
  <1>5. Whole(0) -- b = Fraction(0 * d + y * 1, 1 * d)
    BY <1>1, <1>3, <1>4 DEF --, ++, Whole
  <1>6. 0 * d + y * 1 = y /\ 1 * d = d
    BY <1>2
  <1>7. Whole(0) -- b = Fraction(y, d)
    BY <1>5, <1>6
  <1>8. PICK p \in Int, q \in Positive, g \in Positive : Fraction(y, d) = <<p, q>> /\ y = g * p /\ d = g * q
    BY FractionIs
  <1>0. PICK c : c = Whole(0) -- b /\ c = <<p, q>> /\ c[1] = p /\ c[2] = q
    BY <1>7, <1>8
  <1>10. p * d + x * q = 0
    <2>1. q \in Int /\ g \in Int
      BY DEF Positive
    <2>2. p * (g * q) + (-(g * p)) * q = 0
      BY <2>1
    <2>3. x = -(g * p)
      BY <1>3, <1>8, <2>1
    <2>. QED
      BY <1>8, <2>2, <2>3
  <1>11. c \in Rationals
    BY <1>0 DEF Rationals
  <1>12. 0 * (d * q) = 0
    BY <1>2 DEF Positive
  <1>13. Mirrors(0, c, b)
    BY <1>1, <1>0, <1>10, <1>11, <1>12 DEF Mirrors
  <1>14. PICK z \in Int : z = 0
    OBVIOUS
  <1>15. Mirrors(z, b, c)
    BY <1>13, <1>14, SwappedMirror
  <1>. QED
    BY <1>0, <1>11, <1>13, <1>14, <1>15

(* The sign of a fraction is that of its numerator. *)
LEMMA SignIs ==
    ASSUME NEW a \in Rationals
    PROVE  (Whole(0) \preceq a) = (0 <= a[1])
  <1>1. Whole(0) \in Rationals /\ Whole(0)[1] = 0 /\ Whole(0)[2] = 1
    BY DEF Whole, Rationals, Positive
  <1>2. (Whole(0) \preceq a) = (0 * a[2] <= a[1] * 1)
    BY <1>1, UpToIs DEF AtMost
  <1>3. a[1] \in Int /\ a[2] \in Int
    BY FlipParts
  <1>4. 0 * a[2] = 0 /\ a[1] * 1 = a[1]
    BY <1>3
  <1>. QED
    BY <1>2, <1>4

(* The square with its sign changes its sign. *)
LEMMA SignedFlips ==
    ASSUME NEW a \in Rationals
    PROVE  Signed(a) \in Rationals /\ Mirrors(0, Signed(Flip(0, a)), Signed(a))
  <1>1. PICK b \in Rationals : b = a ** a /\ Flip(0, a) ** Flip(0, a) = b /\ (a[1] = 0 => b[1] = 0)
    BY SquareIs
  <1>2. PICK c \in Rationals : c = Flip(0, a) /\ c ** c = b
    BY <1>1, MinusIs
  <1>3. a[1] \in Int /\ c[1] = -a[1]
    <2>1. a[1] \in Int /\ c = <<-a[1], a[2]>>
      BY <1>2, FlipParts, FlipTwice
    <2>. QED
      BY <2>1
  <1>4. PICK e \in Rationals : e = Whole(0) -- b /\ Mirrors(0, e, b) /\ Mirrors(0, b, e)
    BY NothingMinus
  <1>5. (Whole(0) \preceq a) = (0 <= a[1]) /\ (Whole(0) \preceq c) = (0 <= c[1])
    BY SignIs
  <1>6. /\ (Whole(0) \preceq a) => Signed(a) = b
        /\ ~(Whole(0) \preceq a) => Signed(a) = e
        /\ (Whole(0) \preceq c) => Signed(c) = b
        /\ ~(Whole(0) \preceq c) => Signed(c) = e
    BY <1>1, <1>2, <1>4 DEF Signed
  <1>7. CASE a[1] = 0
    <2>1. Signed(a) = b /\ Signed(c) = b
      <3>1. (0 <= a[1]) /\ (0 <= c[1])
        BY <1>3, <1>7
      <3>2. (Whole(0) \preceq a) /\ (Whole(0) \preceq c)
        BY <1>5, <3>1
      <3>. QED
        BY <1>6, <3>2
    <2>2. PICK d \in Int : d = b[2] /\ b[1] = 0
      BY <1>1, <1>7, FlipParts
    <2>3. 0 * d + 0 * d = 0 * (d * d)
      OBVIOUS
    <2>4. Mirrors(0, b, b)
      BY <2>2, <2>3 DEF Mirrors
    <2>. QED
      BY <1>2, <2>1, <2>4
  <1>8. CASE a[1] > 0
    <2>1. Signed(a) = b /\ Signed(c) = e
      <3>1. (0 <= a[1]) /\ ~(0 <= c[1])
        BY <1>3, <1>8
      <3>2. (Whole(0) \preceq a) /\ ~(Whole(0) \preceq c)
        BY <1>5, <3>1
      <3>. QED
        BY <1>6, <3>2
    <2>. QED
      BY <1>2, <1>4, <2>1
  <1>9. CASE a[1] < 0
    <2>1. Signed(a) = e /\ Signed(c) = b
      <3>1. ~(0 <= a[1]) /\ (0 <= c[1])
        BY <1>3, <1>9
      <3>2. ~(Whole(0) \preceq a) /\ (Whole(0) \preceq c)
        BY <1>5, <3>1
      <3>. QED
        BY <1>6, <3>2
    <2>. QED
      BY <1>2, <1>4, <2>1
  <1>. QED
    BY <1>3, <1>7, <1>8, <1>9

-----------------------------------------------------------------------------
(* The band is as wide, and the price is as far from its middle on the other side. *)
LEMMA BollingerFlips ==
    ASSUME NEW t \in Int, NEW x, NEW y, NEW n \in Nat, Flipped(t, x, y, n),
           NEW p \in Positive, p <= n, NEW d \in Int, NEW a, NEW b, a = Bollinger(x, p, d), b = Bollinger(y, p, d)
    PROVE  a.width \in Rationals /\ b.width = a.width /\ Mirrors(0, b.distance, a.distance)
  <1>. DEFINE squares(part, mean) == [i \in DOMAIN part |-> Signed(Distance(part[i], mean))]
  <1>1. \A v : /\ Bollinger(v, p, d).width = Whole(d * d) ** Mean(squares(Recent(v, p), Sma(v, p)))
               /\ Bollinger(v, p, d).distance = Signed(Last(Recent(v, p)) -- Sma(v, p))
    BY DEF Bollinger, Signed
  <1>2. PICK v, w : v = Recent(x, p) /\ w = Recent(y, p) /\ Flipped(t, v, w, p)
    BY FlippedPart
  <1>3. PICK m \in Rationals : m = Sma(x, p) /\ Sma(y, p) = Flip(t, m)
    BY SmaFlips
  <1>4. p \in Nat /\ DOMAIN v = 1..p /\ DOMAIN w = 1..p /\ \A i \in 1..p : v[i] \in Rationals /\ w[i] = Flip(t, v[i])
    BY <1>2 DEF Flipped, Positive
  <1>5. PICK u, r : u = squares(v, m) /\ r = squares(w, Flip(t, m))
    OBVIOUS
  <1>6. Made(u, p) /\ \A i \in 1..p : u[i] = Signed(Distance(v[i], m))
    BY <1>4, <1>5 DEF Made
  <1>7. Made(r, p) /\ \A i \in 1..p : r[i] = Signed(Distance(w[i], Flip(t, m)))
    BY <1>4, <1>5 DEF Made
  <1>8. \A i \in 1..p : u[i] \in Rationals /\ r[i] = u[i]
    <2>. SUFFICES ASSUME NEW i \in 1..p PROVE u[i] \in Rationals /\ r[i] = u[i]
      OBVIOUS
    <2>1. PICK f \in Rationals : f = v[i] /\ w[i] = Flip(t, f)
      BY <1>4
    <2>2. Distance(f, m) \in Rationals /\ Distance(Flip(t, f), Flip(t, m)) = Distance(f, m)
      BY DistanceIs DEF Proper
    <2>3. Signed(Distance(f, m)) \in Rationals
      BY <2>2, SignedFlips
    <2>. QED
      BY <1>6, <1>7, <2>1, <2>2, <2>3
  <1>0. u = r
    <2>1. u = [i \in 1..p |-> u[i]] /\ r = [i \in 1..p |-> r[i]]
      BY <1>6, <1>7 DEF Made
    <2>2. [i \in 1..p |-> u[i]] = [i \in 1..p |-> r[i]]
      BY <1>8
    <2>. QED
      BY <2>1, <2>2
  <1>10. Mean(u) \in Rationals
    <2>1. u \in Seq(Rationals) /\ Len(u) = p
      <3>1. u \in [1..p -> Rationals]
        BY <1>6, <1>8 DEF Made
      <3>. QED
        BY <1>4, <3>1
    <2>2. PICK g : Flipped(t, u, g, p)
      BY <1>4, <2>1, FlippedSelf
    <2>. QED
      BY <2>2, MeanFlips
  <1>. HIDE DEF squares
  <1>11. a.width = Whole(d * d) ** Mean(u) /\ b.width = Whole(d * d) ** Mean(u)
    BY <1>1, <1>2, <1>3, <1>5, <1>0
  <1>12. a.width \in Rationals
    <2>1. PICK k \in Int : k = d * d
      OBVIOUS
    <2>2. Whole(k) \in Rationals
      BY Wholly
    <2>3. Whole(k) ** Mean(u) \in Rationals
      BY <1>10, <2>2, TimesIs
    <2>. QED
      BY <1>11, <2>1, <2>3
  <1>13. PICK l \in Rationals : l = Last(v) /\ Last(w) = Flip(t, l)
    BY <1>2, FlippedEnds
  <1>14. PICK z \in Int : z = 0 /\ t - t = z
    OBVIOUS
  <1>15. Flip(t, l) -- Flip(t, m) = Flip(t - t, l -- m)
    BY MinusFlips
  <1>16. PICK o \in Rationals : o = l -- m /\ Flip(t, l) -- Flip(t, m) = Flip(z, o)
    BY <1>14, <1>15, MinusIs
  <1>17. a.distance = Signed(o) /\ b.distance = Signed(Flip(z, o))
    BY <1>1, <1>2, <1>3, <1>13, <1>16
  <1>18. Mirrors(0, Signed(Flip(0, o)), Signed(o))
    BY SignedFlips
  <1>. QED
    BY <1>11, <1>12, <1>14, <1>17, <1>18

-----------------------------------------------------------------------------
(* The typical price is turned, its distance from the mean is not. *)
LEMMA TypicalFlips ==
    ASSUME NEW s, NEW t, NEW n \in Positive, TurnedBars(s, t, n), NEW i \in 1..n
    PROVE  TypicalPrice(s[i]) \in Rationals /\ TypicalPrice(t[i]) = Flip(Top, TypicalPrice(s[i]))
  <1>1. PICK height \in Int : height = Top
    BY Periods
  <1>2. PICK c \in Int, l \in Int, h \in Int : c = s[i].close /\ l = s[i].low /\ h = s[i].high
    BY TurnedPrices
  <1>3. t[i].close = height - c /\ t[i].low = height - h /\ t[i].high = height - l
    BY <1>1, <1>2, TurnedPrices
  <1>4. PICK sum \in Int, other \in Int : sum = h + l + c /\ other = (height - l) + (height - h) + (height - c)
    <2>1. h + l + c \in Int /\ (height - l) + (height - h) + (height - c) \in Int
      OBVIOUS
    <2>. QED
      BY <2>1
  <1>5. other = height * 3 - sum
    BY <1>4
  <1>6. TypicalPrice(s[i]) = <<sum, 3>> /\ TypicalPrice(t[i]) = <<other, 3>>
    BY <1>2, <1>3, <1>4 DEF TypicalPrice
  <1>7. <<sum, 3>> \in Rationals
    BY DEF Rationals, Positive
  <1>8. Flip(height, <<sum, 3>>) = <<other, 3>>
    BY <1>5 DEF Flip
  <1>. QED
    BY <1>1, <1>6, <1>7, <1>8

(* The channel index of reflected bars is the opposite. *)
LEMMA CciFlips ==
    ASSUME NEW s, NEW t, NEW n \in Nat, TurnedBars(s, t, n), NEW p \in Positive, p <= n
    PROVE  Cci(s, p) \in Rationals /\ Cci(t, p) = Flip(0, Cci(s, p))
  <1>. DEFINE prices(part) == [i \in 1..p |-> TypicalPrice(part[i])]
              far(w, mean) == [i \in DOMAIN w |-> Distance(w[i], mean)]
              index(off, deviation) ==
                  IF deviation = Whole(0) THEN Whole(0) ELSE off // (<<3, 200>> ** deviation)
              from(w, mean) == index(Last(w) -- mean, Mean(far(w, mean)))
  <1>1. \A r : Cci(r, p) = from(prices(Recent(r, p)), Mean(prices(Recent(r, p))))
    BY DEF Cci
  <1>2. PICK u, w : u = Recent(s, p) /\ w = Recent(t, p) /\ TurnedBars(u, w, p)
    BY TurnedRecent
  <1>3. PICK x, y : x = prices(u) /\ y = prices(w)
    OBVIOUS
  <1>4. p \in Nat
    BY DEF Positive
  <1>5. PICK height \in Int : height = Top
    BY Periods
  <1>6. Made(x, p) /\ Made(y, p) /\ \A i \in 1..p : x[i] = TypicalPrice(u[i]) /\ y[i] = TypicalPrice(w[i])
    BY <1>3 DEF Made
  <1>. HIDE DEF prices
  <1>7. \A i \in 1..p : x[i] \in Rationals /\ y[i] = Flip(height, x[i])
    <2>. SUFFICES ASSUME NEW i \in 1..p PROVE x[i] \in Rationals /\ y[i] = Flip(height, x[i])
      OBVIOUS
    <2>1. TurnedBars(u, w, p)
      BY <1>2
    <2>2. TypicalPrice(u[i]) \in Rationals /\ TypicalPrice(w[i]) = Flip(Top, TypicalPrice(u[i]))
      BY <2>1, TypicalFlips
    <2>. QED
      BY <1>5, <1>6, <2>2
  <1>8. Flipped(height, x, y, p)
    BY <1>4, <1>6, <1>7, FlippedMade
  <1>9. PICK m \in Rationals : m = Mean(x) /\ Mean(y) = Flip(height, m)
    BY <1>8, MeanFlips
  <1>10. PICK l \in Rationals : l = Last(x) /\ Last(y) = Flip(height, l)
    BY <1>8, FlippedEnds
  <1>11. DOMAIN x = 1..p /\ DOMAIN y = 1..p
    BY <1>6 DEF Made
  <1>12. PICK a, b : a = far(x, m) /\ b = far(y, Flip(height, m))
    OBVIOUS
  <1>13. Made(a, p) /\ Made(b, p) /\ \A i \in 1..p : a[i] = Distance(x[i], m) /\ b[i] = Distance(y[i], Flip(height, m))
    BY <1>11, <1>12 DEF Made
  <1>. HIDE DEF far
  <1>14. \A i \in 1..p : a[i] \in Rationals /\ b[i] = a[i]
    <2>. SUFFICES ASSUME NEW i \in 1..p PROVE a[i] \in Rationals /\ b[i] = a[i]
      OBVIOUS
    <2>1. PICK f \in Rationals : f = x[i] /\ y[i] = Flip(height, f)
      BY <1>7
    <2>2. Distance(f, m) \in Rationals /\ Distance(Flip(height, f), Flip(height, m)) = Distance(f, m)
      BY DistanceIs DEF Proper
    <2>. QED
      BY <1>13, <2>1, <2>2
  <1>15. a = b
    <2>1. a = [i \in 1..p |-> a[i]] /\ b = [i \in 1..p |-> b[i]]
      BY <1>13 DEF Made
    <2>2. [i \in 1..p |-> a[i]] = [i \in 1..p |-> b[i]]
      BY <1>14
    <2>. QED
      BY <2>1, <2>2
  <1>16. PICK deviation : deviation = Mean(a) /\ Proper(deviation)
    <2>1. a \in Seq(Rationals) /\ Len(a) = p
      <3>1. a \in [1..p -> Rationals]
        BY <1>13, <1>14 DEF Made
      <3>. QED
        BY <1>4, <3>1
    <2>2. PICK g : Flipped(height, a, g, p)
      BY <1>4, <2>1, FlippedSelf
    <2>. QED
      BY <2>2, MeanFlips
  <1>17. PICK z \in Int : z = 0 /\ height - height = z
    OBVIOUS
  <1>18. PICK o \in Rationals : o = l -- m /\ Flip(height, l) -- Flip(height, m) = Flip(z, o)
    <2>1. Flip(height, l) -- Flip(height, m) = Flip(height - height, l -- m)
      BY MinusFlips
    <2>. QED
      BY <1>17, <2>1, MinusIs
  <1>19. Cci(s, p) = index(o, deviation) /\ Cci(t, p) = index(Flip(z, o), deviation)
    <2>. HIDE DEF index
    <2>. QED
      BY <1>1, <1>2, <1>3, <1>9, <1>10, <1>12, <1>15, <1>16, <1>18
  <1>20. CASE deviation = Whole(0)
    BY <1>17, <1>19, <1>20, NothingFlips
  <1>21. CASE deviation # Whole(0)
    <2>1. deviation \in Rationals /\ deviation[1] # 0
      BY <1>16, <1>21 DEF Proper, Whole
    <2>2. PICK part \in Rationals : part = <<3, 200>> /\ part[1] # 0
      <3>1. <<3, 200>> \in Rationals /\ <<3, 200>>[1] # 0
        BY DEF Rationals, Positive
      <3>. QED
        BY <3>1
    <2>3. part ** deviation \in Rationals /\ (part ** deviation)[1] # 0
      BY <2>1, <2>2, TimesIs
    <2>4. PICK scale \in Rationals : scale = part ** deviation /\ scale[1] # 0
      BY <2>3
    <2>5. o // scale \in Rationals /\ Flip(0, o) // scale = Flip(0, o // scale)
      BY <2>4, OverIs
    <2>. QED
      BY <1>17, <1>19, <1>21, <2>2, <2>4, <2>5
  <1>. QED
    BY <1>20, <1>21

(* BollingerMeanReversion, CciBreakout and CciMeanReversion. *)
LEMMA BandMirrors ==
    ASSUME NEW s, NEW t, NEW n, Enough(n), TurnedBars(s, t, n + 1)
    PROVE  Opposite(Lopsided, BandSignals(t), BandSignals(s))
  <1>1. /\ Flipped(Top, Closes(s), Closes(t), n + 1) /\ Flipped(Top, Front(Closes(s)), Front(Closes(t)), n)
        /\ TurnedBars(Front(s), Front(t), n)
        /\ Closes(Front(s)) = Front(Closes(s)) /\ Closes(Front(t)) = Front(Closes(t))
        /\ n \in Nat /\ n + 1 \in Nat /\ n + 1 \in Positive /\ n \in Positive
    BY TurnedNowAndBefore DEF Enough
  <1>2. PICK m \in Positive : m = n + 1 /\ m \in Nat
    BY <1>1
  <1>3. PICK z \in Int, height \in Int : z = 0 /\ height = Top
    BY Periods
  <1>4. PICK x, y, x0, y0 : /\ x = Closes(s) /\ y = Closes(t) /\ x0 = Closes(Front(s)) /\ y0 = Closes(Front(t))
                            /\ Flipped(height, x, y, m) /\ Flipped(height, x0, y0, n)
    BY <1>1, <1>2, <1>3
  <1>5. /\ Period \in Positive /\ Period <= n /\ Period <= m /\ Slow \in Positive /\ Slow <= n /\ Slow <= m
        /\ Deviations \in Int
    BY <1>1, <1>2, Periods DEF Enough, Positive
  <1>6. BandSignals(t).bollinger_mean_reversion = -BandSignals(s).bollinger_mean_reversion
    <2>1. PICK a, b : /\ a = Bollinger(x, Slow, Deviations) /\ b = Bollinger(y, Slow, Deviations)
      OBVIOUS
    <2>2. PICK a0, b0 : /\ a0 = Bollinger(x0, Slow, Deviations) /\ b0 = Bollinger(y0, Slow, Deviations)
      OBVIOUS
    <2>3. a.width \in Rationals /\ b.width = a.width /\ Mirrors(z, b.distance, a.distance)
      BY <1>2, <1>3, <1>4, <1>5, <2>1, BollingerFlips
    <2>4. a0.width \in Rationals /\ b0.width = a0.width /\ Mirrors(z, b0.distance, a0.distance)
      BY <1>1, <1>3, <1>4, <1>5, <2>2, BollingerFlips
    <2>5. PICK w, d, e : w = a.width /\ d = a.distance /\ e = b.distance
      OBVIOUS
    <2>6. PICK w0, d0, e0 : w0 = a0.width /\ d0 = a0.distance /\ e0 = b0.distance
      OBVIOUS
    <2>7. PICK none : none = Whole(0) /\ Mirrors(z, none, none)
      BY <1>3, NothingFlips
    <2>8. PICK k : k = none -- w /\ Mirrors(z, k, w) /\ Mirrors(z, w, k)
      BY <1>3, <2>3, <2>5, <2>7, NothingMinus
    <2>9. PICK k0 : k0 = none -- w0 /\ Mirrors(z, k0, w0) /\ Mirrors(z, w0, k0)
      BY <1>3, <2>4, <2>6, <2>7, NothingMinus
    <2>10. Mirrors(z, e, d) /\ Mirrors(z, e0, d0)
      BY <2>3, <2>4, <2>5, <2>6
    <2>11. /\ Rises(e0, e, k0, k) = Falls(d0, d, w0, w) /\ Falls(d0, d, w0, w) \in BOOLEAN
      <3>1. Mirrors(z, e0, d0) /\ Mirrors(z, k0, w0) /\ Mirrors(z, e, d) /\ Mirrors(z, k, w)
        BY <2>8, <2>9, <2>10
      <3>. QED
        BY <3>1, RisesAndFalls
    <2>12. /\ Falls(e0, e, w0, w) = Rises(d0, d, k0, k) /\ Rises(d0, d, k0, k) \in BOOLEAN
      <3>1. Mirrors(z, e0, d0) /\ Mirrors(z, w0, k0) /\ Mirrors(z, e, d) /\ Mirrors(z, w, k)
        BY <2>8, <2>9, <2>10
      <3>. QED
        BY <3>1, RisesAndFalls
    <2>13. (e \prec none) = (none \prec d) /\ (none \prec e) = (d \prec none)
      BY <2>7, <2>10, MirrorOrder
    <2>14. ~(d \prec none /\ none \prec d) /\ (d \prec none) \in BOOLEAN /\ (none \prec d) \in BOOLEAN
      BY <2>7, <2>10, OrderIs DEF Mirrors
    <2>15. PICK up \in BOOLEAN, down \in BOOLEAN :
              /\ up = (Rises(d0, d, k0, k) /\ d \prec none) /\ down = (Falls(d0, d, w0, w) /\ none \prec d)
      OBVIOUS
    <2>16. (Rises(e0, e, k0, k) /\ e \prec none) = down /\ (Falls(e0, e, w0, w) /\ none \prec e) = up
      BY <2>11, <2>12, <2>13, <2>15, Zenon
    <2>17. ~(up /\ down)
      BY <2>14, <2>15
    <2>18. BandSignals(s).bollinger_mean_reversion
              = Choose(Rises(d0, d, k0, k) /\ d \prec none, Falls(d0, d, w0, w) /\ none \prec d)
      BY <1>4, <2>1, <2>2, <2>5, <2>6, <2>7, <2>8, <2>9 DEF BandSignals
    <2>19. BandSignals(t).bollinger_mean_reversion
              = Choose(Rises(e0, e, k0, k) /\ e \prec none, Falls(e0, e, w0, w) /\ none \prec e)
      BY <1>4, <2>1, <2>2, <2>3, <2>4, <2>5, <2>6, <2>7, <2>8, <2>9 DEF BandSignals
    <2>20. Choose(down, up) = -Choose(up, down)
      BY <2>17, ChooseFlips
    <2>. QED
      BY <2>15, <2>16, <2>18, <2>19, <2>20
  <1>7. PICK a \in Rationals : a = Cci(s, Period) /\ Cci(t, Period) = Flip(z, a)
    <2>1. TurnedBars(s, t, m)
      BY <1>2
    <2>2. Cci(s, Period) \in Rationals /\ Cci(t, Period) = Flip(0, Cci(s, Period))
      BY <1>2, <1>5, <2>1, CciFlips
    <2>. QED
      BY <1>3, <2>2
  <1>8. PICK a0 \in Rationals : a0 = Cci(Front(s), Period) /\ Cci(Front(t), Period) = Flip(z, a0)
    <2>1. TurnedBars(Front(s), Front(t), n)
      BY <1>1
    <2>2. Cci(Front(s), Period) \in Rationals /\ Cci(Front(t), Period) = Flip(0, Cci(Front(s), Period))
      BY <1>1, <1>5, <2>1, CciFlips
    <2>. QED
      BY <1>3, <2>2
  <1>9. PICK far, near : far = Whole(Far) /\ near = Whole(-Far) /\ Mirrors(z, near, far) /\ Mirrors(z, far, near)
    <2>1. PICK f \in Int, g \in Int : f = Far /\ g = -Far /\ z - f = g /\ z - g = f
      BY <1>3, Periods DEF Positive
    <2>2. Whole(f) \in Rationals /\ Flip(z, Whole(f)) = Whole(g) /\ Whole(g) \in Rationals /\ Flip(z, Whole(g)) = Whole(f)
      BY <2>1, Wholly
    <2>3. Mirrors(z, Flip(z, Whole(f)), Whole(f)) /\ Mirrors(z, Flip(z, Whole(g)), Whole(g))
      BY <2>2, FlipMirrors
    <2>. QED
      BY <2>1, <2>2, <2>3
  <1>10. Mirrors(z, Flip(z, a0), a0) /\ Mirrors(z, Flip(z, a), a)
    BY FlipMirrors
  <1>11. BandSignals(t).cci_breakout = -BandSignals(s).cci_breakout
    <2>1. Leaves(Flip(z, a0), Flip(z, a), far, near) = -Leaves(a0, a, far, near)
      BY <1>9, <1>10, MirrorLeaves
    <2>2. BandSignals(s).cci_breakout = Leaves(a0, a, far, near)
      BY <1>7, <1>8, <1>9 DEF BandSignals
    <2>3. BandSignals(t).cci_breakout = Leaves(Flip(z, a0), Flip(z, a), far, near)
      BY <1>7, <1>8, <1>9 DEF BandSignals
    <2>. QED
      BY <2>1, <2>2, <2>3
  <1>12. BandSignals(t).cci_mean_reversion = -BandSignals(s).cci_mean_reversion
    <2>1. Leaves(Flip(z, a0), Flip(z, a), near, far) = -Leaves(a0, a, near, far)
      BY <1>9, <1>10, MirrorLeaves
    <2>2. BandSignals(s).cci_mean_reversion = Leaves(a0, a, near, far)
      BY <1>7, <1>8, <1>9 DEF BandSignals
    <2>3. BandSignals(t).cci_mean_reversion = Leaves(Flip(z, a0), Flip(z, a), near, far)
      BY <1>7, <1>8, <1>9 DEF BandSignals
    <2>. QED
      BY <2>1, <2>2, <2>3
  <1>13. \A name \in DOMAIN BandSignals(t) \ Lopsided : BandSignals(t)[name] = -BandSignals(s)[name]
    <2>. SUFFICES ASSUME NEW name \in DOMAIN BandSignals(t) \ Lopsided
                  PROVE  BandSignals(t)[name] = -BandSignals(s)[name]
      OBVIOUS
    <2>1. name \in {"bollinger_mean_reversion", "cci_breakout", "cci_mean_reversion"}
      BY DEF BandSignals, Lopsided
    <2>. QED
      BY <1>6, <1>11, <1>12, <2>1
  <1>. QED
    BY <1>13 DEF Opposite

-----------------------------------------------------------------------------
(* The greater and the smaller of two numbers. *)
LEMMA PairIs ==
    ASSUME NEW a \in Int, NEW b \in Int
    PROVE  /\ Max({a, b}) \in Int /\ (Max({a, b}) = a \/ Max({a, b}) = b) /\ a <= Max({a, b}) /\ b <= Max({a, b})
           /\ Min({a, b}) \in Int /\ (Min({a, b}) = a \/ Min({a, b}) = b) /\ Min({a, b}) <= a /\ Min({a, b}) <= b
  <1>1. PICK S : S = {a, b}
    OBVIOUS
  <1>2. \E x \in S : \A y \in S : x >= y
    BY <1>1
  <1>3. \E x \in S : \A y \in S : x <= y
    BY <1>1
  <1>4. Max(S) \in S /\ \A y \in S : Max(S) >= y
    BY <1>2 DEF Max
  <1>5. Min(S) \in S /\ \A y \in S : Min(S) <= y
    BY <1>3 DEF Min
  <1>. QED
    BY <1>1, <1>4, <1>5

(* The true range does not see which way the market goes. *)
LEMMA TrueRangeStays ==
    ASSUME NEW s, NEW t, NEW n \in Positive, TurnedBars(s, t, n), NEW i \in 1..n
    PROVE  TrueRange(s, i) \in Nat /\ TrueRange(t, i) = TrueRange(s, i)
  <1>1. PICK height \in Int : height = Top
    BY Periods
  <1>2. PICK l \in Int, h \in Int : l = s[i].low /\ h = s[i].high /\ l <= h
    BY TurnedPrices
  <1>3. t[i].low = height - h /\ t[i].high = height - l
    BY <1>1, <1>2, TurnedPrices
  <1>4. CASE i = 1
    <2>1. TrueRange(s, i) = h - l /\ TrueRange(t, i) = (height - l) - (height - h)
      BY <1>2, <1>3, <1>4 DEF TrueRange
    <2>. QED
      BY <1>2, <2>1
  <1>5. CASE i # 1
    <2>1. i - 1 \in 1..n
      BY <1>5 DEF Positive
    <2>2. PICK c \in Int : c = s[i - 1].close /\ t[i - 1].close = Top - c
      BY <2>1, TurnedPrices
    <2>3. PICK x \in Int, y \in Int, z \in Int :
              x = height - h /\ y = height - l /\ z = height - c
      OBVIOUS
    <2>4. t[i].low = x /\ t[i].high = y /\ t[i - 1].close = z
      BY <1>1, <1>3, <2>2, <2>3
    <2>5. TrueRange(s, i) = Max({h, c}) - Min({l, c}) /\ TrueRange(t, i) = Max({y, z}) - Min({x, z})
      BY <1>2, <1>5, <2>2, <2>4 DEF TrueRange
    <2>6. PICK p \in Int, q \in Int : /\ p = Max({h, c}) /\ (p = h \/ p = c) /\ h <= p /\ c <= p
                                      /\ q = Min({l, c}) /\ (q = l \/ q = c) /\ q <= l /\ q <= c
      BY PairIs
    <2>7. PICK u \in Int, v \in Int : /\ u = Max({y, z}) /\ (u = y \/ u = z) /\ y <= u /\ z <= u
                                      /\ v = Min({x, z}) /\ (v = x \/ v = z) /\ v <= x /\ v <= z
      BY PairIs
    <2>8. u - v = p - q /\ p - q \in Nat
      BY <1>2, <2>3, <2>6, <2>7
    <2>. QED
      BY <2>5, <2>6, <2>7, <2>8
  <1>. QED
    BY <1>4, <1>5

(* The average true range is that of the reflected bars. *)
LEMMA AtrStays ==
    ASSUME NEW s, NEW t, NEW n \in Positive, TurnedBars(s, t, n), NEW p \in Positive, p <= n
    PROVE  Atr(s, p) \in NonNegatives /\ Atr(t, p) = Atr(s, p)
  <1>1. PICK x, y : x = [i \in 1..n |-> Whole(TrueRange(s, i))] /\ y = [i \in 1..n |-> Whole(TrueRange(t, i))]
    OBVIOUS
  <1>2. Atr(s, p) = Last(Wilder(x, p)) /\ Atr(t, p) = Last(Wilder(y, p))
    <2>1. DOMAIN s = 1..n /\ DOMAIN t = 1..n
      BY TurnedOne
    <2>. QED
      BY <1>1, <2>1 DEF Atr
  <1>3. \A i \in 1..n : TrueRange(s, i) \in Nat /\ TrueRange(t, i) = TrueRange(s, i)
    BY TrueRangeStays
  <1>4. x = y
    BY <1>1, <1>3
  <1>5. \A i \in 1..n : Whole(TrueRange(s, i)) \in NonNegatives
    <2>. SUFFICES ASSUME NEW i \in 1..n PROVE Whole(TrueRange(s, i)) \in NonNegatives
      OBVIOUS
    <2>1. PICK k \in Nat : k = TrueRange(s, i)
      BY <1>3
    <2>2. Whole(k) \in Rationals /\ Whole(k)[1] >= 0
      BY DEF Whole, Rationals, Positive
    <2>. QED
      BY <2>1, <2>2 DEF NonNegatives
  <1>6. n \in Nat
    BY DEF Positive
  <1>7. x \in Seq(NonNegatives) /\ Len(x) = n
    <2>1. x \in [1..n -> NonNegatives]
      BY <1>1, <1>5
    <2>. QED
      BY <1>6, <2>1
  <1>8. Last(Wilder(x, p)) \in NonNegatives
    BY <1>6, <1>7, WilderIs
  <1>. QED
    BY <1>2, <1>4, <1>8

-----------------------------------------------------------------------------
(* Above a line by as much as below it on the other side. *)
LEMMA SidesFlip ==
    ASSUME NEW a \in Rationals, NEW b \in Rationals, NEW t \in Int
    PROVE  /\ Flip(t, a) ++ b = Flip(t, a -- b) /\ Flip(t, a) -- b = Flip(t, a ++ b)
           /\ a -- b \in Rationals /\ a ++ b \in Rationals
  <1>1. PICK z \in Int : z = 0 /\ t + z = t
    OBVIOUS
  <1>2. PICK c \in Rationals : c = Flip(z, b) /\ Flip(z, c) = b
    <2>1. Flip(z, b) \in Rationals /\ Flip(z, Flip(z, b)) = b
      BY FlipParts, FlipTwice
    <2>. QED
      BY <2>1
  <1>3. a -- b = a ++ c
    BY <1>1, <1>2, MinusIs
  <1>4. PICK f \in Rationals : f = Flip(t, a)
    BY FlipParts
  <1>5. f -- b = f ++ c
    BY <1>1, <1>2, MinusIs
  <1>6. Flip(t, a) ++ Flip(z, c) = Flip(t + z, a ++ c)
    BY PlusFlips
  <1>7. Flip(t, a) ++ Flip(z, b) = Flip(t + z, a ++ b)
    BY PlusFlips
  <1>8. a -- b \in Rationals /\ a ++ b \in Rationals
    BY MinusIs, PlusIs
  <1>. QED
    BY <1>1, <1>2, <1>3, <1>4, <1>5, <1>6, <1>7, <1>8

(* Nothing is above a channel widened and below it. *)
LEMMA NotBothSides ==
    ASSUME NEW a \in Rationals, NEW b \in Rationals, a \preceq b,
           NEW r \in NonNegatives, NEW c \in Rationals
    PROVE  ~(b ++ r \prec c /\ c \prec a -- r)
  <1>1. r \in Rationals /\ r[1] >= 0
    BY DEF NonNegatives
  <1>2. PICK h \in Rationals, l \in Rationals : h = b ++ r /\ l = a -- r
    BY <1>1, PlusIs, MinusIs
  <1>3. b \preceq h /\ l \preceq a
    BY <1>1, <1>2, PlusGrows
  <1>4. l \preceq b
    BY <1>3, OrderIsTransitive
  <1>5. l \preceq h
    BY <1>3, <1>4, OrderIsTransitive
  <1>. SUFFICES ASSUME h \prec c, c \prec l PROVE FALSE
    BY <1>2
  <1>6. c \preceq l
    BY OrderIs
  <1>7. c \preceq h
    BY <1>5, <1>6, OrderIsTransitive
  <1>. QED
    BY <1>7, OrderIs

(* A price out of a channel or back across a line of its own: AtrBreakout and KeltnerBreakout. *)
LEMMA AtrBreakoutMirrors ==
    ASSUME NEW s, NEW t, NEW n, Enough(n), TurnedBars(s, t, n + 1)
    PROVE  TrendSignals(t).atr_breakout = -TrendSignals(s).atr_breakout
  <1>1. /\ TurnedBars(Front(s), Front(t), n) /\ n \in Nat /\ n + 1 \in Nat /\ n + 1 \in Positive /\ n \in Positive
        /\ Last(Closes(s)) \in Rationals /\ Last(Closes(t)) = Flip(Top, Last(Closes(s)))
    BY TurnedNowAndBefore DEF Enough
  <1>2. PICK m \in Positive : m = n + 1 /\ TurnedBars(s, t, m)
    BY <1>1
  <1>3. PICK height \in Int : height = Top
    BY Periods
  <1>4. Slow \in Positive /\ Slow <= n /\ Period \in Positive /\ Period <= m
    BY <1>1, <1>2, Periods DEF Enough, Positive
  <1>5. PICK h \in Int, l \in Int :
            /\ h = Highest(Recent(Front(s), Slow)) /\ l = Lowest(Recent(Front(s), Slow)) /\ l <= h
            /\ Highest(Recent(Front(t), Slow)) = Top - l /\ Lowest(Recent(Front(t), Slow)) = Top - h
    <2>1. TurnedBars(Front(s), Front(t), n)
      BY <1>1
    <2>. QED
      BY <1>1, <1>4, <2>1, TurnedChannel
  <1>6. PICK r : r = Atr(s, Period) /\ Atr(t, Period) = r /\ r \in NonNegatives
    <2>1. TurnedBars(s, t, m)
      BY <1>2
    <2>. QED
      BY <1>4, <2>1, AtrStays
  <1>7. PICK half : half = r // Whole(2) /\ half \in NonNegatives /\ half \in Rationals
    <2>1. PICK two \in Positive : two = 2
      BY DEF Positive
    <2>2. r // Whole(two) \in Rationals /\ (r // Whole(two))[1] >= 0
      BY <1>6, PartFlips DEF NonNegatives
    <2>. QED
      BY <2>1, <2>2 DEF NonNegatives
  <1>8. PICK c \in Rationals : c = Last(Closes(s)) /\ Last(Closes(t)) = Flip(height, c)
    BY <1>1, <1>3
  <1>9. PICK a \in Rationals, b \in Rationals : /\ a = Whole(l) /\ Flip(height, a) = Whole(height - l)
                                                /\ b = Whole(h) /\ Flip(height, b) = Whole(height - h)
    BY Wholly
  <1>10. a \preceq b
    <2>1. (a \preceq b) = (l * 1 <= h * 1)
      <3>1. a[1] = l /\ a[2] = 1 /\ b[1] = h /\ b[2] = 1
        BY <1>9 DEF Whole
      <3>2. (a \preceq b) = (a[1] * b[2] <= b[1] * a[2])
        BY UpToIs DEF AtMost
      <3>. QED
        BY <3>1, <3>2
    <2>2. l * 1 <= h * 1
      <3>1. l <= h
        BY <1>5
      <3>. QED
        BY <3>1
    <2>. QED
      BY <2>1, <2>2
  <1>11. ~(b ++ half \prec c /\ c \prec a -- half)
    BY <1>7, <1>10, NotBothSides
  <1>12. PICK u \in Rationals, d \in Rationals :
            /\ u = b ++ half /\ d = a -- half
            /\ Flip(height, a) ++ half = Flip(height, d) /\ Flip(height, b) -- half = Flip(height, u)
    BY <1>7, SidesFlip
  <1>13. (Flip(height, d) \prec Flip(height, c)) = (c \prec d) /\ (Flip(height, c) \prec Flip(height, u)) = (u \prec c)
    BY FlipMirrors, MirrorOrder
  <1>14. TrendSignals(s).atr_breakout = Choose(u \prec c, c \prec d)
    BY <1>5, <1>6, <1>7, <1>8, <1>9, <1>12 DEF TrendSignals
  <1>15. TrendSignals(t).atr_breakout = Choose(Flip(height, d) \prec Flip(height, c), Flip(height, c) \prec Flip(height, u))
    BY <1>3, <1>5, <1>6, <1>7, <1>8, <1>9, <1>12 DEF TrendSignals
  <1>16. ~(u \prec c /\ c \prec d)
    BY <1>11, <1>12
  <1>. QED
    BY <1>13, <1>14, <1>15, <1>16 DEF Choose

(* KeltnerBreakout: the band is as wide around the average reflected. *)
LEMMA KeltnerMirrors ==
    ASSUME NEW s, NEW t, NEW n, Enough(n), TurnedBars(s, t, n + 1)
    PROVE  TrendSignals(t).keltner_breakout = -TrendSignals(s).keltner_breakout
  <1>. DEFINE band(some, side) == Ema(Closes(some), Slow) ++ (Whole(side * Deviations) ** Atr(some, Period))
              line(some, k) == Ema(Closes(some), Slow) ++ (Whole(k) ** Atr(some, Period))
  <1>1. /\ TurnedBars(Front(s), Front(t), n) /\ n \in Nat /\ n + 1 \in Nat /\ n + 1 \in Positive /\ n \in Positive
        /\ Last(Closes(s)) \in Rationals /\ Last(Closes(t)) = Flip(Top, Last(Closes(s)))
        /\ Closes(Front(s)) = Front(Closes(s)) /\ Closes(Front(t)) = Front(Closes(t))
        /\ Last(Front(Closes(s))) \in Rationals /\ Last(Front(Closes(t))) = Flip(Top, Last(Front(Closes(s))))
    BY TurnedNowAndBefore DEF Enough
  <1>2. PICK m \in Positive : m = n + 1 /\ TurnedBars(s, t, m)
    BY <1>1
  <1>3. PICK height \in Int : height = Top
    BY Periods
  <1>4. Slow \in Positive /\ Period \in Positive /\ Period <= n /\ Period <= m
    BY <1>1, <1>2, Periods DEF Enough, Positive
  <1>5. ASSUME NEW v, NEW w, NEW k \in Positive, TurnedBars(v, w, k), Period <= k
        PROVE  /\ band(v, 1) \in Rationals /\ band(v, -1) \in Rationals
               /\ band(w, 1) = Flip(height, band(v, -1)) /\ band(w, -1) = Flip(height, band(v, 1))
               /\ \A c \in Rationals : ~(band(v, 1) \prec c /\ c \prec band(v, -1))
    <2>1. PICK x, y : x = Closes(v) /\ y = Closes(w) /\ Flipped(height, x, y, k)
      BY <1>3, <1>5, TurnedCloses DEF Positive
    <2>2. PICK e \in Rationals : e = Ema(x, Slow) /\ Ema(y, Slow) = Flip(height, e)
      BY <1>4, <2>1, EmaFlips
    <2>3. PICK r : r = Atr(v, Period) /\ Atr(w, Period) = r /\ r \in NonNegatives
      BY <1>4, <1>5, AtrStays
    <2>4. PICK d \in Nat, o \in Int, z \in Int : z = 0 /\ d = 1 * Deviations /\ o = (-1) * Deviations /\ z - d = o
      <3>1. PICK d \in Nat : d = Deviations
        BY Periods DEF Positive
      <3>2. 1 * d = d /\ (-1) * d \in Int /\ 0 - d = (-1) * d
        OBVIOUS
      <3>. QED
        BY <3>1, <3>2
    <2>5. Whole(d) \in Rationals /\ Whole(d)[1] >= 0 /\ Flip(z, Whole(d)) = Whole(o)
      BY <2>4, Wholly DEF Whole
    <2>6. PICK a : a = Whole(d) ** r /\ a \in NonNegatives /\ a \in Rationals /\ Whole(o) ** r = Flip(z, a)
      <3>1. r \in Rationals /\ r[1] >= 0
        BY <2>3 DEF NonNegatives
      <3>2. PICK f \in Rationals : f = Whole(d) /\ f[1] >= 0 /\ Flip(z, f) = Whole(o)
        BY <2>5
      <3>3. f ** r \in Rationals /\ (f ** r)[1] >= 0 /\ Flip(0, f) ** r = Flip(0, f ** r)
        BY <3>1, <3>2, TimesIs
      <3>. QED
        BY <2>4, <3>2, <3>3 DEF NonNegatives
    <2>7. e ++ Flip(z, a) = e -- a /\ Flip(height, e) ++ Flip(z, a) = Flip(height, e) -- a
      <3>1. Flip(height, e) \in Rationals
        BY FlipParts
      <3>. QED
        BY <2>4, <2>6, <3>1, MinusIs
    <2>8. line(v, d) = e ++ a /\ line(v, o) = e -- a /\ line(w, d) = Flip(height, e) ++ a /\ line(w, o) = Flip(height, e) -- a
      BY <2>1, <2>2, <2>3, <2>6, <2>7
    <2>9. \A b : band(b, 1) = line(b, d) /\ band(b, -1) = line(b, o)
      <3>1. \A b : band(b, 1) = line(b, 1 * Deviations) /\ band(b, -1) = line(b, (-1) * Deviations)
        OBVIOUS
      <3>. HIDE DEF band, line
      <3>. QED
        BY <2>4, <3>1
    <2>10. /\ Flip(height, e) ++ a = Flip(height, e -- a) /\ Flip(height, e) -- a = Flip(height, e ++ a)
           /\ e -- a \in Rationals /\ e ++ a \in Rationals
      BY <2>6, SidesFlip
    <2>11. e \preceq e
      BY OrderIs
    <2>12. \A c \in Rationals : ~(e ++ a \prec c /\ c \prec e -- a)
      BY <2>6, <2>11, NotBothSides
    <2>. HIDE DEF band, line
    <2>. QED
      BY <2>8, <2>9, <2>10, <2>12
  <1>6. \A b : TrendSignals(b).keltner_breakout
                  = Choose(Rises(Last(Closes(Front(b))), Last(Closes(b)), band(Front(b), 1), band(b, 1)),
                           Falls(Last(Closes(Front(b))), Last(Closes(b)), band(Front(b), -1), band(b, -1)))
    BY DEF TrendSignals
  <1>. HIDE DEF band, line
  <1>7. PICK h \in Rationals, l \in Rationals :
            /\ h = band(s, 1) /\ l = band(s, -1) /\ band(t, 1) = Flip(height, l) /\ band(t, -1) = Flip(height, h)
            /\ \A c \in Rationals : ~(h \prec c /\ c \prec l)
    BY <1>2, <1>4, <1>5
  <1>8. PICK h0 \in Rationals, l0 \in Rationals :
            /\ h0 = band(Front(s), 1) /\ l0 = band(Front(s), -1)
            /\ band(Front(t), 1) = Flip(height, l0) /\ band(Front(t), -1) = Flip(height, h0)
    BY <1>1, <1>4, <1>5
  <1>9. PICK c \in Rationals, c0 \in Rationals :
            /\ c = Last(Closes(s)) /\ Last(Closes(t)) = Flip(height, c)
            /\ c0 = Last(Closes(Front(s))) /\ Last(Closes(Front(t))) = Flip(height, c0)
    BY <1>1, <1>3
  <1>10. /\ Rises(Flip(height, c0), Flip(height, c), Flip(height, l0), Flip(height, l)) = Falls(c0, c, l0, l)
         /\ Falls(c0, c, l0, l) \in BOOLEAN
    <2>1. /\ Mirrors(height, Flip(height, c0), c0) /\ Mirrors(height, Flip(height, c), c)
          /\ Mirrors(height, Flip(height, l0), l0) /\ Mirrors(height, Flip(height, l), l)
      BY FlipMirrors
    <2>. QED
      BY <2>1, RisesAndFalls
  <1>11. /\ Falls(Flip(height, c0), Flip(height, c), Flip(height, h0), Flip(height, h)) = Rises(c0, c, h0, h)
         /\ Rises(c0, c, h0, h) \in BOOLEAN
    <2>1. /\ Mirrors(height, Flip(height, c0), c0) /\ Mirrors(height, Flip(height, c), c)
          /\ Mirrors(height, Flip(height, h0), h0) /\ Mirrors(height, Flip(height, h), h)
      BY FlipMirrors
    <2>. QED
      BY <2>1, RisesAndFalls
  <1>12. ~(Rises(c0, c, h0, h) /\ Falls(c0, c, l0, l))
    BY <1>7 DEF Rises, Falls
  <1>13. PICK up \in BOOLEAN, down \in BOOLEAN : up = Rises(c0, c, h0, h) /\ down = Falls(c0, c, l0, l)
    BY <1>10, <1>11
  <1>14. TrendSignals(s).keltner_breakout = Choose(up, down)
    BY <1>6, <1>7, <1>8, <1>9, <1>13
  <1>15. TrendSignals(t).keltner_breakout = Choose(down, up)
    BY <1>6, <1>7, <1>8, <1>9, <1>10, <1>11, <1>13
  <1>. QED
    BY <1>12, <1>13, <1>14, <1>15, ChooseFlips

-----------------------------------------------------------------------------
(* The middle of some bars is turned; the cloud is, in value: two lines on the same price
   need not be the same fraction. *)
LEMMA MiddleFlips ==
    ASSUME NEW s, NEW t, NEW n \in Nat, TurnedBars(s, t, n), NEW k \in Positive, k <= n
    PROVE  Middle(s, k) \in Rationals /\ Middle(t, k) = Flip(Top, Middle(s, k))
  <1>1. PICK height \in Int : height = Top
    BY Periods
  <1>2. PICK h \in Int, l \in Int :
            /\ h = Highest(Recent(s, k)) /\ l = Lowest(Recent(s, k))
            /\ Highest(Recent(t, k)) = height - l /\ Lowest(Recent(t, k)) = height - h
    BY <1>1, TurnedChannel
  <1>3. PICK two \in Positive, sum \in Int : two = 2 /\ sum = h + l
    <2>1. 2 \in Positive /\ h + l \in Int
      BY DEF Positive
    <2>. QED
      BY <2>1
  <1>4. (height - l) + (height - h) = height * two - sum
    BY <1>3
  <1>5. Fraction(sum, two) \in Rationals
    BY FractionIsProper DEF Proper
  <1>6. Fraction(height * two - sum, two) = Flip(height, Fraction(sum, two))
    BY FractionFlips
  <1>7. Middle(s, k) = Fraction(sum, two)
    BY <1>2, <1>3 DEF Middle
  <1>8. Middle(t, k) = Fraction(height * two - sum, two)
    BY <1>2, <1>3, <1>4 DEF Middle
  <1>. QED
    BY <1>1, <1>5, <1>6, <1>7, <1>8

(* Two fractions of one value are mirrored by the mirror image of either. *)
LEMMA SameValueMirrors ==
    ASSUME NEW a \in Rationals, NEW b \in Rationals, NEW t \in Int, a \preceq b, b \preceq a
    PROVE  Mirrors(t, Flip(t, b), a)
  <1>1. PICK x \in Int, d \in Int, y \in Int, e \in Int : x = a[1] /\ d = a[2] /\ y = b[1] /\ e = b[2]
    BY FlipParts
  <1>2. x * e <= y * d /\ y * d <= x * e
    BY <1>1, UpToIs DEF AtMost
  <1>3. PICK p \in Int, q \in Int, r \in Int : p = x * e /\ q = y * d /\ r = d * e
    OBVIOUS
  <1>4. p = q
    BY <1>2, <1>3
  <1>5. (t * e - y) * d = t * r - q
    BY <1>3
  <1>6. (t * e - y) * d + x * e = t * (d * e)
    BY <1>3, <1>4, <1>5
  <1>7. Flip(t, b) \in Rationals /\ Flip(t, b)[1] = t * e - y /\ Flip(t, b)[2] = e
    BY <1>1, FlipParts
  <1>. QED
    BY <1>1, <1>6, <1>7 DEF Mirrors

(* The top of the cloud is the bottom of the cloud of reflected bars, and the other way around. *)
LEMMA CloudFlips ==
    ASSUME NEW s, NEW t, NEW n, Enough(n), NEW m \in Nat, n <= m, TurnedBars(s, t, m)
    PROVE  Mirrors(Top, CloudTop(t), CloudBottom(s)) /\ Mirrors(Top, CloudBottom(t), CloudTop(s))
  <1>1. PICK height \in Int : height = Top
    BY Periods
  <1>2. /\ Fast \in Positive /\ Mid \in Positive /\ Slow \in Positive /\ Fast <= m /\ Mid <= m /\ Slow <= m
    BY Periods DEF Enough, Positive
  <1>3. PICK f \in Rationals : f = Middle(s, Fast) /\ Middle(t, Fast) = Flip(height, f)
    BY <1>1, <1>2, MiddleFlips
  <1>4. PICK g \in Rationals : g = Middle(s, Mid) /\ Middle(t, Mid) = Flip(height, g)
    BY <1>1, <1>2, MiddleFlips
  <1>5. PICK b \in Rationals : b = Middle(s, Slow) /\ Middle(t, Slow) = Flip(height, b)
    BY <1>1, <1>2, MiddleFlips
  <1>6. PICK two \in Positive : two = 2 /\ two * height = height + height
    BY DEF Positive
  <1>7. PICK c \in Rationals : c = f ++ g /\ Flip(height, f) ++ Flip(height, g) = Flip(two * height, c)
    <2>1. Flip(height, f) ++ Flip(height, g) = Flip(height + height, f ++ g)
      BY PlusFlips
    <2>. QED
      BY <1>6, <2>1, PlusIs
  <1>8. PICK a \in Rationals : a = c // Whole(two) /\ Flip(two * height, c) // Whole(two) = Flip(height, a)
    BY PartFlips
  <1>9. SpanA(s) = a /\ SpanA(t) = Flip(height, a)
    BY <1>3, <1>4, <1>6, <1>7, <1>8 DEF SpanA
  <1>10. /\ (Flip(height, a) \preceq Flip(height, b)) = (b \preceq a)
         /\ Mirrors(height, Flip(height, a), a) /\ Mirrors(height, Flip(height, b), b)
    BY FlipMirrors, MirrorOrder
  <1>11. /\ CloudTop(s) = IF a \preceq b THEN b ELSE a
         /\ CloudBottom(s) = IF a \preceq b THEN a ELSE b
    BY <1>5, <1>9 DEF CloudTop, CloudBottom
  <1>12. /\ CloudTop(t) = IF Flip(height, a) \preceq Flip(height, b) THEN Flip(height, b) ELSE Flip(height, a)
         /\ CloudBottom(t) = IF Flip(height, a) \preceq Flip(height, b) THEN Flip(height, a) ELSE Flip(height, b)
    BY <1>5, <1>9 DEF CloudTop, CloudBottom
  <1>13. CASE a \preceq b /\ b \preceq a
    <2>1. Mirrors(height, Flip(height, b), a) /\ Mirrors(height, Flip(height, a), b)
      BY <1>13, SameValueMirrors
    <2>. QED
      BY <1>1, <1>10, <1>11, <1>12, <1>13, <2>1
  <1>14. CASE ~(a \preceq b) \/ ~(b \preceq a)
    <2>1. (a \preceq b) <=> ~(b \preceq a)
      <3>1. a \preceq b \/ b \preceq a
        BY OrderIs
      <3>. QED
        BY <1>14, <3>1, Zenon
    <2>. QED
      BY <1>1, <1>10, <1>11, <1>12, <2>1
  <1>. QED
    BY <1>13, <1>14

(* IchimokuTrend: the lines and the cloud are reflected. *)
LEMMA IchimokuMirrors ==
    ASSUME NEW s, NEW t, NEW n, Enough(n), TurnedBars(s, t, n + 1)
    PROVE  TrendSignals(t).ichimoku_trend = -TrendSignals(s).ichimoku_trend
  <1>1. /\ TurnedBars(Front(s), Front(t), n) /\ n \in Nat /\ n + 1 \in Nat /\ n <= n
        /\ Last(Closes(s)) \in Rationals /\ Last(Closes(t)) = Flip(Top, Last(Closes(s)))
        /\ Closes(Front(s)) = Front(Closes(s)) /\ Closes(Front(t)) = Front(Closes(t))
        /\ Last(Front(Closes(s))) \in Rationals /\ Last(Front(Closes(t))) = Flip(Top, Last(Front(Closes(s))))
    BY TurnedNowAndBefore
  <1>2. PICK m \in Nat : m = n + 1 /\ TurnedBars(s, t, m) /\ n <= m
    BY <1>1
  <1>3. PICK height \in Int : height = Top
    BY Periods
  <1>4. /\ Fast \in Positive /\ Mid \in Positive /\ Fast <= n /\ Mid <= n /\ Fast <= m /\ Mid <= m
    BY <1>1, <1>2, Periods DEF Enough, Positive
  <1>5. PICK f \in Rationals : f = Middle(s, Fast) /\ Middle(t, Fast) = Flip(height, f)
    BY <1>2, <1>3, <1>4, MiddleFlips
  <1>6. PICK g \in Rationals : g = Middle(s, Mid) /\ Middle(t, Mid) = Flip(height, g)
    BY <1>2, <1>3, <1>4, MiddleFlips
  <1>7. PICK f0 \in Rationals : f0 = Middle(Front(s), Fast) /\ Middle(Front(t), Fast) = Flip(height, f0)
    BY <1>1, <1>3, <1>4, MiddleFlips
  <1>8. PICK g0 \in Rationals : g0 = Middle(Front(s), Mid) /\ Middle(Front(t), Mid) = Flip(height, g0)
    BY <1>1, <1>3, <1>4, MiddleFlips
  <1>9. PICK top, bottom, up, down :
            /\ top = CloudTop(s) /\ bottom = CloudBottom(s) /\ up = CloudTop(t) /\ down = CloudBottom(t)
            /\ Mirrors(height, up, bottom) /\ Mirrors(height, down, top)
    <2>1. Mirrors(Top, CloudTop(t), CloudBottom(s)) /\ Mirrors(Top, CloudBottom(t), CloudTop(s))
      BY <1>2, CloudFlips
    <2>. QED
      BY <1>3, <2>1
  <1>10. PICK top0, bottom0, up0, down0 :
            /\ top0 = CloudTop(Front(s)) /\ bottom0 = CloudBottom(Front(s))
            /\ up0 = CloudTop(Front(t)) /\ down0 = CloudBottom(Front(t))
            /\ Mirrors(height, up0, bottom0) /\ Mirrors(height, down0, top0)
    <2>1. Mirrors(Top, CloudTop(Front(t)), CloudBottom(Front(s))) /\ Mirrors(Top, CloudBottom(Front(t)), CloudTop(Front(s)))
      BY <1>1, CloudFlips
    <2>. QED
      BY <1>3, <2>1
  <1>11. PICK c, y, c0, y0 :
            /\ c = Last(Closes(s)) /\ y = Last(Closes(t)) /\ Mirrors(height, y, c)
            /\ c0 = Last(Closes(Front(s))) /\ y0 = Last(Closes(Front(t))) /\ Mirrors(height, y0, c0)
    <2>1. PICK c \in Rationals, c0 \in Rationals : /\ c = Last(Closes(s)) /\ Last(Closes(t)) = Flip(height, c)
                                                   /\ c0 = Last(Closes(Front(s)))
                                                   /\ Last(Closes(Front(t))) = Flip(height, c0)
      BY <1>1, <1>3
    <2>2. Mirrors(height, Flip(height, c), c) /\ Mirrors(height, Flip(height, c0), c0)
      BY FlipMirrors
    <2>. QED
      BY <2>1, <2>2
  <1>12. /\ Rises(Flip(height, f0), Flip(height, f), Flip(height, g0), Flip(height, g)) = Falls(f0, f, g0, g)
         /\ Falls(Flip(height, f0), Flip(height, f), Flip(height, g0), Flip(height, g)) = Rises(f0, f, g0, g)
         /\ ~(Rises(f0, f, g0, g) /\ Falls(f0, f, g0, g))
    <2>1. /\ Mirrors(height, Flip(height, f0), f0) /\ Mirrors(height, Flip(height, f), f)
          /\ Mirrors(height, Flip(height, g0), g0) /\ Mirrors(height, Flip(height, g), g)
      BY FlipMirrors
    <2>. QED
      BY <2>1, RisesAndFalls
  <1>13. Rises(y0, y, up0, up) = Falls(c0, c, bottom0, bottom)
    <2>1. Mirrors(height, y, c) /\ Mirrors(height, y0, c0) /\ Mirrors(height, up, bottom) /\ Mirrors(height, up0, bottom0)
      BY <1>9, <1>10, <1>11
    <2>. QED
      BY <2>1, RisesAndFalls
  <1>14. Falls(y0, y, down0, down) = Rises(c0, c, top0, top)
    <2>1. Mirrors(height, y, c) /\ Mirrors(height, y0, c0) /\ Mirrors(height, down, top) /\ Mirrors(height, down0, top0)
      BY <1>9, <1>10, <1>11
    <2>2. (down0 \preceq y0) = (c0 \preceq top0)
      <3>1. Mirrors(height, y0, c0) /\ Mirrors(height, down0, top0)
        BY <2>1
      <3>. QED
        BY <3>1, MirrorOrder
    <2>3. (y \prec down) = (top \prec c)
      <3>1. Mirrors(height, y, c) /\ Mirrors(height, down, top)
        BY <2>1
      <3>. QED
        BY <3>1, MirrorOrder
    <2>. QED
      BY <2>2, <2>3 DEF Rises, Falls
  <1>15. TrendSignals(s).ichimoku_trend
            = Choose(Rises(f0, f, g0, g) /\ Rises(c0, c, top0, top), Falls(f0, f, g0, g) /\ Falls(c0, c, bottom0, bottom))
    BY <1>5, <1>6, <1>7, <1>8, <1>9, <1>10, <1>11 DEF TrendSignals
  <1>16. TrendSignals(t).ichimoku_trend
            = Choose(Rises(Flip(height, f0), Flip(height, f), Flip(height, g0), Flip(height, g)) /\ Rises(y0, y, up0, up),
                     Falls(Flip(height, f0), Flip(height, f), Flip(height, g0), Flip(height, g)) /\ Falls(y0, y, down0, down))
    BY <1>5, <1>6, <1>7, <1>8, <1>9, <1>10, <1>11 DEF TrendSignals
  <1>. QED
    BY <1>12, <1>13, <1>14, <1>15, <1>16 DEF Choose

-----------------------------------------------------------------------------
(* Two lines, and the same two the other way round. *)
LEMMA SwappedLines ==
    ASSUME NEW a0 \in Rationals, NEW a \in Rationals, NEW b0 \in Rationals, NEW b \in Rationals
    PROVE  /\ Rises(b0, b, a0, a) = Falls(a0, a, b0, b) /\ Falls(b0, b, a0, a) = Rises(a0, a, b0, b)
           /\ ~(Rises(a0, a, b0, b) /\ Falls(a0, a, b0, b))
           /\ Crosses(b0, b, a0, a) = -Crosses(a0, a, b0, b)
  <1>1. ~(a \prec b /\ b \prec a)
    BY OrderIs
  <1>2. Rises(b0, b, a0, a) = Falls(a0, a, b0, b) /\ Falls(b0, b, a0, a) = Rises(a0, a, b0, b)
    BY DEF Rises, Falls
  <1>3. ~(Rises(a0, a, b0, b) /\ Falls(a0, a, b0, b))
    BY <1>1 DEF Rises, Falls
  <1>. QED
    BY <1>2, <1>3 DEF Crosses, Choose

\* The first of the places 1..p that is among some.
FirstOf(some, p) == CHOOSE i \in 1..p : i \in some /\ \A j \in 1..(i - 1) : ~(j \in some)

(* There is a first place among some. *)
LEMMA FirstOfIs ==
    ASSUME NEW p \in Nat, NEW some, some \subseteq 1..p, some # {}
    PROVE  FirstOf(some, p) \in 1..p
  <1>1. PICK i \in some : \A j \in some : i <= j
    <2>1. some \subseteq Nat
      OBVIOUS
    <2>. QED
      BY <2>1, LeastNat
  <1>2. i \in 1..p /\ \A j \in 1..(i - 1) : ~(j \in some)
    <2>1. i \in 1..p
      OBVIOUS
    <2>2. ASSUME NEW j \in 1..(i - 1), j \in some PROVE FALSE
      BY <1>1, <2>1, <2>2
    <2>. QED
      BY <2>1, <2>2
  <1>. QED
    BY <1>1, <1>2 DEF FirstOf

(* What came first on one side comes first on the other. *)
LEMMA AroonSwaps ==
    ASSUME NEW s, NEW t, NEW n \in Nat, TurnedBars(s, t, n), NEW p \in Positive, p <= n, p - 1 \in Positive
    PROVE  /\ Aroon(s, p)[1] \in Rationals /\ Aroon(s, p)[2] \in Rationals
           /\ Aroon(t, p)[1] = Aroon(s, p)[2] /\ Aroon(t, p)[2] = Aroon(s, p)[1]
  <1>. DEFINE highs(part) == {i \in 1..p : part[i].high = Highest(part)}
              lows(part) == {i \in 1..p : part[i].low = Lowest(part)}
              late(some) == <<100 * (FirstOf(some, p) - 1), p - 1>>
  <1>1. p \in Nat
    BY DEF Positive
  <1>2. \A r : Aroon(r, p) = <<late(highs(Recent(r, p))), late(lows(Recent(r, p)))>>
    <2>. SUFFICES ASSUME NEW r PROVE Aroon(r, p) = <<late(highs(Recent(r, p))), late(lows(Recent(r, p)))>>
      OBVIOUS
    <2>1. PICK part : part = Recent(r, p)
      OBVIOUS
    <2>2. \A i \in 1..p : \A j \in 1..(i - 1) : j \in 1..p
      BY <1>1
    <2>3. (CHOOSE i \in 1..p : part[i].high = Highest(part) /\ \A j \in 1..(i - 1) : ~(part[j].high = Highest(part)))
              = FirstOf(highs(part), p)
      BY <2>2 DEF FirstOf
    <2>4. (CHOOSE i \in 1..p : part[i].low = Lowest(part) /\ \A j \in 1..(i - 1) : ~(part[j].low = Lowest(part)))
              = FirstOf(lows(part), p)
      BY <2>2 DEF FirstOf
    <2>5. Aroon(r, p) = <<<<100 * ((CHOOSE i \in 1..p : part[i].high = Highest(part) /\ \A j \in 1..(i - 1) : ~(part[j].high = Highest(part))) - 1), p - 1>>,
                          <<100 * ((CHOOSE i \in 1..p : part[i].low = Lowest(part) /\ \A j \in 1..(i - 1) : ~(part[j].low = Lowest(part))) - 1), p - 1>>>>
      BY <2>1 DEF Aroon
    <2>. QED
      BY <2>1, <2>3, <2>4, <2>5
  <1>3. PICK u, w : u = Recent(s, p) /\ w = Recent(t, p) /\ TurnedBars(u, w, p)
    BY TurnedRecent
  <1>4. TurnedBars(u, w, p)
    BY <1>3
  <1>5. PICK height \in Int, h \in Int, l \in Int :
            /\ height = Top /\ h = Highest(u) /\ l = Lowest(u)
            /\ Highest(w) = height - l /\ Lowest(w) = height - h
    <2>1. PICK height \in Int : height = Top
      BY Periods
    <2>2. /\ Highest(u) \in Int /\ Lowest(u) \in Int
          /\ Highest(w) = Top - Lowest(u) /\ Lowest(w) = Top - Highest(u)
      BY <1>4, TurnedEdges
    <2>. QED
      BY <2>1, <2>2
  <1>6. \A i \in 1..p : /\ u[i].high \in Int /\ u[i].low \in Int
                        /\ w[i].high = height - u[i].low /\ w[i].low = height - u[i].high
    <2>. SUFFICES ASSUME NEW i \in 1..p
                  PROVE  /\ u[i].high \in Int /\ u[i].low \in Int
                         /\ w[i].high = height - u[i].low /\ w[i].low = height - u[i].high
      OBVIOUS
    <2>. QED
      BY <1>4, <1>5, TurnedPrices
  <1>7. highs(w) = lows(u) /\ lows(w) = highs(u)
    <2>1. ASSUME NEW i \in 1..p
          PROVE  (w[i].high = Highest(w)) = (u[i].low = Lowest(u)) /\ (w[i].low = Lowest(w)) = (u[i].high = Highest(u))
      <3>1. PICK a \in Int, b \in Int : a = u[i].low /\ b = u[i].high /\ w[i].high = height - a /\ w[i].low = height - b
        BY <1>6
      <3>2. (height - a = height - l) = (a = l) /\ (height - b = height - h) = (b = h)
        OBVIOUS
      <3>. QED
        BY <1>5, <3>1, <3>2
    <2>. QED
      BY <2>1
  <1>8. highs(u) # {} /\ lows(u) # {} /\ highs(u) \subseteq 1..p /\ lows(u) \subseteq 1..p
    <2>1. DOMAIN u = 1..p /\ \A i \in 1..p : u[i] \in GoodBar
      BY <1>4, TurnedOne
    <2>2. (\E i \in 1..p : Highest(u) = u[i].high) /\ (\E i \in 1..p : Lowest(u) = u[i].low)
      BY <2>1, EdgesAre
    <2>. QED
      BY <2>2
  <1>9. PICK H, L : H = highs(u) /\ L = lows(u)
    OBVIOUS
  <1>. HIDE DEF highs, lows
  <1>10. FirstOf(H, p) \in 1..p /\ FirstOf(L, p) \in 1..p
    BY <1>1, <1>8, <1>9, FirstOfIs
  <1>11. late(H) \in Rationals /\ late(L) \in Rationals
    <2>1. PICK a \in Int, b \in Int : a = FirstOf(H, p) /\ b = FirstOf(L, p)
      BY <1>10
    <2>2. <<100 * (a - 1), p - 1>> \in Rationals /\ <<100 * (b - 1), p - 1>> \in Rationals
      BY DEF Rationals
    <2>. QED
      BY <2>1, <2>2
  <1>. HIDE DEF late
  <1>12. Aroon(s, p) = <<late(H), late(L)>> /\ Aroon(t, p) = <<late(L), late(H)>>
    BY <1>2, <1>3, <1>7, <1>9
  <1>. QED
    BY <1>11, <1>12

(* AroonTrend: up and down change places. *)
LEMMA AroonMirrors ==
    ASSUME NEW s, NEW t, NEW n, Enough(n), TurnedBars(s, t, n + 1)
    PROVE  TrendSignals(t).aroon_trend = -TrendSignals(s).aroon_trend
  <1>1. TurnedBars(Front(s), Front(t), n) /\ n \in Nat /\ n + 1 \in Nat
    BY TurnedNowAndBefore
  <1>2. PICK m \in Nat : m = n + 1 /\ TurnedBars(s, t, m)
    BY <1>1
  <1>3. Slow \in Positive /\ Slow - 1 \in Positive /\ Slow <= n /\ Slow <= m
    BY <1>1, <1>2, Periods DEF Enough, Positive
  <1>4. PICK u, w : u = Aroon(s, Slow) /\ w = Aroon(t, Slow)
    OBVIOUS
  <1>5. PICK u0, w0 : u0 = Aroon(Front(s), Slow) /\ w0 = Aroon(Front(t), Slow)
    OBVIOUS
  <1>6. PICK a \in Rationals, b \in Rationals : a = u[1] /\ b = u[2] /\ w[1] = b /\ w[2] = a
    BY <1>2, <1>3, <1>4, AroonSwaps
  <1>7. PICK a0 \in Rationals, b0 \in Rationals : a0 = u0[1] /\ b0 = u0[2] /\ w0[1] = b0 /\ w0[2] = a0
    BY <1>1, <1>3, <1>5, AroonSwaps
  <1>8. TrendSignals(s).aroon_trend
            = Choose(Rises(a0, a, b0, b) /\ Whole(70) \preceq a, Falls(a0, a, b0, b) /\ Whole(70) \preceq b)
    BY <1>4, <1>5, <1>6, <1>7 DEF TrendSignals
  <1>9. TrendSignals(t).aroon_trend
            = Choose(Rises(b0, b, a0, a) /\ Whole(70) \preceq b, Falls(b0, b, a0, a) /\ Whole(70) \preceq a)
    BY <1>4, <1>5, <1>6, <1>7 DEF TrendSignals
  <1>10. /\ Rises(b0, b, a0, a) = Falls(a0, a, b0, b) /\ Falls(b0, b, a0, a) = Rises(a0, a, b0, b)
         /\ ~(Rises(a0, a, b0, b) /\ Falls(a0, a, b0, b))
    BY SwappedLines
  <1>. QED
    BY <1>8, <1>9, <1>10 DEF Choose

-----------------------------------------------------------------------------
\* The parts of the directional index.
Moved(one, other) == IF one > other /\ one > 0 THEN one ELSE 0
PlusMoves(s, n) ==
    SubSeq([i \in 1..n |-> Whole(Moved(s[i + 1].high - s[i].high, s[i].low - s[i + 1].low))], 1, n)
MinusMoves(s, n) ==
    SubSeq([i \in 1..n |-> Whole(Moved(s[i].low - s[i + 1].low, s[i + 1].high - s[i].high))], 1, n)
Widths(s, n) == SubSeq([i \in 1..n |-> Whole(TrueRange(s, i + 1))], 1, n)
Shares(up, down, all) ==
    SubSeq([k \in 1..Len(all) |-> <<Percent(up[k], all[k], Whole(0)), Percent(down[k], all[k], Whole(0))>>],
           1, Len(all))
Dx(at) == Percent(Distance(at[1], at[2]), at[1] ++ at[2], Whole(0))
Dxs(di, k) == SubSeq([i \in 1..k |-> Dx(di[i + 1])], 1, k)
Adx(dxs, p) == IF dxs = <<>> THEN Whole(0) ELSE Mean(Recent(dxs, Min({p, Len(dxs)})))
Sums(x, n, p) == Smoothed(Total(SubSeq(x, 1, p)), SubSeq(x, p + 1, n), p)
Averages(x, n, p) == Smoothed(Mean(SubSeq(x, 1, p)), SubSeq(x, p + 1, n), p)
DmiAnswer(di, n, p) == [di |-> Last(di), adx |-> Adx(Dxs(di, n - p), p)]
DmiOf(plus, minus, ranges, n, p) ==
    DmiAnswer(Shares(Sums(plus, n, p), Sums(minus, n, p), Averages(ranges, n, p)), n, p)

(* Dmi from its parts, spelled out. *)
LEMMA DmiIs ==
    ASSUME NEW s, NEW p
    PROVE  Dmi(s, p) = DmiOf(PlusMoves(s, Len(s) - 1), MinusMoves(s, Len(s) - 1), Widths(s, Len(s) - 1), Len(s) - 1, p)
  BY DEF Dmi, DmiOf, DmiAnswer, Each, Scan, Smoothed, SmoothRun, SmoothStep, PlusMoves, MinusMoves, Widths, Moved,
         Shares, Dx, Dxs, Adx, Sums, Averages

(* A list made of values of a set. *)
LEMMA MadeList ==
    ASSUME NEW S, NEW n \in Nat, NEW x, Made(x, n), \A i \in 1..n : x[i] \in S
    PROVE  SubSeq(x, 1, n) = x /\ x \in Seq(S) /\ Len(x) = n
  <1>1. x \in [1..n -> S]
    BY DEF Made
  <1>2. x \in Seq(S) /\ Len(x) = n
    BY <1>1
  <1>. QED
    BY <1>2, WholeList

(* Whole numbers are proper fractions. *)
LEMMA WholeIsProper == ASSUME NEW k \in Int PROVE Whole(k) \in Propers
BY Wholly DEF Propers

(* What went up on one side went down on the other. *)
LEMMA MovesSwap ==
    ASSUME NEW s, NEW t, NEW n \in Nat, TurnedBars(s, t, n + 1)
    PROVE  /\ PlusMoves(s, n) \in Seq(Propers) /\ Len(PlusMoves(s, n)) = n
           /\ MinusMoves(s, n) \in Seq(Propers) /\ Len(MinusMoves(s, n)) = n
           /\ Widths(s, n) \in Seq(Propers) /\ Len(Widths(s, n)) = n
           /\ PlusMoves(t, n) = MinusMoves(s, n) /\ MinusMoves(t, n) = PlusMoves(s, n) /\ Widths(t, n) = Widths(s, n)
  <1>. DEFINE up(r) == [i \in 1..n |-> Whole(Moved(r[i + 1].high - r[i].high, r[i].low - r[i + 1].low))]
              down(r) == [i \in 1..n |-> Whole(Moved(r[i].low - r[i + 1].low, r[i + 1].high - r[i].high))]
              wide(r) == [i \in 1..n |-> Whole(TrueRange(r, i + 1))]
  <1>1. PICK m \in Positive : m = n + 1 /\ TurnedBars(s, t, m)
    BY DEF Positive
  <1>2. PICK height \in Int : height = Top
    BY Periods
  <1>3. ASSUME NEW i \in 1..n
        PROVE  /\ s[i + 1].high - s[i].high \in Int /\ s[i].low - s[i + 1].low \in Int
               /\ t[i + 1].high - t[i].high = s[i].low - s[i + 1].low
               /\ t[i].low - t[i + 1].low = s[i + 1].high - s[i].high
               /\ TrueRange(s, i + 1) \in Int /\ TrueRange(t, i + 1) = TrueRange(s, i + 1)
    <2>1. PICK j \in 1..m : j = i + 1
      BY <1>1
    <2>2. i \in 1..m /\ TurnedBars(s, t, m)
      BY <1>1
    <2>3. PICK a \in Int, b \in Int : a = s[i].high /\ b = s[i].low /\ t[i].low = height - a /\ t[i].high = height - b
      BY <1>2, <2>2, TurnedPrices
    <2>4. PICK c \in Int, d \in Int : c = s[j].high /\ d = s[j].low /\ t[j].low = height - c /\ t[j].high = height - d
      BY <1>2, <2>2, TurnedPrices
    <2>5. TrueRange(s, j) \in Int /\ TrueRange(t, j) = TrueRange(s, j)
      BY <2>2, TrueRangeStays
    <2>6. (height - d) - (height - b) = b - d /\ (height - a) - (height - c) = c - a
      OBVIOUS
    <2>. QED
      BY <2>1, <2>3, <2>4, <2>5, <2>6
  <1>4. \A a, b \in Int : Whole(Moved(a, b)) \in Propers
    <2>. SUFFICES ASSUME NEW a \in Int, NEW b \in Int PROVE Whole(Moved(a, b)) \in Propers
      OBVIOUS
    <2>1. Moved(a, b) \in Int
      BY DEF Moved
    <2>. QED
      BY <2>1, WholeIsProper
  <1>5. PICK u, d, w : u = up(s) /\ d = down(s) /\ w = wide(s)
    OBVIOUS
  <1>6. up(t) = d /\ down(t) = u /\ wide(t) = w
    BY <1>3, <1>5
  <1>7. /\ Made(u, n) /\ Made(d, n) /\ Made(w, n)
        /\ \A i \in 1..n : u[i] \in Propers /\ d[i] \in Propers /\ w[i] \in Propers
    <2>1. Made(u, n) /\ Made(d, n) /\ Made(w, n)
      BY <1>5 DEF Made
    <2>2. ASSUME NEW i \in 1..n PROVE u[i] \in Propers /\ d[i] \in Propers /\ w[i] \in Propers
      <3>1. u[i] = Whole(Moved(s[i + 1].high - s[i].high, s[i].low - s[i + 1].low))
        BY <1>5
      <3>2. d[i] = Whole(Moved(s[i].low - s[i + 1].low, s[i + 1].high - s[i].high))
        BY <1>5
      <3>3. w[i] = Whole(TrueRange(s, i + 1))
        BY <1>5
      <3>4. w[i] \in Propers
        BY <1>3, <3>3, WholeIsProper
      <3>. QED
        BY <1>3, <1>4, <3>1, <3>2, <3>4
    <2>. QED
      BY <2>1, <2>2
  <1>8. /\ PlusMoves(s, n) = SubSeq(u, 1, n) /\ MinusMoves(s, n) = SubSeq(d, 1, n) /\ Widths(s, n) = SubSeq(w, 1, n)
        /\ PlusMoves(t, n) = SubSeq(d, 1, n) /\ MinusMoves(t, n) = SubSeq(u, 1, n) /\ Widths(t, n) = SubSeq(w, 1, n)
    BY <1>5, <1>6 DEF PlusMoves, MinusMoves, Widths
  <1>. HIDE DEF up, down, wide
  <1>9. SubSeq(u, 1, n) = u /\ u \in Seq(Propers) /\ Len(u) = n
    BY <1>7, MadeList
  <1>10. SubSeq(d, 1, n) = d /\ d \in Seq(Propers) /\ Len(d) = n
    BY <1>7, MadeList
  <1>11. SubSeq(w, 1, n) = w /\ w \in Seq(Propers) /\ Len(w) = n
    BY <1>7, MadeList
  <1>. QED
    BY <1>8, <1>9, <1>10, <1>11

(* The running sums are fractions in lowest terms. *)
LEMMA SumsAre ==
    ASSUME NEW n \in Nat, NEW x \in Seq(Propers), Len(x) = n, NEW p \in Positive, p <= n, NEW k \in Positive, k = n - p + 1
    PROVE  /\ Sums(x, n, p) \in Seq(Propers) /\ Len(Sums(x, n, p)) = k
           /\ Averages(x, n, p) \in Seq(Propers) /\ Len(Averages(x, n, p)) = k
  <1>1. PICK v \in Seq(Propers) : v = SubSeq(x, 1, p) /\ Len(v) = p
    <2>1. PICK o \in Int : o = 1
      OBVIOUS
    <2>2. o <= p /\ p - o + 1 = p /\ p \in Int /\ \A i \in o..p : i \in 1..n
      BY <2>1 DEF Positive
    <2>3. \A i \in o..p : x[i] \in Propers
      BY <2>2
    <2>4. SubSeq(x, o, p) \in Seq(Propers) /\ Len(SubSeq(x, o, p)) = IF o <= p THEN p - o + 1 ELSE 0
      BY <2>2, <2>3, SubSeqProperties
    <2>. QED
      BY <2>1, <2>2, <2>4
  <1>2. Total(v) \in Propers /\ Mean(v) \in Propers
    <2>1. v \in Seq(Rationals)
      BY <1>1 DEF Propers
    <2>2. p \in Nat
      BY DEF Positive
    <2>3. PICK z \in Int : z = 0
      OBVIOUS
    <2>4. PICK y : Flipped(z, v, y, p)
      BY <1>1, <2>1, <2>2, FlippedSelf
    <2>5. Proper(Total(v)) /\ Proper(Mean(v))
      BY <2>2, <2>4, TotalFlips, MeanFlips
    <2>. QED
      BY <2>5 DEF Propers, Proper
  <1>3. PICK m \in Nat, r \in Seq(Propers) : r = SubSeq(x, p + 1, n) /\ Len(r) = m /\ m + 1 = k
    <2>1. PICK o \in Int : o = p + 1
      BY DEF Positive
    <2>2. \A i \in o..n : i \in 1..n
      BY <2>1 DEF Positive
    <2>3. \A i \in o..n : x[i] \in Propers
      BY <2>2
    <2>4. SubSeq(x, o, n) \in Seq(Propers) /\ Len(SubSeq(x, o, n)) = IF o <= n THEN n - o + 1 ELSE 0
      BY <2>3, SubSeqProperties
    <2>5. PICK m \in Nat : m = n - p /\ m + 1 = k
      BY DEF Positive
    <2>6. (IF o <= n THEN n - o + 1 ELSE 0) = m
      BY <2>1, <2>5 DEF Positive
    <2>. QED
      BY <2>1, <2>4, <2>5, <2>6
  <1>6. \A a \in Propers : Smoothed(a, r, p) \in Seq(Propers) /\ Len(Smoothed(a, r, p)) = m + 1
    <2>. TAKE a \in Propers
    <2>1. Len(r) = m
      BY <1>3
    <2>. QED
      BY <2>1, SmoothRuns
  <1>4. Smoothed(Total(v), r, p) \in Seq(Propers) /\ Len(Smoothed(Total(v), r, p)) = m + 1
    BY <1>2, <1>6
  <1>5. Smoothed(Mean(v), r, p) \in Seq(Propers) /\ Len(Smoothed(Mean(v), r, p)) = m + 1
    BY <1>2, <1>6
  <1>. QED
    BY <1>1, <1>3, <1>4, <1>5 DEF Sums, Averages

(* A percentage is a fraction, of nothing too. *)
LEMMA PercentIs ==
    ASSUME NEW a \in Propers, NEW b \in Propers
    PROVE  Percent(a, b, Whole(0)) \in Rationals
  <1>1. a \in Rationals /\ b \in Rationals /\ Proper(b)
    BY DEF Propers
  <1>2. CASE b = Whole(0)
    BY <1>2, NothingFlips DEF Percent
  <1>3. CASE b # Whole(0)
    <2>1. b[1] # 0
      BY <1>1, <1>3 DEF Proper, Whole
    <2>2. PICK c \in Rationals : c = a // b
      BY <1>1, <2>1, OverIs
    <2>5. PICK hundred \in Int : hundred = 100
      OBVIOUS
    <2>3. PICK d \in Rationals : d = Whole(hundred)
      BY Wholly
    <2>4. d ** c \in Rationals
      BY TimesIs
    <2>. QED
      BY <1>3, <2>2, <2>3, <2>4, <2>5 DEF Percent
  <1>. QED
    BY <1>2, <1>3

(* The two shares change places, the index made of them is the same. *)
LEMMA SharesSwap ==
    ASSUME NEW k \in Positive, NEW up \in Seq(Propers), Len(up) = k, NEW down \in Seq(Propers), Len(down) = k,
           NEW all \in Seq(Propers), Len(all) = k, NEW x, NEW y, x = Shares(up, down, all), y = Shares(down, up, all)
    PROVE  /\ Len(x) = k /\ Len(y) = k
           /\ \A i \in 1..k : /\ x[i][1] \in Rationals /\ x[i][2] \in Rationals
                              /\ y[i][1] = x[i][2] /\ y[i][2] = x[i][1]
  <1>. DEFINE shares(a, b) == [i \in 1..k |-> <<Percent(a[i], all[i], Whole(0)), Percent(b[i], all[i], Whole(0))>>]
  <1>1. k \in Nat
    BY DEF Positive
  <1>2. x = SubSeq(shares(up, down), 1, k) /\ y = SubSeq(shares(down, up), 1, k)
    BY DEF Shares
  <1>3. PICK u, v : u = shares(up, down) /\ v = shares(down, up)
    OBVIOUS
  <1>4. Made(u, k) /\ Made(v, k)
    BY <1>3 DEF Made
  <1>5. ASSUME NEW i \in 1..k
        PROVE  /\ u[i] \in Rationals \X Rationals /\ v[i] \in Rationals \X Rationals
               /\ v[i][1] = u[i][2] /\ v[i][2] = u[i][1]
    <2>1. up[i] \in Propers /\ down[i] \in Propers /\ all[i] \in Propers
      OBVIOUS
    <2>2. PICK a \in Rationals, b \in Rationals :
              a = Percent(up[i], all[i], Whole(0)) /\ b = Percent(down[i], all[i], Whole(0))
      BY <2>1, PercentIs
    <2>3. u[i] = <<a, b>> /\ v[i] = <<b, a>>
      BY <1>3, <2>2
    <2>. QED
      BY <2>3
  <1>. HIDE DEF shares
  <1>10. PICK S : S = Rationals \X Rationals
    OBVIOUS
  <1>11. \A i \in 1..k : u[i] \in S
    BY <1>5, <1>10
  <1>12. \A i \in 1..k : v[i] \in S
    BY <1>5, <1>10
  <1>6. SubSeq(u, 1, k) = u /\ Len(u) = k
    BY <1>1, <1>4, <1>11, MadeList
  <1>7. SubSeq(v, 1, k) = v /\ Len(v) = k
    BY <1>1, <1>4, <1>12, MadeList
  <1>8. x = u /\ y = v
    BY <1>2, <1>3, <1>6, <1>7
  <1>9. \A i \in 1..k : u[i][1] \in Rationals /\ u[i][2] \in Rationals
    BY <1>5
  <1>. QED
    BY <1>5, <1>6, <1>7, <1>8, <1>9

(* With what went up and what went down swapped, the two lines are swapped and the index stays. *)
LEMMA DmiSwaps ==
    ASSUME NEW n \in Nat, NEW p \in Positive, p <= n,
           NEW a \in Seq(Propers), Len(a) = n, NEW b \in Seq(Propers), Len(b) = n, NEW r \in Seq(Propers), Len(r) = n,
           NEW x, NEW y, x = DmiOf(a, b, r, n, p), y = DmiOf(b, a, r, n, p)
    PROVE  /\ x.di[1] \in Rationals /\ x.di[2] \in Rationals /\ y.di[1] = x.di[2] /\ y.di[2] = x.di[1]
           /\ y.adx = x.adx
  <1>1. PICK k \in Positive : k = n - p + 1 /\ k - 1 = n - p
    <2>1. n - p + 1 \in Positive /\ (n - p + 1) - 1 = n - p
      BY DEF Positive
    <2>. QED
      BY <2>1
  <1>2. PICK up \in Seq(Propers) : up = Sums(a, n, p) /\ Len(up) = k
    BY <1>1, SumsAre
  <1>3. PICK down \in Seq(Propers) : down = Sums(b, n, p) /\ Len(down) = k
    BY <1>1, SumsAre
  <1>4. PICK all \in Seq(Propers) : all = Averages(r, n, p) /\ Len(all) = k
    BY <1>1, SumsAre
  <1>5. PICK u, v : u = Shares(up, down, all) /\ v = Shares(down, up, all)
    OBVIOUS
  <1>6. /\ Len(u) = k /\ Len(v) = k
        /\ \A i \in 1..k : u[i][1] \in Rationals /\ u[i][2] \in Rationals /\ v[i][1] = u[i][2] /\ v[i][2] = u[i][1]
    BY <1>2, <1>3, <1>4, <1>5, SharesSwap
  <1>7. x = DmiAnswer(u, n, p) /\ y = DmiAnswer(v, n, p)
    BY <1>2, <1>3, <1>4, <1>5 DEF DmiOf
  <1>8. x.di = u[k] /\ y.di = v[k] /\ k \in 1..k
    BY <1>6, <1>7 DEF DmiAnswer, Last, Positive
  <1>9. \A i \in 1..k : Dx(v[i]) = Dx(u[i])
    <2>. SUFFICES ASSUME NEW i \in 1..k PROVE Dx(v[i]) = Dx(u[i])
      OBVIOUS
    <2>1. PICK c \in Rationals, d \in Rationals : c = u[i][1] /\ d = u[i][2] /\ v[i][1] = d /\ v[i][2] = c
      BY <1>6
    <2>2. Distance(d, c) = Distance(c, d) /\ d ++ c = c ++ d
      BY DistanceIs, PlusIs
    <2>. QED
      BY <2>1, <2>2 DEF Dx
  <1>10. Dxs(v, n - p) = Dxs(u, n - p)
    <2>1. PICK m \in Nat : m = n - p /\ \A i \in 1..m : i + 1 \in 1..k
      BY <1>1 DEF Positive
    <2>2. \A i \in 1..m : Dx(v[i + 1]) = Dx(u[i + 1])
      BY <1>9, <2>1
    <2>3. [i \in 1..m |-> Dx(v[i + 1])] = [i \in 1..m |-> Dx(u[i + 1])]
      BY <2>2
    <2>. QED
      BY <2>1, <2>3 DEF Dxs
  <1>11. y.adx = x.adx
    BY <1>7, <1>10 DEF DmiAnswer
  <1>. QED
    BY <1>6, <1>8, <1>11

(* The same of reflected bars. *)
LEMMA DmiTurns ==
    ASSUME NEW s, NEW t, NEW n \in Nat, TurnedBars(s, t, n + 1), NEW p \in Positive, p <= n, NEW x, NEW y,
           x = Dmi(s, p), y = Dmi(t, p)
    PROVE  /\ x.di[1] \in Rationals /\ x.di[2] \in Rationals /\ y.di[1] = x.di[2] /\ y.di[2] = x.di[1]
           /\ y.adx = x.adx
  <1>1. PICK a \in Seq(Propers), b \in Seq(Propers), r \in Seq(Propers) :
            /\ a = PlusMoves(s, n) /\ Len(a) = n /\ b = MinusMoves(s, n) /\ Len(b) = n
            /\ r = Widths(s, n) /\ Len(r) = n
            /\ PlusMoves(t, n) = b /\ MinusMoves(t, n) = a /\ Widths(t, n) = r
    <2>1. TurnedBars(s, t, n + 1)
      OBVIOUS
    <2>2. /\ PlusMoves(s, n) \in Seq(Propers) /\ Len(PlusMoves(s, n)) = n
          /\ MinusMoves(s, n) \in Seq(Propers) /\ Len(MinusMoves(s, n)) = n
          /\ Widths(s, n) \in Seq(Propers) /\ Len(Widths(s, n)) = n
          /\ PlusMoves(t, n) = MinusMoves(s, n) /\ MinusMoves(t, n) = PlusMoves(s, n) /\ Widths(t, n) = Widths(s, n)
      BY <2>1, MovesSwap
    <2>. QED
      BY <2>2
  <1>2. Len(s) - 1 = n /\ Len(t) - 1 = n
    BY DEF TurnedBars
  <1>3. x = DmiOf(a, b, r, n, p) /\ y = DmiOf(b, a, r, n, p)
    BY <1>1, <1>2, DmiIs
  <1>. QED
    BY <1>1, <1>3, DmiSwaps

(* DmiAdxTrend: the lines cross the other way, the trend is as strong. *)
LEMMA DmiMirrors ==
    ASSUME NEW s, NEW t, NEW n, Enough(n), TurnedBars(s, t, n + 1)
    PROVE  TrendSignals(t).dmi_adx_trend = -TrendSignals(s).dmi_adx_trend
  <1>. DEFINE directional(d0, d) ==
                  IF Whole(20) \preceq d.adx /\ d0.adx \preceq d.adx
                    THEN Crosses(d0.di[1], d.di[1], d0.di[2], d.di[2]) ELSE 0
  <1>1. TurnedBars(Front(s), Front(t), n) /\ n \in Nat
    BY TurnedNowAndBefore
  <1>2. PICK m \in Nat : n = m + 1 /\ TurnedBars(Front(s), Front(t), m + 1)
    <2>1. PICK m \in Nat : n = m + 1
      <3>1. n - 1 \in Nat /\ n = (n - 1) + 1
        BY DEF Enough, Positive
      <3>. QED
        BY <3>1
    <2>. QED
      BY <1>1, <2>1
  <1>3. Period \in Positive /\ Period <= n /\ Period <= m
    BY <1>1, <1>2, Periods DEF Enough, Positive
  <1>4. PICK x, y, x0, y0 : /\ x = Dmi(s, Period) /\ y = Dmi(t, Period)
                            /\ x0 = Dmi(Front(s), Period) /\ y0 = Dmi(Front(t), Period)
    OBVIOUS
  <1>5. /\ x.di[1] \in Rationals /\ x.di[2] \in Rationals /\ y.di[1] = x.di[2] /\ y.di[2] = x.di[1]
        /\ y.adx = x.adx
    BY <1>1, <1>3, <1>4, DmiTurns
  <1>6. /\ x0.di[1] \in Rationals /\ x0.di[2] \in Rationals /\ y0.di[1] = x0.di[2] /\ y0.di[2] = x0.di[1]
        /\ y0.adx = x0.adx
    BY <1>2, <1>3, <1>4, DmiTurns
  <1>7. TrendSignals(s).dmi_adx_trend = directional(x0, x) /\ TrendSignals(t).dmi_adx_trend = directional(y0, y)
    BY <1>4 DEF TrendSignals
  <1>8. PICK c \in Int : /\ c = Crosses(x0.di[1], x.di[1], x0.di[2], x.di[2])
                         /\ Crosses(x0.di[2], x.di[2], x0.di[1], x.di[1]) = -c
    <2>1. Crosses(x0.di[1], x.di[1], x0.di[2], x.di[2]) \in Int
      BY DEF Crosses, Choose
    <2>2. Crosses(x0.di[2], x.di[2], x0.di[1], x.di[1]) = -Crosses(x0.di[1], x.di[1], x0.di[2], x.di[2])
      BY <1>5, <1>6, SwappedLines
    <2>. QED
      BY <2>1, <2>2
  <1>9. PICK on : on = (Whole(20) \preceq x.adx /\ x0.adx \preceq x.adx)
    OBVIOUS
  <1>10. directional(x0, x) = IF on THEN c ELSE 0
    BY <1>8, <1>9
  <1>11. directional(y0, y) = IF on THEN -c ELSE 0
    BY <1>5, <1>6, <1>8, <1>9
  <1>. HIDE DEF directional
  <1>12. TrendSignals(s).dmi_adx_trend = IF on THEN c ELSE 0
    BY <1>7, <1>10
  <1>13. TrendSignals(t).dmi_adx_trend = IF on THEN -c ELSE 0
    BY <1>7, <1>11
  <1>. QED
    BY <1>12, <1>13

(* AtrBreakout, DmiAdxTrend, AroonTrend, KeltnerBreakout and IchimokuTrend. *)
LEMMA TrendMirrors ==
    ASSUME NEW s, NEW t, NEW n, Enough(n), TurnedBars(s, t, n + 1)
    PROVE  Opposite(Lopsided, TrendSignals(t), TrendSignals(s))
  <1>1. /\ TrendSignals(t).atr_breakout = -TrendSignals(s).atr_breakout
        /\ TrendSignals(t).dmi_adx_trend = -TrendSignals(s).dmi_adx_trend
        /\ TrendSignals(t).aroon_trend = -TrendSignals(s).aroon_trend
        /\ TrendSignals(t).keltner_breakout = -TrendSignals(s).keltner_breakout
        /\ TrendSignals(t).ichimoku_trend = -TrendSignals(s).ichimoku_trend
    BY AtrBreakoutMirrors, DmiMirrors, AroonMirrors, KeltnerMirrors, IchimokuMirrors
  <1>2. \A name \in DOMAIN TrendSignals(t) \ Lopsided : TrendSignals(t)[name] = -TrendSignals(s)[name]
    <2>. SUFFICES ASSUME NEW name \in DOMAIN TrendSignals(t) \ Lopsided
                  PROVE  TrendSignals(t)[name] = -TrendSignals(s)[name]
      OBVIOUS
    <2>1. name \in {"atr_breakout", "dmi_adx_trend", "aroon_trend", "keltner_breakout", "ichimoku_trend"}
      BY DEF TrendSignals, Lopsided
    <2>. QED
      BY <1>1, <2>1
  <1>. QED
    BY <1>2 DEF Opposite

-----------------------------------------------------------------------------
\* The Heikin-Ashi candles of reflected bars.
Candles == [open : Rationals, close : Rationals]
FlipCandle(c) == [open |-> Flip(Top, c.open), close |-> Flip(Top, c.close)]

(* A candle and its reflection. *)
LEMMA FlippedCandle ==
    ASSUME NEW c \in Candles
    PROVE  /\ c.open \in Rationals /\ c.close \in Rationals /\ FlipCandle(c) \in Candles
           /\ FlipCandle(c).open = Flip(Top, c.open) /\ FlipCandle(c).close = Flip(Top, c.close)
  <1>1. c.open \in Rationals /\ c.close \in Rationals
    BY DEF Candles
  <1>2. PICK height \in Int : height = Top
    BY Periods
  <1>3. PICK a \in Rationals, b \in Rationals : a = Flip(Top, c.open) /\ b = Flip(Top, c.close)
    BY <1>1, <1>2, FlipParts
  <1>4. FlipCandle(c) = [open |-> a, close |-> b]
    BY <1>3 DEF FlipCandle
  <1>. QED
    BY <1>1, <1>3, <1>4 DEF Candles

(* The mean price of a reflected bar is the mean price reflected. *)
LEMMA HeikinCloseFlips ==
    ASSUME NEW b \in GoodBar
    PROVE  HeikinClose(b) \in Rationals /\ HeikinClose(Turned(b)) = Flip(Top, HeikinClose(b))
  <1>1. PICK height \in Int : height = Top
    BY Periods
  <1>2. PICK o \in Int, h \in Int, l \in Int, c \in Int :
            /\ o = b.open /\ h = b.high /\ l = b.low /\ c = b.close
            /\ Turned(b).open = height - o /\ Turned(b).high = height - l /\ Turned(b).low = height - h
            /\ Turned(b).close = height - c
    <2>1. /\ b.open \in Int /\ b.high \in Int /\ b.low \in Int /\ b.close \in Int
          /\ Turned(b).open = Top - b.open /\ Turned(b).high = Top - b.low /\ Turned(b).low = Top - b.high
          /\ Turned(b).close = Top - b.close
      BY TurnedBar
    <2>. QED
      BY <1>1, <2>1
  <1>3. PICK m \in Int : m = o + h + l + c
    OBVIOUS
  <1>4. PICK four \in Positive : four = 4
    BY DEF Positive
  <1>5. (height - o) + (height - l) + (height - h) + (height - c) = height * four - m
    BY <1>3, <1>4
  <1>6. HeikinClose(b) = Fraction(m, four) /\ HeikinClose(Turned(b)) = Fraction(height * four - m, four)
    BY <1>2, <1>3, <1>4, <1>5 DEF HeikinClose
  <1>7. Fraction(height * four - m, four) = Flip(height, Fraction(m, four))
    BY FractionFlips
  <1>8. Fraction(m, four) \in Rationals
    BY FractionIsProper DEF Proper
  <1>. QED
    BY <1>1, <1>6, <1>7, <1>8

(* So is the first candle. *)
LEMMA HeikinStartFlips ==
    ASSUME NEW b \in GoodBar
    PROVE  HeikinStart(b) \in Candles /\ HeikinStart(Turned(b)) = FlipCandle(HeikinStart(b))
  <1>1. PICK height \in Int : height = Top
    BY Periods
  <1>2. PICK o \in Int, c \in Int :
            o = b.open /\ c = b.close /\ Turned(b).open = height - o /\ Turned(b).close = height - c
    BY <1>1, TurnedBar
  <1>3. PICK m \in Int : m = o + c
    OBVIOUS
  <1>4. PICK two \in Positive : two = 2
    BY DEF Positive
  <1>5. (height - o) + (height - c) = height * two - m
    BY <1>3, <1>4
  <1>6. Fraction(height * two - m, two) = Flip(height, Fraction(m, two))
    BY FractionFlips
  <1>7. PICK f \in Rationals : f = Fraction(m, two)
    BY FractionIsProper DEF Proper
  <1>8. PICK g \in Rationals : g = HeikinClose(b) /\ HeikinClose(Turned(b)) = Flip(Top, g)
    BY HeikinCloseFlips
  <1>9. HeikinStart(b) = [open |-> f, close |-> g]
    BY <1>2, <1>3, <1>4, <1>7, <1>8 DEF HeikinStart
  <1>10. HeikinStart(Turned(b)) = [open |-> Flip(Top, f), close |-> Flip(Top, g)]
    BY <1>1, <1>2, <1>4, <1>5, <1>6, <1>7, <1>8 DEF HeikinStart
  <1>. QED
    BY <1>9, <1>10 DEF Candles, FlipCandle

(* So is every next one. *)
LEMMA HeikinStepFlips ==
    ASSUME NEW a \in Candles, NEW b \in GoodBar
    PROVE  HeikinStep(a, b) \in Candles /\ HeikinStep(FlipCandle(a), Turned(b)) = FlipCandle(HeikinStep(a, b))
  <1>1. PICK height \in Int : height = Top
    BY Periods
  <1>2. PICK o \in Rationals, c \in Rationals :
            /\ o = a.open /\ c = a.close
            /\ FlipCandle(a).open = Flip(height, o) /\ FlipCandle(a).close = Flip(height, c)
    BY <1>1, FlippedCandle
  <1>3. PICK two \in Positive : two = 2
    BY DEF Positive
  <1>4. PICK q \in Rationals : q = o ++ c
    BY PlusIs
  <1>5. Flip(height, o) ++ Flip(height, c) = Flip(two * height, q)
    <2>1. Flip(height, o) ++ Flip(height, c) = Flip(height + height, q)
      BY <1>4, PlusFlips
    <2>2. height + height = two * height
      BY <1>3
    <2>. QED
      BY <2>1, <2>2
  <1>6. PICK f \in Rationals : f = q // Whole(two) /\ Flip(two * height, q) // Whole(two) = Flip(height, f)
    BY PartFlips
  <1>7. PICK g \in Rationals : g = HeikinClose(b) /\ HeikinClose(Turned(b)) = Flip(Top, g)
    BY HeikinCloseFlips
  <1>8. HeikinStep(a, b) = [open |-> f, close |-> g]
    BY <1>2, <1>3, <1>4, <1>6, <1>7 DEF HeikinStep
  <1>9. HeikinStep(FlipCandle(a), Turned(b)) = [open |-> Flip(Top, f), close |-> Flip(Top, g)]
    BY <1>1, <1>2, <1>3, <1>5, <1>6, <1>7 DEF HeikinStep
  <1>. QED
    BY <1>8, <1>9 DEF Candles, FlipCandle

(* The candles start with the first bar and go on bar by bar. *)
LEMMA HeikinUnfolds ==
    ASSUME NEW n \in Nat, NEW s \in Seq(GoodBar), Len(s) = n + 1
    PROVE  /\ HeikinAshi(s) \in Seq(Candles) /\ Len(HeikinAshi(s)) = n + 1
           /\ HeikinAshi(s)[1] = HeikinStart(s[1])
           /\ \A i \in 1..n : HeikinAshi(s)[i + 1] = HeikinStep(HeikinAshi(s)[i], s[i + 1])
  <1>1. Len(Tail(s)) = n /\ s[1] \in GoodBar /\ \A i \in 1..n : Tail(s)[i] = s[i + 1] /\ s[i + 1] \in GoodBar
    BY TailProperties
  <1>. DEFINE h == [c \in Candles \X (1..n) |-> HeikinStep(c[1], s[c[2] + 1])]
              g == CHOOSE f : HeikinRun(f, s)
  <1>2. h \in [Candles \X (1..n) -> Candles]
    <2>1. \A c \in Candles \X (1..n) : HeikinStep(c[1], s[c[2] + 1]) \in Candles
      BY <1>1, HeikinStepFlips
    <2>. QED
      BY <2>1
  <1>3. \A a \in Candles, i \in 1..n : h[<<a, i>>] = HeikinStep(a, Tail(s)[i]) /\ h[<<a, i>>] = HeikinStep(a, s[i + 1])
    BY <1>1
  <1>. HIDE DEF h
  <1>c. PICK a \in Candles : a = HeikinStart(s[1])
    BY <1>1, HeikinStartFlips
  <1>4. PICK f : f = [i \in 0..n |-> f[i]] /\ Stepwise(f, Candles, a, h, n)
    BY <1>1, <1>2, RunExists
  <1>a. Stepwise(f, Candles, a, h, n)
    BY <1>4
  <1>5. HeikinRun(f, s)
    <2>. DEFINE next(done, i) == Append(done, HeikinStep(Last(done), Tail(s)[i]))
    <2>a. Results(f, Candles, a, h, n)
      BY <1>2, <1>a, RunUnfolds
    <2>1. \A i \in 0..n : f[i] \in Seq(Candles) /\ Len(f[i]) = i + 1
      BY <2>a DEF Results
    <2>2. f[0] = <<HeikinStart(s[1])>>
      BY <1>a, <1>c DEF Stepwise
    <2>3. ASSUME NEW i \in 1..n PROVE f[i] = next(f[i - 1], i)
      <3>1. i - 1 \in 0..n /\ i - 1 + 1 = i /\ i \in 1..i
        OBVIOUS
      <3>2. Last(f[i - 1]) \in Candles
        BY <2>1, <3>1 DEF Last
      <3>. QED
        BY <1>3, <1>a, <3>2 DEF Stepwise
    <2>4. \A i \in 0..n : f[i] = IF i = 0 THEN <<HeikinStart(s[1])>> ELSE next(f[i - 1], i)
      <3>. HIDE DEF next
      <3>. QED
        BY <2>2, <2>3
    <2>5. f = [i \in 0..n |-> IF i = 0 THEN <<HeikinStart(s[1])>> ELSE next(f[i - 1], i)]
      <3>. HIDE DEF next
      <3>. QED
        BY <1>4, <2>4
    <2>. QED
      BY <1>1, <2>5 DEF HeikinRun
  <1>6. HeikinRun(g, s)
    BY <1>5
  <1>7. HeikinAshi(s) = g[n]
    BY <1>1, HeikinIsRun
  <1>. HIDE DEF g
  <1>8. Stepwise(g, Candles, a, h, n)
    <2>. DEFINE next(done, i) == Append(done, HeikinStep(Last(done), Tail(s)[i]))
    <2>1. g = [i \in 0..n |-> IF i = 0 THEN <<HeikinStart(s[1])>> ELSE next(g[i - 1], i)]
      BY <1>1, <1>6 DEF HeikinRun
    <2>2. g[0] = <<HeikinStart(s[1])>> /\ \A i \in 1..n : g[i] = next(g[i - 1], i)
      <3>. HIDE DEF next
      <3>1. \A i \in 0..n : g[i] = IF i = 0 THEN <<HeikinStart(s[1])>> ELSE next(g[i - 1], i)
        BY <2>1
      <3>. QED
        BY <3>1
    <2>. QED
      BY <1>3, <1>c, <2>2 DEF Stepwise
  <1>b. Results(g, Candles, a, h, n)
    BY <1>2, <1>8, RunUnfolds
  <1>9. /\ \A i \in 0..n : g[i] \in Seq(Candles) /\ Len(g[i]) = i + 1
        /\ g[n][1] = HeikinStart(s[1]) /\ \A i \in 1..n : g[n][i + 1] = h[<<g[n][i], i>>]
    BY <1>b, <1>c DEF Results
  <1>10. g[n] \in Seq(Candles) /\ Len(g[n]) = n + 1
    <2>1. n \in 0..n
      OBVIOUS
    <2>. QED
      BY <1>9, <2>1
  <1>11. ASSUME NEW i \in 1..n PROVE g[n][i + 1] = HeikinStep(g[n][i], s[i + 1])
    <2>1. i \in 1..Len(g[n])
      BY <1>10
    <2>2. g[n][i] \in Candles
      BY <1>10, <2>1
    <2>. QED
      BY <1>3, <1>9, <2>2
  <1>. QED
    BY <1>7, <1>9, <1>10, <1>11

\* Every candle of the reflected bars is the candle of the bars reflected.
LEMMA HeikinFlips ==
    ASSUME NEW s, NEW t, NEW n \in Positive, TurnedBars(s, t, n)
    PROVE  \A i \in 1..n : HeikinAshi(s)[i] \in Candles /\ HeikinAshi(t)[i] = FlipCandle(HeikinAshi(s)[i])
  <1>1. /\ s \in Seq(GoodBar) /\ t \in Seq(GoodBar) /\ Len(s) = n /\ Len(t) = n
        /\ \A i \in 1..n : s[i] \in GoodBar /\ t[i] = Turned(s[i])
    BY DEF TurnedBars
  <1>2. PICK m \in Nat : m = n - 1 /\ n = m + 1
    <2>1. n - 1 \in Nat /\ n = (n - 1) + 1
      BY DEF Positive
    <2>. QED
      BY <2>1
  <1>3. PICK a : /\ a = HeikinAshi(s) /\ a \in Seq(Candles) /\ Len(a) = n /\ a[1] = HeikinStart(s[1])
                 /\ \A i \in 1..m : a[i + 1] = HeikinStep(a[i], s[i + 1])
    BY <1>1, <1>2, HeikinUnfolds
  <1>4. PICK b : /\ b = HeikinAshi(t) /\ b[1] = HeikinStart(t[1])
                 /\ \A i \in 1..m : b[i + 1] = HeikinStep(b[i], t[i + 1])
    BY <1>1, <1>2, HeikinUnfolds
  <1>. DEFINE T == {i \in Nat : i <= m => b[i + 1] = FlipCandle(a[i + 1])}
  <1>5. 0 \in T
    <2>1. 0 + 1 = 1 /\ 1 \in 1..n
      BY <1>2
    <2>2. b[1] = FlipCandle(a[1])
      BY <1>1, <1>3, <1>4, <2>1, HeikinStartFlips
    <2>. QED
      BY <2>1, <2>2
  <1>6. ASSUME NEW i \in Nat, i \in T PROVE i + 1 \in T
    <2>1. CASE i + 1 <= m
      <3>1. PICK j \in Nat : j = i + 1
        OBVIOUS
      <3>2. j \in 1..m /\ j \in 1..n /\ j + 1 \in 1..n
        BY <1>2, <2>1, <3>1
      <3>3. b[j] = FlipCandle(a[j]) /\ a[j] \in Candles
        BY <1>3, <1>6, <2>1, <3>1, <3>2
      <3>4. b[j + 1] = HeikinStep(b[j], t[j + 1]) /\ a[j + 1] = HeikinStep(a[j], s[j + 1])
        BY <1>3, <1>4, <3>2
      <3>5. s[j + 1] \in GoodBar /\ t[j + 1] = Turned(s[j + 1])
        BY <1>1, <3>2
      <3>6. b[j + 1] = FlipCandle(a[j + 1])
        BY <3>3, <3>4, <3>5, HeikinStepFlips
      <3>. QED
        BY <3>1, <3>6
    <2>. QED
      BY <2>1
  <1>7. \A i \in Nat : i \in T
    <2>. HIDE DEF T
    <2>. QED
      BY <1>5, <1>6, Induct
  <1>8. ASSUME NEW i \in 1..n PROVE a[i] \in Candles /\ b[i] = FlipCandle(a[i])
    <2>1. i - 1 \in Nat /\ i - 1 <= m /\ (i - 1) + 1 = i
      BY <1>2
    <2>2. b[(i - 1) + 1] = FlipCandle(a[(i - 1) + 1])
      BY <1>7, <2>1
    <2>3. a[i] \in Candles
      BY <1>3
    <2>. QED
      BY <2>1, <2>2, <2>3
  <1>. QED
    BY <1>3, <1>4, <1>8

\* A candle that rises without a shadow falls without one when reflected.
LEMMA CandleMirrors ==
    ASSUME NEW c \in Candles, NEW b \in GoodBar
    PROVE  /\ Bullish(FlipCandle(c), Turned(b)) <=> Bearish(c, b)
           /\ Bearish(FlipCandle(c), Turned(b)) <=> Bullish(c, b)
           /\ ~(Bullish(c, b) /\ Bearish(c, b))
  <1>1. PICK height \in Int : height = Top
    BY Periods
  <1>2. PICK o \in Rationals, e \in Rationals :
            /\ o = c.open /\ e = c.close
            /\ FlipCandle(c).open = Flip(height, o) /\ FlipCandle(c).close = Flip(height, e)
    BY <1>1, FlippedCandle
  <1>3. PICK h \in Int, l \in Int : /\ h = b.high /\ l = b.low
                                    /\ Turned(b).high = height - l /\ Turned(b).low = height - h
    BY <1>1, TurnedBar
  <1>4. PICK u \in Rationals, w \in Rationals :
            /\ u = Whole(h) /\ w = Whole(l) /\ Whole(height - h) = Flip(height, u) /\ Whole(height - l) = Flip(height, w)
    BY <1>3, Wholly
  <1>5. /\ Mirrors(height, Flip(height, o), o) /\ Mirrors(height, Flip(height, e), e)
        /\ Mirrors(height, Flip(height, u), u) /\ Mirrors(height, Flip(height, w), w)
    BY FlipMirrors
  <1>6. /\ Flip(height, o) \prec Flip(height, e) <=> e \prec o
        /\ Flip(height, e) \prec Flip(height, o) <=> o \prec e
    BY <1>5, MirrorOrder
  <1>7. /\ Flip(height, o) \preceq Flip(height, u) <=> u \preceq o
        /\ Flip(height, w) \preceq Flip(height, o) <=> o \preceq w
    BY <1>5, MirrorOrder
  <1>8. ~(o \prec e /\ e \prec o)
    BY OrderIs
  <1>9. /\ Bullish(c, b) <=> o \prec e /\ o \preceq w
        /\ Bearish(c, b) <=> e \prec o /\ u \preceq o
    BY <1>2, <1>3, <1>4 DEF Bullish, Bearish
  <1>10. /\ Bullish(FlipCandle(c), Turned(b)) <=> Flip(height, o) \prec Flip(height, e) /\ Flip(height, o) \preceq Flip(height, u)
         /\ Bearish(FlipCandle(c), Turned(b)) <=> Flip(height, e) \prec Flip(height, o) /\ Flip(height, w) \preceq Flip(height, o)
    BY <1>2, <1>3, <1>4 DEF Bullish, Bearish
  <1>. QED
    BY <1>6, <1>7, <1>8, <1>9, <1>10

-----------------------------------------------------------------------------
(* Nothing is above the channel and below it. *)
LEMMA NotAboveAndBelow ==
    ASSUME NEW l \in Int, NEW h \in Int, l <= h, NEW c \in Rationals
    PROVE  ~(Whole(h) \prec c /\ c \prec Whole(l))
  <1>1. PICK a \in Rationals, b \in Rationals : a = Whole(l) /\ b = Whole(h)
    BY Wholly
  <1>2. a \preceq b
    <2>1. (a \preceq b) = (l * 1 <= h * 1)
      <3>1. a[1] = l /\ a[2] = 1 /\ b[1] = h /\ b[2] = 1
        BY <1>1 DEF Whole
      <3>2. (a \preceq b) = (a[1] * b[2] <= b[1] * a[2])
        BY UpToIs DEF AtMost
      <3>. QED
        BY <3>1, <3>2
    <2>2. l * 1 <= h * 1
      OBVIOUS
    <2>. QED
      BY <2>1, <2>2
  <1>3. SUFFICES ASSUME b \prec c, c \prec a PROVE FALSE
    BY <1>1
  <1>4. c \preceq a
    BY <1>3, OrderIs
  <1>5. c \preceq b
    BY <1>2, <1>4, OrderIsTransitive
  <1>6. ~(c \preceq b)
    BY <1>3, OrderIs
  <1>. QED
    BY <1>5, <1>6

(* VolumeSpikeBreakout: the volumes are the same, the channel is reflected. *)
LEMMA VolumeSpikeMirrors ==
    ASSUME NEW s, NEW t, NEW n, Enough(n), TurnedBars(s, t, n + 1)
    PROVE  BreakoutSignals(t).volume_spike_breakout = -BreakoutSignals(s).volume_spike_breakout
  <1>1. /\ TurnedBars(Front(s), Front(t), n) /\ n \in Nat /\ n + 1 \in Nat /\ n + 1 \in Positive /\ n \in Positive
        /\ Last(Closes(s)) \in Rationals /\ Last(Closes(t)) = Flip(Top, Last(Closes(s)))
    BY TurnedNowAndBefore DEF Enough
  <1>2. PICK height \in Int : height = Top
    BY Periods
  <1>3. Period \in Positive /\ Period <= n
    BY <1>1, Periods DEF Enough, Positive
  <1>4. PICK h \in Int, l \in Int :
            /\ h = Highest(Recent(Front(s), Period)) /\ l = Lowest(Recent(Front(s), Period)) /\ l <= h
            /\ Highest(Recent(Front(t), Period)) = Top - l /\ Lowest(Recent(Front(t), Period)) = Top - h
    <2>1. TurnedBars(Front(s), Front(t), n)
      BY <1>1
    <2>. QED
      BY <1>1, <1>3, <2>1, TurnedChannel
  <1>5. PICK x, y : x = Recent(Front(s), Period) /\ y = Recent(Front(t), Period) /\ TurnedBars(x, y, Period)
    <2>1. TurnedBars(Front(s), Front(t), n)
      BY <1>1
    <2>. QED
      BY <1>1, <1>3, <2>1, TurnedRecent
  <1>6. \A i \in 1..Period : y[i].volume = x[i].volume
    <2>1. TurnedBars(x, y, Period)
      BY <1>5
    <2>. QED
      BY <1>3, <2>1, TurnedPrices
  <1>7. Last(t).volume = Last(s).volume
    <2>1. PICK m \in Positive : m = n + 1 /\ TurnedBars(s, t, m)
      BY <1>1
    <2>2. m \in 1..m /\ TurnedBars(s, t, m)
      BY <2>1 DEF Positive
    <2>3. t[m].volume = s[m].volume
      BY <2>2, TurnedPrices
    <2>4. Last(s) = s[m] /\ Last(t) = t[m]
      BY <2>2, TurnedOne
    <2>. QED
      BY <2>3, <2>4
  <1>8. PICK usual : /\ usual = Mean([i \in 1..Period |-> Whole(x[i].volume)])
                     /\ usual = Mean([i \in 1..Period |-> Whole(y[i].volume)])
    <2>1. [i \in 1..Period |-> Whole(x[i].volume)] = [i \in 1..Period |-> Whole(y[i].volume)]
      BY <1>6
    <2>. QED
      BY <2>1
  <1>9. PICK spike : spike = (<<9, 5>> ** usual \preceq Whole(Last(s).volume))
    OBVIOUS
  <1>10. PICK c \in Rationals : c = Last(Closes(s)) /\ Last(Closes(t)) = Flip(height, c)
    BY <1>1, <1>2
  <1>11. PICK a \in Rationals, b \in Rationals : /\ a = Whole(l) /\ Flip(height, a) = Whole(height - l)
                                                 /\ b = Whole(h) /\ Flip(height, b) = Whole(height - h)
    BY Wholly
  <1>12. ~(b \prec c /\ c \prec a)
    BY <1>4, <1>11, NotAboveAndBelow
  <1>13. /\ Flip(height, a) \prec Flip(height, c) <=> c \prec a
         /\ Flip(height, c) \prec Flip(height, b) <=> b \prec c
    <2>1. Mirrors(height, Flip(height, a), a) /\ Mirrors(height, Flip(height, b), b) /\ Mirrors(height, Flip(height, c), c)
      BY FlipMirrors
    <2>. QED
      BY <2>1, MirrorOrder
  <1>14. BreakoutSignals(s).volume_spike_breakout = Choose(spike /\ b \prec c, spike /\ c \prec a)
    BY <1>4, <1>5, <1>8, <1>9, <1>10, <1>11 DEF BreakoutSignals
  <1>15. BreakoutSignals(t).volume_spike_breakout
             = Choose(spike /\ Flip(height, a) \prec Flip(height, c), spike /\ Flip(height, c) \prec Flip(height, b))
    BY <1>2, <1>4, <1>5, <1>7, <1>8, <1>9, <1>10, <1>11 DEF BreakoutSignals
  <1>. QED
    BY <1>12, <1>13, <1>14, <1>15 DEF Choose

\* The last k candles up to the n-th all rise, or all fall.
Rising(candle, r, n) == \A i \in (n - Period + 1)..n : Bullish(candle[i], r[i])
Falling(candle, r, n) == \A i \in (n - Period + 1)..n : Bearish(candle[i], r[i])

(* A row of rising candles is a row of falling ones when reflected, and no row is both. *)
LEMMA RowsMirror ==
    ASSUME NEW s, NEW t, NEW n \in Positive, TurnedBars(s, t, n), NEW k \in Nat, Period <= k, k <= n
    PROVE  /\ Rising(HeikinAshi(t), t, k) <=> Falling(HeikinAshi(s), s, k)
           /\ Falling(HeikinAshi(t), t, k) <=> Rising(HeikinAshi(s), s, k)
           /\ ~(Rising(HeikinAshi(s), s, k) /\ Falling(HeikinAshi(s), s, k))
  <1>1. PICK a, b : a = HeikinAshi(s) /\ b = HeikinAshi(t)
    OBVIOUS
  <1>2. PICK first \in Int : first = k - Period + 1
    BY Periods DEF Positive
  <1>3. \A i \in first..k : i \in 1..n
    BY <1>2, Periods DEF Positive
  <1>4. ASSUME NEW i \in first..k
        PROVE  /\ Bullish(b[i], t[i]) <=> Bearish(a[i], s[i])
               /\ Bearish(b[i], t[i]) <=> Bullish(a[i], s[i])
               /\ ~(Bullish(a[i], s[i]) /\ Bearish(a[i], s[i]))
    <2>1. i \in 1..n
      BY <1>3
    <2>2. PICK c \in Candles : c = a[i] /\ b[i] = FlipCandle(c)
      BY <1>1, <2>1, HeikinFlips
    <2>3. PICK bar \in GoodBar : bar = s[i] /\ t[i] = Turned(bar)
      BY <2>1, TurnedOne
    <2>4. /\ Bullish(FlipCandle(c), Turned(bar)) <=> Bearish(c, bar)
          /\ Bearish(FlipCandle(c), Turned(bar)) <=> Bullish(c, bar)
          /\ ~(Bullish(c, bar) /\ Bearish(c, bar))
      BY CandleMirrors
    <2>. QED
      BY <2>2, <2>3, <2>4
  <1>5. k \in first..k
    BY <1>2, Periods DEF Positive
  <1>6. /\ Rising(a, s, k) <=> \A i \in first..k : Bullish(a[i], s[i])
        /\ Falling(a, s, k) <=> \A i \in first..k : Bearish(a[i], s[i])
        /\ Rising(b, t, k) <=> \A i \in first..k : Bullish(b[i], t[i])
        /\ Falling(b, t, k) <=> \A i \in first..k : Bearish(b[i], t[i])
    BY <1>2 DEF Rising, Falling
  <1>. QED
    BY <1>1, <1>4, <1>5, <1>6

(* HeikinAshiTrend: a row that starts, reflected. *)
LEMMA HeikinMirrors ==
    ASSUME NEW s, NEW t, NEW n, Enough(n), TurnedBars(s, t, n + 1)
    PROVE  BreakoutSignals(t).heikin_ashi_trend = -BreakoutSignals(s).heikin_ashi_trend
  <1>1. n \in Nat /\ n + 1 \in Positive
    BY TurnedNowAndBefore
  <1>2. PICK m \in Positive : m = n + 1 /\ TurnedBars(s, t, m)
    BY <1>1
  <1>3. Len(s) = m /\ Len(t) = m /\ m - 1 = n /\ m \in Nat
    BY <1>1, <1>2 DEF TurnedBars, Positive
  <1>4. Period <= n /\ Period <= m /\ n <= m
    BY <1>1, <1>2, Periods DEF Enough, Positive
  <1>5. PICK up, down, up0, down0 :
            /\ up = Rising(HeikinAshi(s), s, m) /\ down = Falling(HeikinAshi(s), s, m)
            /\ up0 = Rising(HeikinAshi(s), s, n) /\ down0 = Falling(HeikinAshi(s), s, n)
    OBVIOUS
  <1>6. /\ Rising(HeikinAshi(t), t, m) <=> Falling(HeikinAshi(s), s, m)
        /\ Falling(HeikinAshi(t), t, m) <=> Rising(HeikinAshi(s), s, m)
        /\ ~(Rising(HeikinAshi(s), s, m) /\ Falling(HeikinAshi(s), s, m))
    <2>1. TurnedBars(s, t, m) /\ m <= m
      BY <1>2, <1>3
    <2>. QED
      BY <1>3, <1>4, <2>1, RowsMirror
  <1>7. /\ Rising(HeikinAshi(t), t, n) <=> Falling(HeikinAshi(s), s, n)
        /\ Falling(HeikinAshi(t), t, n) <=> Rising(HeikinAshi(s), s, n)
    <2>1. TurnedBars(s, t, m)
      BY <1>2
    <2>. QED
      BY <1>1, <1>4, <2>1, RowsMirror
  <1>8. BreakoutSignals(s).heikin_ashi_trend
            = Choose(Rising(HeikinAshi(s), s, m) /\ ~Rising(HeikinAshi(s), s, n),
                     Falling(HeikinAshi(s), s, m) /\ ~Falling(HeikinAshi(s), s, n))
    BY <1>3 DEF BreakoutSignals, Rising, Falling
  <1>9. BreakoutSignals(t).heikin_ashi_trend
            = Choose(Rising(HeikinAshi(t), t, m) /\ ~Rising(HeikinAshi(t), t, n),
                     Falling(HeikinAshi(t), t, m) /\ ~Falling(HeikinAshi(t), t, n))
    BY <1>3 DEF BreakoutSignals, Rising, Falling
  <1>. QED
    BY <1>6, <1>7, <1>8, <1>9 DEF Choose

(* VolumeSpikeBreakout and HeikinAshiTrend. *)
LEMMA BreakoutMirrors ==
    ASSUME NEW s, NEW t, NEW n, Enough(n), TurnedBars(s, t, n + 1)
    PROVE  Opposite(Lopsided, BreakoutSignals(t), BreakoutSignals(s))
  <1>1. /\ BreakoutSignals(t).volume_spike_breakout = -BreakoutSignals(s).volume_spike_breakout
        /\ BreakoutSignals(t).heikin_ashi_trend = -BreakoutSignals(s).heikin_ashi_trend
    BY VolumeSpikeMirrors, HeikinMirrors
  <1>2. \A name \in DOMAIN BreakoutSignals(t) \ Lopsided : BreakoutSignals(t)[name] = -BreakoutSignals(s)[name]
    <2>. SUFFICES ASSUME NEW name \in DOMAIN BreakoutSignals(t) \ Lopsided
                  PROVE  BreakoutSignals(t)[name] = -BreakoutSignals(s)[name]
      OBVIOUS
    <2>1. name \in {"volume_spike_breakout", "heikin_ashi_trend"}
      BY DEF BreakoutSignals, Lopsided
    <2>. QED
      BY <1>1, <2>1
  <1>. QED
    BY <1>2 DEF Opposite

-----------------------------------------------------------------------------
(* Groups are opposite where each of them is. *)
LEMMA JoinedOpposite ==
    ASSUME NEW f, NEW g, NEW f0, NEW g0, NEW Some, DOMAIN f0 = DOMAIN f, DOMAIN g0 = DOMAIN g,
           Opposite(Some, f, f0), Opposite(Some, g, g0)
    PROVE  Opposite(Some, f & g, f0 & g0) /\ DOMAIN (f0 & g0) = DOMAIN (f & g)
  BY DEF Opposite, &

(* A strategy that is not lopsided says the opposite of reflected bars. *)
LEMMA SignalsMirror ==
    ASSUME NEW s, NEW t, NEW n, Enough(n), TurnedBars(s, t, n + 1)
    PROVE  Opposite(Lopsided, Signals(t), Signals(s))
  <1>1. /\ Opposite(Lopsided, AverageSignals(t), AverageSignals(s))
        /\ Opposite(Lopsided, OscillatorSignals(t), OscillatorSignals(s))
        /\ Opposite(Lopsided, BandSignals(t), BandSignals(s))
        /\ Opposite(Lopsided, VolumeSignals(t), VolumeSignals(s))
    BY AverageMirrors, OscillatorMirrors, BandMirrors, VolumeMirrors
  <1>2. /\ Opposite(Lopsided, TrendSignals(t), TrendSignals(s))
        /\ Opposite(Lopsided, ChannelSignals(t), ChannelSignals(s))
        /\ Opposite(Lopsided, PullbackSignals(t), PullbackSignals(s))
        /\ Opposite(Lopsided, BreakoutSignals(t), BreakoutSignals(s))
    BY TrendMirrors, ChannelMirrors, PullbackMirrors, BreakoutMirrors
  <1>3. /\ DOMAIN AverageSignals(s) = DOMAIN AverageSignals(t)
        /\ DOMAIN OscillatorSignals(s) = DOMAIN OscillatorSignals(t)
        /\ DOMAIN BandSignals(s) = DOMAIN BandSignals(t)
        /\ DOMAIN VolumeSignals(s) = DOMAIN VolumeSignals(t)
    BY DEF AverageSignals, OscillatorSignals, BandSignals, VolumeSignals
  <1>4. /\ DOMAIN TrendSignals(s) = DOMAIN TrendSignals(t)
        /\ DOMAIN ChannelSignals(s) = DOMAIN ChannelSignals(t)
        /\ DOMAIN PullbackSignals(s) = DOMAIN PullbackSignals(t)
        /\ DOMAIN BreakoutSignals(s) = DOMAIN BreakoutSignals(t)
    BY DEF TrendSignals, ChannelSignals, PullbackSignals, BreakoutSignals
  <1>. DEFINE two(some) == AverageSignals(some) & OscillatorSignals(some)
              three(some) == two(some) & BandSignals(some)
              four(some) == three(some) & VolumeSignals(some)
              five(some) == four(some) & TrendSignals(some)
              six(some) == five(some) & ChannelSignals(some)
              seven(some) == six(some) & PullbackSignals(some)
              eight(some) == seven(some) & BreakoutSignals(some)
  <1>10. Opposite(Lopsided, two(t), two(s)) /\ DOMAIN two(s) = DOMAIN two(t)
    BY <1>1, <1>3, JoinedOpposite
  <1>. HIDE DEF two
  <1>11. Opposite(Lopsided, three(t), three(s)) /\ DOMAIN three(s) = DOMAIN three(t)
    BY <1>10, <1>1, <1>3, JoinedOpposite
  <1>. HIDE DEF three
  <1>12. Opposite(Lopsided, four(t), four(s)) /\ DOMAIN four(s) = DOMAIN four(t)
    BY <1>11, <1>1, <1>3, JoinedOpposite
  <1>. HIDE DEF four
  <1>13. Opposite(Lopsided, five(t), five(s)) /\ DOMAIN five(s) = DOMAIN five(t)
    BY <1>12, <1>2, <1>4, JoinedOpposite
  <1>. HIDE DEF five
  <1>14. Opposite(Lopsided, six(t), six(s)) /\ DOMAIN six(s) = DOMAIN six(t)
    BY <1>13, <1>2, <1>4, JoinedOpposite
  <1>. HIDE DEF six
  <1>15. Opposite(Lopsided, seven(t), seven(s)) /\ DOMAIN seven(s) = DOMAIN seven(t)
    BY <1>14, <1>2, <1>4, JoinedOpposite
  <1>. HIDE DEF seven
  <1>16. Opposite(Lopsided, eight(t), eight(s))
    BY <1>15, <1>2, <1>4, JoinedOpposite
  <1>17. Signals(s) = eight(s) /\ Signals(t) = eight(t)
    BY DEF Signals, two, three, four, five, six, seven
  <1>. HIDE DEF eight
  <1>. QED
    BY <1>16, <1>17

(* A bar reflected twice is the bar. *)
LEMMA TurnedTwice == ASSUME NEW b \in GoodBar PROVE Turned(Turned(b)) = b
  <1>1. PICK height \in Int : height = Top
    BY Periods
  <1>2. b \in [open : Int, high : Int, low : Int, close : Int, volume : Int]
    BY DEF GoodBar, PriceBar
  <1>3. PICK o \in Int, h \in Int, l \in Int, c \in Int, v \in Int :
            b = [open |-> o, high |-> h, low |-> l, close |-> c, volume |-> v]
    BY <1>2
  <1>4. Turned(b) = [open |-> height - o, high |-> height - l, low |-> height - h, close |-> height - c, volume |-> v]
    BY <1>1, <1>3 DEF Turned
  <1>5. /\ height - (height - o) = o /\ height - (height - h) = h
        /\ height - (height - l) = l /\ height - (height - c) = c
    OBVIOUS
  <1>. QED
    BY <1>1, <1>3, <1>4, <1>5 DEF Turned

(* Bars are the reflection of their reflection. *)
LEMMA TurnedBackAndForth ==
    ASSUME NEW s \in Seq(GoodBar), NEW n \in Nat, Len(s) = n, NEW t, t = [i \in DOMAIN s |-> Turned(s[i])]
    PROVE  TurnedBars(t, s, n)
  <1>1. DOMAIN s = 1..n /\ \A i \in 1..n : s[i] \in GoodBar
    OBVIOUS
  <1>2. \A i \in 1..n : t[i] = Turned(s[i]) /\ Turned(s[i]) \in GoodBar
    BY <1>1, TurnedBar
  <1>3. t \in [1..n -> GoodBar]
    BY <1>1, <1>2
  <1>4. t \in Seq(GoodBar) /\ Len(t) = n
    BY <1>3
  <1>5. \A i \in 1..n : s[i] = Turned(t[i])
    BY <1>1, <1>2, TurnedTwice
  <1>. QED
    BY <1>4, <1>5 DEF TurnedBars

(* compute_signal of a strategy that is not lopsided treats buying and selling alike: in the
   market turned upside down at any price it says the opposite, whatever the bars, the periods
   and the window are, as long as it is given the bars it asks for. *)
THEOREM SidesAlwaysMirror == Spec => []SidesMirror
  <1>1. FeedInv => SidesMirror
    <2>. SUFFICES ASSUME FeedInv, Clean
                  PROVE  LET turned == [i \in DOMAIN bars |-> Turned(bars[i])]
                         IN  Opposite(Lopsided, Signals(bars), Signals(turned))
      BY DEF SidesMirror
    <2>. PICK turned : turned = [i \in DOMAIN bars |-> Turned(bars[i])]
      OBVIOUS
    <2>. PICK live : live = [i \in DOMAIN window |-> window[i].bar]
      OBVIOUS
    <2>1. IsEnd(live, bars) /\ Len(live) = Len(window)
      BY LiveIsEnd
    <2>2. bars \in Seq(GoodBar)
      <3>1. bars \in Seq(Shapes)
        BY DEF FeedInv, FeedTypeOK
      <3>2. Shapes \subseteq GoodBar
        BY BarAssumption DEF GoodBar, PriceBar
      <3>. QED
        BY <3>1, <3>2, SeqMonotonic
    <2>3. PICK m \in Nat : m = Len(bars)
      BY <2>2
    <2>4. RequiredBars <= m
      <3>1. Len(window) \in Nat /\ Len(window) >= RequiredBars /\ RequiredBars \in Int
        BY FeedAssumption DEF Clean, FeedInv, FeedTypeOK
      <3>2. Len(window) <= m
        BY <2>1, <2>3 DEF IsEnd
      <3>. QED
        BY <3>1, <3>2
    <2>5. PICK n \in Positive : m = n + 1 /\ Enough(n)
      <3>1. /\ Fast < m /\ Mid < m /\ Slow < m /\ Period + 1 < m /\ Period + Smooth < m
            /\ m - 1 \in Positive /\ m = (m - 1) + 1
        BY <2>4, BarAssumption, FeedAssumption, Periods DEF Positive
      <3>2. Enough(m - 1)
        BY <3>1, Periods DEF Enough, Positive
      <3>. QED
        BY <3>1, <3>2
    <2>6. TurnedBars(turned, bars, n + 1)
      BY <2>2, <2>3, <2>5, TurnedBackAndForth
    <2>7. Opposite(Lopsided, Signals(bars), Signals(turned))
      BY <2>5, <2>6, SignalsMirror
    <2>. QED
      BY <2>7
  <1>. QED
    BY <1>1, InitFeed, NextKeepsFeed, PTL DEF Spec
======================================================================================
