-------------------------- MODULE NetRosterProofs --------------------------
(***************************************************************************)
(* Proofs about what the server tells the players of each other: the count *)
(* of players a client shows becomes the one the server has, and a player  *)
(* that left does not stay on a screen.  Both are about messages in flight *)
(* as much as about states, so the argument follows the queue of a         *)
(* connection through every step: what is appended to it, lost from it and *)
(* read from it.                                                           *)
(***************************************************************************)
EXTENDS NetPlayProofs

-----------------------------------------------------------------------------
(* Positions in a queue *)

\* A queue one message shorter, position by position.
LEMMA RemoveAtIndex ==
    ASSUME NEW S, NEW s \in Seq(S), NEW i \in DOMAIN s
    PROVE  /\ Len(s) \in Nat /\ DOMAIN s = 1..Len(s)
           /\ DOMAIN RemoveAt(s, i) = 1..(Len(s) - 1)
           /\ \A j \in 1..(Len(s) - 1) :
                 RemoveAt(s, i)[j] = IF j < i THEN s[j] ELSE s[j + 1]
  <1> DEFINE front == SubSeq(s, 1, i - 1)
             back == SubSeq(s, i + 1, Len(s))
  <1>1. i \in 1..Len(s) /\ Len(s) \in Nat /\ DOMAIN s = 1..Len(s)
    BY LenProperties
  <1>2. \A j \in 1..Len(s) : s[j] \in S
    BY <1>1, ElementOfSeq
  <1>3. /\ front \in Seq(S) /\ Len(front) = i - 1
        /\ \A j \in 1..(i - 1) : front[j] = s[j]
    BY <1>1, <1>2, SubSeqProperties
  <1>4. /\ back \in Seq(S) /\ Len(back) = Len(s) - i
        /\ \A j \in 1..(Len(s) - i) : back[j] = s[i + j]
    BY <1>1, <1>2, SubSeqProperties
  <1> HIDE DEF front, back
  <1> DEFINE both == front \o back
  <1>5. /\ DOMAIN both = 1..((i - 1) + (Len(s) - i))
        /\ \A j \in 1..((i - 1) + (Len(s) - i)) :
              both[j] = IF j <= i - 1 THEN front[j] ELSE back[j - (i - 1)]
    BY <1>3, <1>4, ConcatProperties, LenProperties
  <1>6. (i - 1) + (Len(s) - i) = Len(s) - 1
    BY <1>1
  <1> HIDE DEF both
  <1>7. ASSUME NEW j \in 1..(Len(s) - 1)
        PROVE  both[j] = IF j < i THEN s[j] ELSE s[j + 1]
    <2>1. CASE j < i
      BY <1>1, <1>3, <1>5, <1>6, <2>1
    <2>2. CASE ~(j < i)
      <3>1. both[j] = back[j - (i - 1)]
        BY <1>1, <1>5, <1>6, <2>2
      <3>2. j - (i - 1) \in 1..(Len(s) - i) /\ i + (j - (i - 1)) = j + 1
        BY <1>1, <2>2
      <3>3. back[j - (i - 1)] = s[j + 1]
        BY <1>4, <3>2
      <3> QED
        BY <2>2, <3>1, <3>3
    <2> QED
      BY <2>1, <2>2
  <1> QED
    BY <1>1, <1>5, <1>6, <1>7 DEF RemoveAt, front, back, both

\* A queue with messages appended, position by position.
LEMMA ConcatIndex ==
    ASSUME NEW S, NEW s \in Seq(S), NEW t \in Seq(S)
    PROVE  /\ Len(s) \in Nat /\ DOMAIN s = 1..Len(s)
           /\ Len(t) \in Nat /\ DOMAIN t = 1..Len(t)
           /\ DOMAIN (s \o t) = 1..(Len(s) + Len(t))
           /\ \A j \in 1..Len(s) : (s \o t)[j] = s[j]
           /\ \A j \in 1..Len(t) : (s \o t)[Len(s) + j] = t[j]
           /\ \A j \in 1..(Len(s) + Len(t)) :
                 j \in 1..Len(s) \/ \E k \in 1..Len(t) : j = Len(s) + k
  <1>1. /\ DOMAIN s = 1..Len(s) /\ DOMAIN t = 1..Len(t)
        /\ Len(s) \in Nat /\ Len(t) \in Nat
    BY LenProperties
  <1>2. /\ DOMAIN (s \o t) = 1..(Len(s) + Len(t))
        /\ \A i \in 1..(Len(s) + Len(t)) :
              (s \o t)[i] = IF i <= Len(s) THEN s[i] ELSE t[i - Len(s)]
    BY ConcatProperties, LenProperties
  <1>3. ASSUME NEW j \in 1..Len(t) PROVE (s \o t)[Len(s) + j] = t[j]
    <2>1. Len(s) + j \in 1..(Len(s) + Len(t)) /\ ~(Len(s) + j <= Len(s))
          /\ (Len(s) + j) - Len(s) = j
      BY <1>1
    <2> QED
      BY <1>2, <2>1
  <1>4. ASSUME NEW j \in 1..(Len(s) + Len(t)), j \notin 1..Len(s)
        PROVE  \E k \in 1..Len(t) : j = Len(s) + k
    <2>1. j - Len(s) \in 1..Len(t) /\ j = Len(s) + (j - Len(s))
      BY <1>1, <1>4
    <2> QED
      BY <2>1
  <1> QED
    BY <1>1, <1>2, <1>3, <1>4

\* No message is forgotten when others are appended.
LEMMA ConcatKeeps ==
    ASSUME NEW S, NEW s \in Seq(S), NEW t \in Seq(S)
    PROVE  ToSet(s) \cup ToSet(t) \subseteq ToSet(s \o t)
  <1> DEFINE both == s \o t
  <1>1. /\ Len(s) \in Nat /\ DOMAIN s = 1..Len(s) /\ Len(t) \in Nat /\ DOMAIN t = 1..Len(t)
        /\ DOMAIN both = 1..(Len(s) + Len(t))
        /\ \A j \in 1..Len(s) : both[j] = s[j]
        /\ \A j \in 1..Len(t) : both[Len(s) + j] = t[j]
    BY ConcatIndex
  <1> HIDE DEF both
  <1>2. \A j \in 1..Len(s) : s[j] \in ToSet(both)
    BY <1>1 DEF ToSet
  <1>3. ASSUME NEW j \in 1..Len(t) PROVE t[j] \in ToSet(both)
    <2>1. Len(s) + j \in DOMAIN both
      BY <1>1
    <2> QED
      BY <1>1, <2>1 DEF ToSet
  <1> QED
    BY <1>1, <1>2, <1>3 DEF ToSet, both

\* No other message is forgotten when one is removed.
LEMMA RemoveAtKeeps ==
    ASSUME NEW S, NEW s \in Seq(S), NEW i \in DOMAIN s,
           NEW m \in ToSet(s), m # s[i]
    PROVE  m \in ToSet(RemoveAt(s, i))
  <1> DEFINE rest == RemoveAt(s, i)
  <1>1. /\ Len(s) \in Nat /\ DOMAIN s = 1..Len(s)
        /\ DOMAIN rest = 1..(Len(s) - 1)
        /\ \A j \in 1..(Len(s) - 1) : rest[j] = IF j < i THEN s[j] ELSE s[j + 1]
    BY RemoveAtIndex
  <1> HIDE DEF rest
  <1>2. PICK k \in 1..Len(s) : s[k] = m /\ k # i
    BY <1>1 DEF ToSet
  <1>3. CASE k < i
    <2>1. k \in DOMAIN rest /\ rest[k] = m
      BY <1>1, <1>2, <1>3
    <2> QED
      BY <2>1 DEF ToSet, rest
  <1>4. CASE k > i
    <2>1. k - 1 \in DOMAIN rest /\ rest[k - 1] = m
      BY <1>1, <1>2, <1>4
    <2> QED
      BY <2>1 DEF ToSet, rest
  <1> QED
    BY <1>1, <1>2, <1>3, <1>4

-----------------------------------------------------------------------------
(* The last session info *)

\* Messages that are no session info do not change where the count ends.
LEMMA InfoAfterOthers ==
    ASSUME NEW box \in Seq(DownMessages), NEW ms \in Seq(DownMessages),
           NEW shown, NEW count, InfoEnds(box, shown, count),
           \A m \in ToSet(ms) : m.type # "SessionInfo"
    PROVE  InfoEnds(box \o ms, shown, count)
  <1> DEFINE all == box \o ms
  <1>1. /\ Len(box) \in Nat /\ DOMAIN box = 1..Len(box)
        /\ Len(ms) \in Nat /\ DOMAIN ms = 1..Len(ms)
        /\ DOMAIN all = 1..(Len(box) + Len(ms))
        /\ \A j \in 1..Len(box) : all[j] = box[j]
        /\ \A j \in 1..Len(ms) : all[Len(box) + j] = ms[j]
        /\ \A j \in 1..(Len(box) + Len(ms)) :
              j \in 1..Len(box) \/ \E k \in 1..Len(ms) : j = Len(box) + k
    BY ConcatIndex
  <1> HIDE DEF all
  <1>2. \A k \in 1..Len(ms) : ms[k].type # "SessionInfo"
    BY <1>1 DEF ToSet
  <1>3. {i \in DOMAIN all : all[i].type = "SessionInfo"}
          = {i \in DOMAIN box : box[i].type = "SessionInfo"}
    BY <1>1, <1>2
  <1>4. InfoEnds(all, shown, count)
    BY <1>1, <1>3 DEF InfoEnds
  <1> QED
    BY <1>4 DEF all

\* A session info ends the count, whatever was told or shown before it.
LEMMA InfoTold ==
    ASSUME NEW box \in Seq(DownMessages), NEW ms \in Seq(DownMessages),
           NEW shown, NEW count, NEW last \in DOMAIN ms,
           ms[last] = SessionInfo(count),
           \A j \in DOMAIN ms : j > last => ms[j].type # "SessionInfo"
    PROVE  InfoEnds(box \o ms, shown, count)
  <1> DEFINE all == box \o ms
  <1>1. /\ Len(box) \in Nat /\ DOMAIN box = 1..Len(box)
        /\ Len(ms) \in Nat /\ DOMAIN ms = 1..Len(ms)
        /\ DOMAIN all = 1..(Len(box) + Len(ms))
        /\ \A j \in 1..Len(ms) : all[Len(box) + j] = ms[j]
        /\ \A j \in 1..(Len(box) + Len(ms)) :
              j \in 1..Len(box) \/ \E k \in 1..Len(ms) : j = Len(box) + k
    BY ConcatIndex
  <1> HIDE DEF all
  <1>2. Len(box) + last \in DOMAIN all /\ all[Len(box) + last] = SessionInfo(count)
    BY <1>1
  <1>3. ASSUME NEW j \in DOMAIN all, all[j].type = "SessionInfo"
        PROVE  j <= Len(box) + last
    <2>1. CASE j \in 1..Len(box)
      BY <1>1, <2>1
    <2>2. ASSUME NEW k \in 1..Len(ms), j = Len(box) + k
          PROVE  j <= Len(box) + last
      <3>1. ~(k > last)
        BY <1>1, <1>3, <2>2
      <3> QED
        BY <1>1, <2>2, <3>1
    <2> QED
      BY <1>1, <2>1, <2>2
  <1>4. InfoEnds(all, shown, count)
    BY <1>2, <1>3 DEF InfoEnds, SessionInfo
  <1> QED
    BY <1>4 DEF all

\* What is taken out of the queue without being a session info leaves the count.
LEMMA InfoAfterLoss ==
    ASSUME NEW box \in Seq(DownMessages), NEW i \in DOMAIN box,
           box[i].type # "SessionInfo",
           NEW shown, NEW count, InfoEnds(box, shown, count)
    PROVE  InfoEnds(RemoveAt(box, i), shown, count)
  <1> DEFINE rest == RemoveAt(box, i)
             at(j) == IF j < i THEN j ELSE j - 1
  <1>1. /\ Len(box) \in Nat /\ DOMAIN box = 1..Len(box)
        /\ DOMAIN rest = 1..(Len(box) - 1)
        /\ \A j \in 1..(Len(box) - 1) : rest[j] = IF j < i THEN box[j] ELSE box[j + 1]
    BY RemoveAtIndex
  <1> HIDE DEF rest
  <1>2. CASE \A j \in DOMAIN box : box[j].type # "SessionInfo"
    <2>1. shown = count
      BY <1>2 DEF InfoEnds
    <2>2. \A j \in DOMAIN rest : rest[j].type # "SessionInfo"
      BY <1>1, <1>2
    <2>3. InfoEnds(rest, shown, count)
      BY <2>1, <2>2 DEF InfoEnds
    <2> QED
      BY <2>3 DEF rest
  <1>3. CASE \E j \in DOMAIN box : box[j].type = "SessionInfo"
    <2>1. PICK k \in DOMAIN box : /\ box[k].type = "SessionInfo" /\ box[k].players = count
                                  /\ \A j \in DOMAIN box : box[j].type = "SessionInfo" => j <= k
      BY <1>3 DEF InfoEnds
    <2>2. k # i /\ at(k) \in DOMAIN rest /\ rest[at(k)] = box[k]
      BY <1>1, <2>1
    <2>3. ASSUME NEW j \in DOMAIN rest, rest[j].type = "SessionInfo"
          PROVE  j <= at(k)
      BY <1>1, <2>1, <2>2, <2>3
    <2>4. InfoEnds(rest, shown, count)
      BY <2>1, <2>2, <2>3 DEF InfoEnds
    <2> QED
      BY <2>4 DEF rest
  <1> QED
    BY <1>2, <1>3

\* A session info that is read is the last one, or the last one is still on its way.
LEMMA InfoRead ==
    ASSUME NEW box \in Seq(DownMessages), NEW i \in DOMAIN box,
           box[i].type = "SessionInfo",
           \A j \in 1..(i - 1) : ~Reliable(box[j]),
           NEW shown, NEW count, InfoEnds(box, shown, count)
    PROVE  InfoEnds(RemoveAt(box, i), box[i].players, count)
  <1> DEFINE rest == RemoveAt(box, i)
  <1>1. /\ Len(box) \in Nat /\ DOMAIN box = 1..Len(box)
        /\ DOMAIN rest = 1..(Len(box) - 1)
        /\ \A j \in 1..(Len(box) - 1) : rest[j] = IF j < i THEN box[j] ELSE box[j + 1]
    BY RemoveAtIndex
  <1> HIDE DEF rest
  <1>2. \A j \in 1..(i - 1) : box[j].type # "SessionInfo"
    BY DEF Reliable
  <1>3. PICK k \in DOMAIN box : /\ box[k].type = "SessionInfo" /\ box[k].players = count
                                /\ \A j \in DOMAIN box : box[j].type = "SessionInfo" => j <= k
    BY DEF InfoEnds
  <1>4. CASE k = i
    <2>1. \A j \in DOMAIN rest : rest[j].type # "SessionInfo"
      BY <1>1, <1>2, <1>3, <1>4
    <2>2. InfoEnds(rest, box[i].players, count)
      BY <1>3, <1>4, <2>1 DEF InfoEnds
    <2> QED
      BY <2>2 DEF rest
  <1>5. CASE k # i
    <2>1. k > i
      BY <1>1, <1>3, <1>5
    <2>2. k - 1 \in DOMAIN rest /\ rest[k - 1] = box[k]
      BY <1>1, <2>1
    <2>3. ASSUME NEW j \in DOMAIN rest, rest[j].type = "SessionInfo"
          PROVE  j <= k - 1
      BY <1>1, <1>3, <2>1, <2>3
    <2>4. InfoEnds(rest, box[i].players, count)
      BY <1>3, <2>2, <2>3 DEF InfoEnds
    <2> QED
      BY <2>4 DEF rest
  <1> QED
    BY <1>4, <1>5

-----------------------------------------------------------------------------
(* Who is shown *)

\* After position i of the queue, player id is taken back.
TakenBack(box, i, id) == \E j \in DOMAIN box : j > i /\ box[j] = PlayerRemove(id)

\* Of the players in lives, those shown and those about to be, every other one is
\* taken back afterwards.
RosterEnds(box, shown, lives) ==
    /\ \A id \in shown : id \in lives \/ TakenBack(box, 0, id)
    /\ \A i \in DOMAIN box : box[i].type = "PlayerState" =>
          box[i].id \in lives \/ TakenBack(box, i, box[i].id)

\* What is sent about the living, with a removal of each one that is gone
LEMMA RosterTold ==
    ASSUME NEW box \in Seq(DownMessages), NEW ms \in Seq(DownMessages),
           NEW shown, NEW lives, NEW left, RosterEnds(box, shown, lives),
           \A m \in ToSet(ms) : m.type = "PlayerState" => m.id \in left,
           \A id \in lives \ left : PlayerRemove(id) \in ToSet(ms)
    PROVE  RosterEnds(box \o ms, shown, left)
  <1> DEFINE all == box \o ms
  <1>1. /\ Len(box) \in Nat /\ DOMAIN box = 1..Len(box)
        /\ Len(ms) \in Nat /\ DOMAIN ms = 1..Len(ms)
        /\ DOMAIN all = 1..(Len(box) + Len(ms))
        /\ \A j \in 1..Len(box) : all[j] = box[j]
        /\ \A j \in 1..Len(ms) : all[Len(box) + j] = ms[j]
        /\ \A j \in 1..(Len(box) + Len(ms)) :
              j \in 1..Len(box) \/ \E k \in 1..Len(ms) : j = Len(box) + k
    BY ConcatIndex
  <1> HIDE DEF all
  <1>2. ASSUME NEW id, NEW i \in 0..Len(box), id \in lives \/ TakenBack(box, i, id)
        PROVE  id \in left \/ TakenBack(all, i, id)
    <2>1. CASE id \in lives \ left
      <3>1. PICK k \in 1..Len(ms) : ms[k] = PlayerRemove(id)
        BY <1>1, <2>1 DEF ToSet
      <3>2. Len(box) + k \in DOMAIN all /\ Len(box) + k > i
            /\ all[Len(box) + k] = PlayerRemove(id)
        BY <1>1, <3>1
      <3> QED
        BY <3>2 DEF TakenBack
    <2>2. CASE TakenBack(box, i, id)
      <3>1. PICK j \in DOMAIN box : j > i /\ box[j] = PlayerRemove(id)
        BY <2>2 DEF TakenBack
      <3>2. j \in DOMAIN all /\ all[j] = PlayerRemove(id)
        BY <1>1, <3>1
      <3> QED
        BY <3>1, <3>2 DEF TakenBack
    <2> QED
      BY <1>2, <2>1, <2>2
  <1>3. \A id \in shown : id \in left \/ TakenBack(all, 0, id)
    BY <1>1, <1>2 DEF RosterEnds
  <1>4. ASSUME NEW i \in DOMAIN all, all[i].type = "PlayerState"
        PROVE  all[i].id \in left \/ TakenBack(all, i, all[i].id)
    <2>1. CASE i \in 1..Len(box)
      <3>1. all[i] = box[i] /\ i \in DOMAIN box /\ i \in 0..Len(box)
        BY <1>1, <2>1
      <3>2. box[i].id \in lives \/ TakenBack(box, i, box[i].id)
        BY <1>4, <3>1 DEF RosterEnds
      <3> QED
        BY <1>2, <3>1, <3>2
    <2>2. ASSUME NEW k \in 1..Len(ms), i = Len(box) + k
          PROVE  all[i].id \in left
      BY <1>1, <1>4, <2>2 DEF ToSet
    <2> QED
      BY <1>1, <2>1, <2>2
  <1>5. RosterEnds(all, shown, left)
    BY <1>3, <1>4 DEF RosterEnds
  <1> QED
    BY <1>5 DEF all

\* A message taken out of the queue that takes nobody back
LEMMA RosterAfterLoss ==
    ASSUME NEW box \in Seq(DownMessages), NEW i \in DOMAIN box,
           NEW shown, NEW lives, RosterEnds(box, shown, lives),
           box[i].type # "PlayerRemove"
    PROVE  RosterEnds(RemoveAt(box, i), shown, lives)
  <1> DEFINE rest == RemoveAt(box, i)
  <1>1. /\ Len(box) \in Nat /\ DOMAIN box = 1..Len(box)
        /\ DOMAIN rest = 1..(Len(box) - 1)
        /\ \A j \in 1..(Len(box) - 1) : rest[j] = IF j < i THEN box[j] ELSE box[j + 1]
    BY RemoveAtIndex
  <1> HIDE DEF rest
  <1>2. ASSUME NEW id, NEW k \in 0..Len(box), TakenBack(box, k, id)
        PROVE  TakenBack(rest, IF k < i THEN k ELSE k - 1, id)
    <2>1. PICK j \in DOMAIN box : j > k /\ box[j] = PlayerRemove(id)
      BY <1>2 DEF TakenBack
    <2>2. j # i
      BY <2>1 DEF PlayerRemove
    <2>3. CASE j < i
      <3>1. j \in DOMAIN rest /\ rest[j] = box[j]
        BY <1>1, <2>3
      <3> QED
        BY <1>1, <2>1, <2>3, <3>1 DEF TakenBack
    <2>4. CASE j > i
      <3>1. j - 1 \in DOMAIN rest /\ rest[j - 1] = box[j]
            /\ j - 1 > (IF k < i THEN k ELSE k - 1)
        BY <1>1, <2>1, <2>4
      <3> QED
        BY <2>1, <3>1 DEF TakenBack
    <2> QED
      BY <1>1, <2>2, <2>3, <2>4
  <1>3. 0 \in 0..Len(box) /\ 0 < i
    BY <1>1
  <1>4. \A id \in shown : id \in lives \/ TakenBack(rest, 0, id)
    BY <1>2, <1>3 DEF RosterEnds
  <1>5. ASSUME NEW j \in DOMAIN rest, rest[j].type = "PlayerState"
        PROVE  rest[j].id \in lives \/ TakenBack(rest, j, rest[j].id)
    <2> DEFINE k == IF j < i THEN j ELSE j + 1
    <2>1. k \in DOMAIN box /\ k \in 0..Len(box) /\ rest[j] = box[k]
          /\ (IF k < i THEN k ELSE k - 1) = j
      BY <1>1
    <2> HIDE DEF k
    <2>2. rest[j].id \in lives \/ TakenBack(box, k, rest[j].id)
      BY <1>5, <2>1 DEF RosterEnds
    <2> QED
      BY <1>2, <2>1, <2>2
  <1>6. RosterEnds(rest, shown, lives)
    BY <1>4, <1>5 DEF RosterEnds
  <1> QED
    BY <1>6 DEF rest

\* The first message of the queue is read, and shows and removes what it says.
LEMMA RosterRead ==
    ASSUME NEW box \in Seq(DownMessages), 1 \in DOMAIN box,
           NEW shown, NEW lives, RosterEnds(box, shown, lives), NEW now,
           \A id \in now :
               /\ id \in shown \/ (box[1].type = "PlayerState" /\ box[1].id = id)
               /\ box[1] # PlayerRemove(id)
    PROVE  RosterEnds(RemoveAt(box, 1), now, lives)
  <1> DEFINE rest == RemoveAt(box, 1)
  <1>1. /\ Len(box) \in Nat /\ DOMAIN box = 1..Len(box)
        /\ DOMAIN rest = 1..(Len(box) - 1)
        /\ \A j \in 1..(Len(box) - 1) : rest[j] = box[j + 1]
    BY RemoveAtIndex
  <1> HIDE DEF rest
  <1>2. ASSUME NEW id, NEW k \in 1..Len(box), TakenBack(box, k, id)
        PROVE  TakenBack(rest, k - 1, id)
    <2>1. PICK j \in DOMAIN box : j > k /\ box[j] = PlayerRemove(id)
      BY <1>2 DEF TakenBack
    <2>2. j - 1 \in DOMAIN rest /\ rest[j - 1] = box[j] /\ j - 1 > k - 1
      BY <1>1, <2>1
    <2> QED
      BY <2>1, <2>2 DEF TakenBack
  <1>3. ASSUME NEW id \in now, id \notin lives
        PROVE  TakenBack(rest, 0, id)
    <2>1. TakenBack(box, 0, id) \/ TakenBack(box, 1, id)
      BY <1>1, <1>3 DEF RosterEnds
    <2>2. TakenBack(box, 1, id)
      BY <1>1, <2>1 DEF TakenBack
    <2> QED
      BY <1>1, <1>2, <2>2
  <1>4. ASSUME NEW j \in DOMAIN rest, rest[j].type = "PlayerState", rest[j].id \notin lives
        PROVE  TakenBack(rest, j, rest[j].id)
    <2>1. j + 1 \in 1..Len(box) /\ rest[j] = box[j + 1] /\ (j + 1) - 1 = j
      BY <1>1
    <2>2. TakenBack(box, j + 1, rest[j].id)
      BY <1>1, <1>4, <2>1 DEF RosterEnds
    <2> QED
      BY <1>2, <2>1, <2>2
  <1>5. RosterEnds(rest, now, lives)
    BY <1>3, <1>4 DEF RosterEnds
  <1> QED
    BY <1>5 DEF rest

-----------------------------------------------------------------------------
(* Whose queue a connection is *)

\* A connection is never used again, and no two clients hold the same one.
OwnConns ==
    \A c \in Clients : conn[c] # NoConn =>
        link[conn[c]] # "unused" /\ \A d \in Clients \ {c} : conn[d] # conn[c]

\* What a step does to the slots: a client keeps or drops its connection, or takes one
\* that nobody used.
LEMMA ConnsMove ==
    ASSUME Typed, [Next]_vars
    PROVE  /\ \A n \in Conns : link[n] # "unused" => link'[n] # "unused"
           /\ \/ \A c \in Clients : conn'[c] \in {NoConn, conn[c]}
              \/ \E c \in Clients, n \in Conns :
                    /\ link[n] = "unused" /\ link'[n] # "unused"
                    /\ conn' = [conn EXCEPT ![c] = n]
  <1> USE DEF Typed, TypeOK
  <1>1. CASE UNCHANGED vars
    BY <1>1 DEF vars, wires, client
  <1>2. CASE NetworkStep
    <2>1. conn' = conn
      BY <1>2 DEF NetworkStep, LoseDown, LoseUp, HandshakeTimeout, client
    <2>2. \A n \in Conns : link[n] # "unused" => link'[n] # "unused"
      BY <1>2 DEF NetworkStep, LoseDown, LoseUp, HandshakeTimeout
    <2> QED
      BY <2>1, <2>2
  <1>3. CASE ServerStep
    <2>1. conn' = conn
      BY <1>3 DEF ServerStep, StartServer, ShutdownServer, SimulateFixedTick,
         SendSnapshots, BroadcastPlayerStates, ServerConnect, ServerDisconnect,
         InterestWindowPasses, ServerReceiveInput, ServerReceiveInterest, client
    <2>2. \A n \in Conns : link[n] # "unused" => link'[n] # "unused"
      BY <1>3 DEF ServerStep, StartServer, ShutdownServer, SimulateFixedTick,
         SendSnapshots, BroadcastPlayerStates, ServerConnect, ServerDisconnect,
         InterestWindowPasses, ServerReceiveInput, ServerReceiveInterest, wires
    <2> QED
      BY <2>1, <2>2
  <1>4. ASSUME NEW c \in Clients, NEW n \in Conns, Connect(c, n)
        PROVE  /\ \A k \in Conns : link[k] # "unused" => link'[k] # "unused"
               /\ link[n] = "unused" /\ link'[n] # "unused"
               /\ conn' = [conn EXCEPT ![c] = n]
    BY <1>4 DEF Connect, FirstUnused
  <1>5. ASSUME NEW c \in Clients, ConnectRefused(c) \/ Disconnect(c) \/ ClientDisconnect(c)
        PROVE  /\ \A k \in Conns : link[k] # "unused" => link'[k] # "unused"
               /\ \A d \in Clients : conn'[d] \in {NoConn, conn[d]}
    <2>1. Abandoned(c) /\ \A d \in Clients : conn'[d] \in {NoConn, conn[d]}
      BY <1>5 DEF ConnectRefused, Disconnect, ClientDisconnect
    <2> QED
      BY <2>1 DEF Abandoned
  <1>6. ASSUME NEW c \in Clients, ClientConnect(c)
        PROVE  /\ \A k \in Conns : link[k] # "unused" => link'[k] # "unused"
               /\ conn' = conn
    BY <1>6 DEF ClientConnect
  <1>7. ASSUME NEW c \in Clients,
               \/ conn[c] # NoConn /\ \E i \in DOMAIN down[conn[c]] : ClientReceive(c, i)
               \/ PollSnapshot(c)
               \/ PollChunkState(c)
               \/ \E press \in BOOLEAN : SendInput(c, press)
               \/ \E b \in Bodies : SwitchActivePlanet(c, b)
        PROVE  UNCHANGED <<link, conn>>
    BY <1>7 DEF ClientReceive, PollSnapshot, PollChunkState, SendInput,
       SwitchActivePlanet, wires, client
  <1>8. ASSUME NEW c \in Clients, ClientStep(c)
        PROVE  /\ \A n \in Conns : link[n] # "unused" => link'[n] # "unused"
               /\ \/ \A d \in Clients : conn'[d] \in {NoConn, conn[d]}
                  \/ \E d \in Clients, n \in Conns :
                        /\ link[n] = "unused" /\ link'[n] # "unused"
                        /\ conn' = [conn EXCEPT ![d] = n]
    BY <1>4, <1>5, <1>6, <1>7, <1>8, Zenon DEF ClientStep
  <1> QED
    BY <1>1, <1>2, <1>3, <1>8 DEF Next

LEMMA StepOwnConns == Typed /\ Typed' /\ OwnConns /\ [Next]_vars => OwnConns'
  <1> SUFFICES ASSUME Typed, Typed', OwnConns, [Next]_vars PROVE OwnConns'
    OBVIOUS
  <1>1. \A n \in Conns : link[n] # "unused" => link'[n] # "unused"
    BY ConnsMove
  <1>2. conn \in [Clients -> {NoConn} \cup Conns]
    BY DEF Typed, TypeOK
  <1>3. CASE \A c \in Clients : conn'[c] \in {NoConn, conn[c]}
    BY <1>1, <1>2, <1>3 DEF OwnConns
  <1>4. ASSUME NEW c \in Clients, NEW n \in Conns,
               link[n] = "unused", link'[n] # "unused", conn' = [conn EXCEPT ![c] = n]
        PROVE  OwnConns'
    BY <1>1, <1>2, <1>4 DEF OwnConns
  <1> QED
    BY <1>3, <1>4, ConnsMove

\* No two clients ever share a connection.
LEMMA OwnConnsHolds == Spec => []OwnConns
  <1>1. Init => OwnConns
    BY DEF Init, OwnConns
  <1> QED
    BY <1>1, StepOwnConns, TypeCorrect, PTL DEF Spec

-----------------------------------------------------------------------------
(* The invariant, and the steps that tell a client nothing about the others *)

\* The players the server has
LiveIds == {client_states[m].player_id : m \in DOMAIN client_states}

\* What client c shows becomes true once the queue of its connection n is read.
EndsTrue(c, n) ==
    /\ InfoEnds(down[n], net[c].session_players, Players(client_states))
    /\ n \in InOrder =>
          RosterEnds(down[n], DOMAIN net[c].replicated_players, LiveIds)

RosterInv == \A c \in Clients : \A n \in Conns : Joined(c, n) => EndsTrue(c, n)

\* The step neither adds nor removes a player.
SamePlayers ==
    /\ DOMAIN client_states' = DOMAIN client_states
    /\ \A m \in DOMAIN client_states :
          client_states'[m].player_id = client_states[m].player_id

\* The step leaves what client c shows of the others.
SameScreen(c) ==
    /\ net'[c].session_players = net[c].session_players
    /\ net'[c].replicated_players = net[c].replicated_players

\* The step gives client c no ghost that its connection did not bring too late.
NoNewGhost(c, n) ==
    \A id \in Ghosts(c, n)' :
        \/ Joined(c, n) /\ id \in Ghosts(c, n)
        \/ ComesLate(c, n, id)

\* What every step owes client c on connection n
Kept(c, n) == EndsTrue(c, n)' /\ NoNewGhost(c, n)

\* A step that leaves the screen, forgets no removal and announces those who leave
LEMMA SameGhosts ==
    ASSUME NEW c \in Clients, NEW n \in Conns, Joined(c, n), SameScreen(c),
           \A id \in LiveIds : id \in LiveIds' \/ PlayerRemove(id) \in ToSet(down'[n]),
           \A id : PlayerRemove(id) \in ToSet(down[n]) => PlayerRemove(id) \in ToSet(down'[n])
    PROVE  NoNewGhost(c, n)
  BY DEF NoNewGhost, Ghosts, SameScreen, LiveIds

\* Neither the players nor the screen change, and what is sent is no session info and
\* speaks of the living.
LEMMA QuietStep ==
    ASSUME Typed, NEW c \in Clients, NEW n \in Conns, Joined(c, n), EndsTrue(c, n),
           SamePlayers, SameScreen(c), NEW ms \in Seq(DownMessages),
           \A m \in ToSet(ms) : /\ m.type # "SessionInfo"
                                /\ m.type = "PlayerState" => m.id \in LiveIds,
           down'[n] \in {down[n], down[n] \o ms}
    PROVE  Kept(c, n)
  <1>1. down[n] \in Seq(DownMessages)
    BY DEF Typed, TypeOK
  <1>2. LiveIds' = LiveIds /\ Players(client_states)' = Players(client_states)
    BY DEF SamePlayers, LiveIds, Players
  <1>3. InfoEnds(down[n] \o ms, net[c].session_players, Players(client_states))
    BY <1>1, InfoAfterOthers DEF EndsTrue
  <1>4. n \in InOrder =>
          RosterEnds(down[n] \o ms, DOMAIN net[c].replicated_players, LiveIds)
    BY <1>1, RosterTold DEF EndsTrue
  <1>5. NoNewGhost(c, n)
    BY <1>1, <1>2, ConcatKeeps, SameGhosts
  <1> QED
    BY <1>2, <1>3, <1>4, <1>5 DEF Kept, EndsTrue, SameScreen

\* The same, with nothing sent
LEMMA SilentStep ==
    ASSUME Typed, NEW c \in Clients, NEW n \in Conns, Joined(c, n), EndsTrue(c, n),
           SamePlayers, SameScreen(c), down'[n] = down[n]
    PROVE  Kept(c, n)
  <1>1. LiveIds' = LiveIds /\ Players(client_states)' = Players(client_states)
    BY DEF SamePlayers, LiveIds, Players
  <1>2. NoNewGhost(c, n)
    BY <1>1, SameGhosts
  <1> QED
    BY <1>1, <1>2 DEF Kept, EndsTrue, SameScreen

\* A client and the server agree on a connection from the server's CONNECT event on.
LEMMA JoinedBefore ==
    ASSUME Typed, [Next]_vars, NEW c \in Clients, NEW n \in Conns, Joined(c, n)'
    PROVE  \/ Joined(c, n)
           \/ ServerConnect(n) /\ slot[c] = "connected" /\ conn[c] = n
  <1> USE DEF Typed
  <1>1. CASE UNCHANGED vars
    BY <1>1 DEF Joined, vars, server, client
  <1>2. CASE NetworkStep
    BY <1>2 DEF Joined, NetworkStep, LoseDown, LoseUp, HandshakeTimeout, server, client
  <1>3. ASSUME NEW d \in Clients, ClientStep(d)
        PROVE  Joined(c, n)
    <2>1. UNCHANGED client_states
      BY <1>3 DEF ClientStep, Connect, ConnectRefused, Disconnect, ClientConnect,
         ClientDisconnect, ClientReceive, PollSnapshot, PollChunkState, SendInput,
         SwitchActivePlanet, server
    <2>2. n \in DOMAIN client_states /\ link[n] = "open"
      BY <2>1 DEF Joined, PlayersAreOpen
    <2>3. slot'[c] = "connected" /\ conn'[c] = n
      BY DEF Joined
    <2>4. CASE slot'[c] = slot[c] /\ conn'[c] = conn[c]
      BY <2>2, <2>3, <2>4 DEF Joined
    <2>5. CASE ClientConnect(d)
      <3>1. conn' = conn /\ link[conn[d]] = "connecting"
            /\ slot' = [slot EXCEPT ![d] = "connected"]
        BY <2>5 DEF ClientConnect
      <3>2. c # d
        BY <2>2, <2>3, <3>1
      <3> QED
        BY <2>4, <3>1, <3>2 DEF TypeOK
    <2>6. CASE \E k \in Conns : Connect(d, k)
      BY <2>3, <2>4, <2>6 DEF Connect, TypeOK
    <2>7. CASE ConnectRefused(d) \/ Disconnect(d)
      <3>1. /\ \A e \in Clients \ {d} : slot'[e] = slot[e] /\ conn'[e] = conn[e]
            /\ slot'[d] = SlotAfterDisconnect(slot[d])
        BY <2>7 DEF ConnectRefused, Disconnect, TypeOK
      <3>2. slot'[d] # "connected"
        BY <3>1 DEF SlotAfterDisconnect, TypeOK
      <3> QED
        BY <2>3, <2>4, <3>1, <3>2
    <2>8. CASE ClientDisconnect(d)
      BY <2>3, <2>4, <2>8 DEF ClientDisconnect, TypeOK
    <2>9. CASE \/ conn[d] # NoConn /\ \E i \in DOMAIN down[conn[d]] : ClientReceive(d, i)
               \/ PollSnapshot(d)
               \/ PollChunkState(d)
               \/ \E press \in BOOLEAN : SendInput(d, press)
               \/ \E b \in Bodies : SwitchActivePlanet(d, b)
      <3>1. UNCHANGED <<slot, conn>>
        BY <2>9 DEF ClientReceive, PollSnapshot, PollChunkState, SendInput,
           SwitchActivePlanet, client
      <3> QED
        BY <2>4, <3>1
    <2> QED
      BY <1>3, <2>5, <2>6, <2>7, <2>8, <2>9 DEF ClientStep
  <1>4. CASE ServerStep
    <2>1. UNCHANGED client
      BY <1>4 DEF ServerStep, StartServer, ShutdownServer, SimulateFixedTick,
         SendSnapshots, BroadcastPlayerStates, ServerConnect, ServerDisconnect,
         InterestWindowPasses, ServerReceiveInput, ServerReceiveInterest
    <2>2. slot[c] = "connected" /\ conn[c] = n /\ n \in DOMAIN client_states'
      BY <2>1 DEF Joined, client
    <2>3. CASE n \in DOMAIN client_states
      BY <2>2, <2>3 DEF Joined
    <2>4. CASE n \notin DOMAIN client_states
      <3>1. PICK k \in Conns : ServerConnect(k)
        BY <1>4, <2>2, <2>4, EmptyDomain
           DEF ServerStep, StartServer, ShutdownServer, SimulateFixedTick, SendSnapshots,
               BroadcastPlayerStates, ServerDisconnect, WithoutClient,
               InterestWindowPasses, ServerReceiveInput, ServerReceiveInterest
      <3>2. n = k
        BY <2>2, <2>4, <3>1 DEF ServerConnect, WithClient
      <3> QED
        BY <2>2, <3>1, <3>2
    <2> QED
      BY <2>3, <2>4
  <1> QED
    BY <1>1, <1>2, <1>3, <1>4 DEF Next

-----------------------------------------------------------------------------
(* The steps of the server *)

\* The timed parts of the server, and what it receives
LEMMA ServerStreamsRoster ==
    ASSUME Typed, Typed', NEW c \in Clients, NEW n \in Conns, Joined(c, n), EndsTrue(c, n),
           \/ SimulateFixedTick
           \/ SendSnapshots
           \/ \E near \in SUBSET ObserverSubjectPairs : BroadcastPlayerStates(near)
           \/ \E k \in Conns :
                 \/ InterestWindowPasses(k)
                 \/ \E i \in DOMAIN up[k] : ServerReceiveInput(k, i) \/ ServerReceiveInterest(k, i)
    PROVE  Kept(c, n)
  <1>1. SameScreen(c)
    BY DEF SameScreen, SimulateFixedTick, SendSnapshots, BroadcastPlayerStates,
       InterestWindowPasses, ServerReceiveInput, ServerReceiveInterest, client
  <1>2. \A k \in DOMAIN client_states : client_states[k] \in ServerClientState
    BY DEF Typed, TypeOK
  <1>3. n \in DOMAIN client_states /\ down \in [Conns -> Seq(DownMessages)]
    BY DEF Joined, Typed, TypeOK
  <1>4. CASE SimulateFixedTick
    <2>1. ASSUME NEW s \in ServerClientState
          PROVE  Simulated(s).player_id = s.player_id
      BY DEF Simulated, ServerClientState
    <2>2. SamePlayers /\ down'[n] = down[n]
      BY <1>2, <1>4, <2>1 DEF SimulateFixedTick, SamePlayers, wires
    <2> QED
      BY <1>1, <2>2, SilentStep
  <1>5. CASE SendSnapshots
    <2> DEFINE m == Snapshot(client_states[n].player_id,
                             client_states[n].next_snapshot_sequence)
    <2>1. SamePlayers
      BY <1>2, <1>5 DEF SendSnapshots, SamePlayers, ServerClientState
    <2>2. m \in DownMessages
      BY <1>2, <1>3 DEF DownMessages, ServerClientState
    <2>3. <<m>> \in Seq(DownMessages) /\ ToSet(<<m>>) = {m}
      BY <2>2 DEF ToSet
    <2>4. down'[n] = SentUnreliable(n, <<m>>)
      BY <1>3, <1>5 DEF SendSnapshots
    <2>5. m.type = "Snapshot"
      BY DEF Snapshot
    <2> HIDE DEF m
    <2>6. down'[n] \in {down[n], down[n] \o <<m>>}
      BY <2>4 DEF SentUnreliable
    <2>7. \A x \in ToSet(<<m>>) : /\ x.type # "SessionInfo"
                                  /\ x.type = "PlayerState" => x.id \in LiveIds
      BY <2>3, <2>5
    <2> QED
      BY <1>1, <2>1, <2>3, <2>6, <2>7, QuietStep
  <1>6. ASSUME NEW near \in SUBSET ObserverSubjectPairs, BroadcastPlayerStates(near)
        PROVE  Kept(c, n)
    <2> DEFINE State(k) == PlayerState(client_states[k].player_id,
                                       client_states[k].next_player_state_sequence,
                                       client_states[k].body)
               Seen == {k \in DOMAIN client_states :
                          ShouldReplicate(client_states[n], client_states[k],
                                          <<n, k>> \in near)}
               Shown == {State(k) : k \in Seen}
               ms == SetToSeq(Shown)
    <2>1. SamePlayers
      BY <1>2, <1>6 DEF BroadcastPlayerStates, SamePlayers, ServerClientState
    <2>2. ms \in Seq(DownMessages) /\ ToSet(ms) \subseteq Shown
      BY ShownToSeq
    <2>3. down'[n] = SentUnreliable(n, ms)
      BY <1>3, <1>6, Zenon DEF BroadcastPlayerStates
    <2>4. ASSUME NEW m \in Shown PROVE m.type = "PlayerState" /\ m.id \in LiveIds
      <3>1. PICK k \in Seen : m = State(k)
        OBVIOUS
      <3>2. m.type = "PlayerState" /\ m.id = client_states[k].player_id
        BY <3>1 DEF PlayerState
      <3> QED
        BY <3>2 DEF LiveIds
    <2> HIDE DEF Shown, ms
    <2>5. down'[n] \in {down[n], down[n] \o ms}
      BY <2>3 DEF SentUnreliable
    <2>6. \A m \in ToSet(ms) : /\ m.type # "SessionInfo"
                               /\ m.type = "PlayerState" => m.id \in LiveIds
      BY <2>2, <2>4
    <2> QED
      BY <1>1, <2>1, <2>2, <2>5, <2>6, QuietStep
  <1>7. ASSUME NEW k \in Conns, InterestWindowPasses(k)
        PROVE  Kept(c, n)
    <2>1. SamePlayers /\ down'[n] = down[n]
      BY <1>2, <1>7 DEF InterestWindowPasses, SamePlayers, ServerClientState, wires
    <2> QED
      BY <1>1, <2>1, SilentStep
  <1>8. ASSUME NEW k \in Conns, NEW i \in DOMAIN up[k], ServerReceiveInput(k, i)
        PROVE  Kept(c, n)
    <2>1. ASSUME NEW s \in ServerClientState, NEW m
          PROVE  WithInput(s, m).player_id = s.player_id
      BY DEF WithInput, ServerClientState
    <2>2. SamePlayers /\ down'[n] = down[n]
      BY <1>2, <1>8, <2>1 DEF ServerReceiveInput, SamePlayers
    <2> QED
      BY <1>1, <2>2, SilentStep
  <1>9. ASSUME NEW k \in Conns, NEW i \in DOMAIN up[k], ServerReceiveInterest(k, i)
        PROVE  Kept(c, n)
    <2> DEFINE b == up[k][i].body
               s == client_states[k]
               ms == ChunksFor(s, b)
    <2>1. ASSUME NEW x \in ServerClientState, NEW y
          PROVE  WithInterest(x, y).player_id = x.player_id
      BY DEF WithInterest, ServerClientState
    <2>2. SamePlayers
      BY <1>2, <1>9, <2>1 DEF ServerReceiveInterest, SamePlayers
    <2>3. CASE ~AcceptsInterest(s, b)
      <3>1. down'[n] = down[n]
        BY <1>9, <2>3 DEF ServerReceiveInterest
      <3> QED
        BY <1>1, <2>2, <3>1, SilentStep
    <2>4. CASE AcceptsInterest(s, b)
      <3>1. ChunkState(b) \in DownMessages
        BY <2>4 DEF AcceptsInterest, DownMessages
      <3>2. ms \in Seq(DownMessages)
            /\ \A m \in ToSet(ms) : m.type \notin {"SessionInfo", "PlayerState"}
        BY <3>1 DEF ChunksFor, ToSet, ChunkState
      <3>3. down' = [down EXCEPT ![k] = SentReliable(k, ms)]
        BY <1>9, <2>4 DEF ServerReceiveInterest
      <3> HIDE DEF ms
      <3>4. down'[n] \in {down[n], down[n] \o ms}
        BY <1>3, <3>3 DEF SentReliable
      <3> QED
        BY <1>1, <2>2, <3>2, <3>4, QuietStep
    <2> QED
      BY <2>3, <2>4
  <1> QED
    BY <1>4, <1>5, <1>6, <1>7, <1>8, <1>9

\* A new player: everybody is told the new count.
LEMMA ServerConnectRoster ==
    ASSUME Typed, SessionInv, NEW c \in Clients, NEW n \in Conns,
           NEW k \in Conns, ServerConnect(k),
           slot[c] = "connected", conn[c] = n,
           Joined(c, n) => EndsTrue(c, n),
           ~Joined(c, n) => k = n
    PROVE  Kept(c, n)
  <1> DEFINE states == WithClient(k, NewClientState(next_player_id))
             count == Players(states)
             info == <<SessionInfo(count)>>
             greeting == Greeting(next_player_id, states)
  <1>1. k \notin DOMAIN client_states /\ next_player_id \in PlayerIds /\ ~Late(k)
    BY DEF ServerConnect, Typed, PlayersAreOpen, Late
  <1>2. client_states' = states /\ SameScreen(c)
    BY DEF ServerConnect, SameScreen, client
  <1>3. count \in 0..MaxConns
    BY PlayersType DEF WithClient, Typed, TypeOK
  <1>4. LiveIds \subseteq LiveIds'
    BY <1>1, <1>2 DEF LiveIds, WithClient
  <1>5. Listening(n) /\ down[n] \in Seq(DownMessages)
    BY DEF Listening, Typed, TypeOK
  <1>6. SessionInfo(count) \in DownMessages /\ AssignPlayer(next_player_id) \in DownMessages
    BY <1>1, <1>3 DEF DownMessages
  <1>7. down' = [m \in Conns |->
                  CASE m = k -> SentReliable(m, greeting)
                    [] m \in DOMAIN client_states -> SentReliable(m, info)
                    [] OTHER -> down[m]]
    BY DEF ServerConnect
  <1> HIDE DEF count
  <1>8. /\ info \in Seq(DownMessages) /\ greeting \in Seq(DownMessages)
        /\ info[1] = SessionInfo(count) /\ DOMAIN info = {1}
        /\ greeting[2] = SessionInfo(count) /\ DOMAIN greeting = {1, 2}
        /\ greeting[1] = AssignPlayer(next_player_id)
    BY <1>6 DEF Greeting, count
  <1>9. \A m \in ToSet(info) \cup ToSet(greeting) : m.type # "PlayerState"
    BY <1>8 DEF ToSet, SessionInfo, AssignPlayer
  <1>10. Players(client_states') = count
    BY <1>2 DEF count
  <1> HIDE DEF info, greeting
  <1>11. CASE k = n
    <2>1. down'[n] = down[n] \o greeting
      BY <1>1, <1>5, <1>7, <1>11 DEF SentReliable
    <2>2. InfoEnds(down[n] \o greeting, net[c].session_players, count)
      BY <1>5, <1>8, InfoTold
    <2>3. net[c].replicated_players = <<>> /\ ToSet(down[n]) = {}
      BY <1>1, <1>11 DEF SessionInv, StartsFresh, NothingYet, QueuesAreOfThePlayer
    <2>4. RosterEnds(down[n], {}, {})
      <3>1. \A i \in DOMAIN down[n] : down[n][i] \in ToSet(down[n])
        BY DEF ToSet
      <3> QED
        BY <2>3, <3>1 DEF RosterEnds
    <2>5. RosterEnds(down[n] \o greeting, {}, LiveIds')
      BY <1>5, <1>8, <1>9, <2>4, RosterTold
    <2>6. NoNewGhost(c, n)
      BY <1>2, <2>3, EmptyDomain DEF NoNewGhost, Ghosts, SameScreen
    <2> QED
      BY <1>2, <1>10, <2>1, <2>2, <2>3, <2>5, <2>6, EmptyDomain
         DEF Kept, EndsTrue, SameScreen
  <1>12. CASE k # n
    <2>1. n \in DOMAIN client_states /\ Joined(c, n) /\ EndsTrue(c, n)
      BY <1>12 DEF Joined
    <2>2. down'[n] = down[n] \o info
      BY <1>5, <1>7, <1>12, <2>1 DEF SentReliable
    <2>3. InfoEnds(down[n] \o info, net[c].session_players, count)
      BY <1>5, <1>8, InfoTold
    <2>4. n \in InOrder =>
            RosterEnds(down[n] \o info, DOMAIN net[c].replicated_players, LiveIds')
      BY <1>4, <1>5, <1>8, <1>9, <2>1, RosterTold DEF EndsTrue
    <2>5. NoNewGhost(c, n)
      BY <1>2, <1>4, <1>5, <1>8, <2>1, <2>2, ConcatKeeps, SameGhosts
    <2> QED
      BY <1>2, <1>10, <2>2, <2>3, <2>4, <2>5 DEF Kept, EndsTrue, SameScreen
  <1> QED
    BY <1>11, <1>12

\* A player less: those who stay are told the new count and who is gone.
LEMMA ServerDisconnectRoster ==
    ASSUME Typed, NEW c \in Clients, NEW n \in Conns, Joined(c, n), EndsTrue(c, n),
           NEW k \in Conns, ServerDisconnect(k), Joined(c, n)'
    PROVE  Kept(c, n)
  <1> DEFINE states == WithoutClient(k)
             count == Players(states)
             gone == client_states[k].player_id
             notice == Farewell(gone, states)
  <1>1. k \in DOMAIN client_states /\ client_states' = states /\ SameScreen(c)
    BY DEF ServerDisconnect, SameScreen, client, Typed, PlayersAreOpen
  <1>2. n \in DOMAIN states
    BY <1>1 DEF Joined
  <1>3. count \in 0..MaxConns /\ gone \in PlayerIds
    BY <1>1, PlayersType DEF WithoutClient, Typed, TypeOK, ServerClientState
  <1>4. LiveIds \subseteq LiveIds' \cup {gone}
    BY <1>1 DEF LiveIds, WithoutClient
  <1>5. Listening(n) /\ down[n] \in Seq(DownMessages)
    BY DEF Listening, Joined, Typed, TypeOK
  <1>6. down'[n] = down[n] \o notice
    BY <1>2, <1>5 DEF ServerDisconnect, SentReliable
  <1>7. SessionInfo(count) \in DownMessages /\ PlayerRemove(gone) \in DownMessages
    BY <1>3 DEF DownMessages
  <1> HIDE DEF count, gone
  <1>8. /\ notice \in Seq(DownMessages) /\ DOMAIN notice = {1, 2}
        /\ notice[1] = SessionInfo(count) /\ notice[2] = PlayerRemove(gone)
    BY <1>7 DEF Farewell, count
  <1>9. Players(client_states') = count
    BY <1>1 DEF count
  <1> HIDE DEF notice
  <1>10. /\ \A m \in ToSet(notice) : m.type # "PlayerState"
         /\ PlayerRemove(gone) \in ToSet(notice)
         /\ \A j \in DOMAIN notice : j > 1 => notice[j].type # "SessionInfo"
    BY <1>8 DEF ToSet, SessionInfo, PlayerRemove
  <1>11. InfoEnds(down[n] \o notice, net[c].session_players, count)
    BY <1>5, <1>8, <1>10, InfoTold
  <1>12. n \in InOrder =>
           RosterEnds(down[n] \o notice, DOMAIN net[c].replicated_players, LiveIds')
    BY <1>4, <1>5, <1>8, <1>10, RosterTold DEF EndsTrue
  <1>13. \A m \in ToSet(down[n]) \cup ToSet(notice) : m \in ToSet(down'[n])
    BY <1>5, <1>6, <1>8, ConcatKeeps
  <1>14. NoNewGhost(c, n)
    BY <1>1, <1>4, <1>10, <1>13, SameGhosts
  <1> QED
    BY <1>1, <1>6, <1>9, <1>11, <1>12, <1>14 DEF Kept, EndsTrue, SameScreen

-----------------------------------------------------------------------------
(* The steps of the network and of the clients *)

\* A message of channel 1 is lost, or one of channel 0 nobody misses here.
LEMMA NetworkStepRoster ==
    ASSUME Typed, NEW c \in Clients, NEW n \in Conns, Joined(c, n), EndsTrue(c, n),
           NetworkStep
    PROVE  Kept(c, n)
  <1>1. UNCHANGED <<client_states, net>>
    BY DEF NetworkStep, LoseDown, LoseUp, HandshakeTimeout, server, client
  <1>2. SamePlayers /\ SameScreen(c)
    BY <1>1 DEF SamePlayers, SameScreen
  <1>3. CASE down'[n] = down[n]
    BY <1>2, <1>3, SilentStep
  <1>4. ASSUME NEW i \in DOMAIN down[n], LoseDown(n, i)
        PROVE  Kept(c, n)
    <2>1. down[n] \in Seq(DownMessages) /\ down'[n] = RemoveAt(down[n], i)
      BY <1>4 DEF LoseDown, Typed, TypeOK
    <2>2. down[n][i].type \notin {"SessionInfo", "PlayerRemove"}
      BY <1>4 DEF LoseDown, Reliable
    <2>3. InfoEnds(down'[n], net[c].session_players, Players(client_states))
      BY <2>1, <2>2, InfoAfterLoss DEF EndsTrue
    <2>4. n \in InOrder =>
            RosterEnds(down'[n], DOMAIN net[c].replicated_players, LiveIds)
      BY <2>1, <2>2, RosterAfterLoss DEF EndsTrue
    <2>5. ASSUME NEW id, PlayerRemove(id) \in ToSet(down[n])
          PROVE  PlayerRemove(id) \in ToSet(down'[n])
      <3>1. PlayerRemove(id) # down[n][i]
        BY <2>2 DEF PlayerRemove
      <3> QED
        BY <2>1, <2>5, <3>1, RemoveAtKeeps
    <2>6. LiveIds' = LiveIds
      BY <1>1 DEF LiveIds
    <2>7. NoNewGhost(c, n)
      BY <1>2, <2>5, <2>6, SameGhosts
    <2> QED
      BY <1>1, <2>3, <2>4, <2>7 DEF Kept, EndsTrue, LiveIds
  <1>5. \/ down'[n] = down[n]
        \/ \E i \in DOMAIN down[n] : LoseDown(n, i)
    BY DEF NetworkStep, LoseDown, LoseUp, HandshakeTimeout, Typed, TypeOK
  <1> QED
    BY <1>3, <1>4, <1>5

\* What a message does to what a client shows of the others.
LEMMA ReceivedScreen ==
    ASSUME NEW nc \in NetClientState, NEW m \in DownMessages
    PROVE  LET r == Received(nc, m)
           IN  /\ r.session_players = IF m.type = "SessionInfo" THEN m.players
                                      ELSE nc.session_players
               /\ \A id \in DOMAIN r.replicated_players :
                     /\ \/ id \in DOMAIN nc.replicated_players
                        \/ m.type = "PlayerState" /\ m.id = id
                     /\ m # PlayerRemove(id)
  <1> DEFINE r == Received(nc, m)
             chunks == Append(nc.chunk_updates, m.body)
             known == nc.replicated_players
             more == [id \in (DOMAIN known) \cup {m.id} |->
                        IF id = m.id THEN [seq |-> m.seq, body |-> m.body] ELSE known[id]]
             fewer == [id \in (DOMAIN known) \ {m.id} |-> known[id]]
  <1>1. CASE m.type = "PlayerState"
    <2>1. r = nc \/ r = [nc EXCEPT !.replicated_players = more]
      BY <1>1 DEF Received, TakesPlayerState
    <2>2. DOMAIN more = (DOMAIN known) \cup {m.id}
      OBVIOUS
    <2> HIDE DEF more, r
    <2>3. r.session_players = nc.session_players
          /\ DOMAIN r.replicated_players \subseteq (DOMAIN known) \cup {m.id}
      BY <2>1, <2>2 DEF NetClientState
    <2> QED
      BY <1>1, <2>3 DEF r, PlayerRemove
  <1>2. CASE m.type = "PlayerRemove"
    <2>1. r = [nc EXCEPT !.replicated_players = fewer]
      BY <1>2 DEF Received, TakesPlayerRemove
    <2>2. DOMAIN fewer = (DOMAIN known) \ {m.id}
      OBVIOUS
    <2> HIDE DEF fewer, r
    <2>3. r.session_players = nc.session_players
          /\ DOMAIN r.replicated_players = (DOMAIN known) \ {m.id}
      BY <2>1, <2>2 DEF NetClientState
    <2> QED
      BY <1>2, <2>3 DEF r, PlayerRemove
  <1>3. CASE m.type \notin {"PlayerState", "PlayerRemove"}
    <2>1. \/ m.type # "SessionInfo"
             /\ \/ r = TakesSnapshot(nc, m)
                \/ r = [nc EXCEPT !.assigned_player_id = m.id]
                \/ r = [nc EXCEPT !.chunk_updates = chunks]
          \/ m.type = "SessionInfo" /\ r = [nc EXCEPT !.session_players = m.players]
      BY <1>3, DownMessageFields DEF Received
    <2> HIDE DEF chunks, r
    <2>2. r.replicated_players = known
      BY <2>1 DEF TakesSnapshot, NetClientState
    <2>3. r.session_players = IF m.type = "SessionInfo" THEN m.players ELSE nc.session_players
      BY <2>1 DEF TakesSnapshot, NetClientState
    <2> QED
      BY <1>3, <2>2, <2>3 DEF r, PlayerRemove
  <1> QED
    BY <1>1, <1>2, <1>3

\* The client reads a message of its queue.
LEMMA ClientReceiveRoster ==
    ASSUME Typed, NEW c \in Clients, NEW n \in Conns, Joined(c, n), EndsTrue(c, n),
           NEW i \in DOMAIN down[n], ClientReceive(c, i)
    PROVE  Kept(c, n)
  <1> DEFINE box == down[n]
             m == box[i]
             r == Received(net[c], m)
  <1>1. /\ conn[c] = n /\ net[c] \in NetClientState /\ box \in Seq(DownMessages)
        /\ Len(box) \in Nat /\ DOMAIN box = 1..Len(box)
    BY LenProperties DEF Joined, Typed, TypeOK
  <1>2. m \in DownMessages
    BY <1>1, ElementOfSeq
  <1>3. /\ net'[c] = r /\ down'[n] = RemoveAt(box, i)
        /\ UNCHANGED client_states /\ Deliverable(n, box, i)
    BY <1>1 DEF ClientReceive, server, Typed, TypeOK
  <1> HIDE DEF r
  <1>4. /\ r.session_players = IF m.type = "SessionInfo" THEN m.players
                               ELSE net[c].session_players
        /\ \A id \in DOMAIN r.replicated_players :
              /\ \/ id \in DOMAIN net[c].replicated_players
                 \/ m.type = "PlayerState" /\ m.id = id
              /\ m # PlayerRemove(id)
    BY <1>1, <1>2, ReceivedScreen DEF r
  <1>5. InfoEnds(RemoveAt(box, i), r.session_players, Players(client_states))
    <2>1. CASE m.type = "SessionInfo"
      <3>1. \A j \in 1..(i - 1) : ~Reliable(box[j])
        BY <1>1, <1>3, <2>1 DEF Deliverable, Reliable
      <3> QED
        BY <1>1, <1>4, <2>1, <3>1, InfoRead DEF EndsTrue
    <2>2. CASE m.type # "SessionInfo"
      BY <1>1, <1>4, <2>2, InfoAfterLoss DEF EndsTrue
    <2> QED
      BY <2>1, <2>2
  <1>6. n \in InOrder => RosterEnds(RemoveAt(box, i), DOMAIN r.replicated_players, LiveIds)
    <2> SUFFICES ASSUME n \in InOrder
                 PROVE  RosterEnds(RemoveAt(box, i), DOMAIN r.replicated_players, LiveIds)
      OBVIOUS
    <2>1. i = 1
      BY <1>3 DEF Deliverable
    <2>2. RosterEnds(box, DOMAIN net[c].replicated_players, LiveIds)
      BY DEF EndsTrue
    <2> QED
      BY <1>1, <1>4, <2>1, <2>2, RosterRead
  <1>7. LiveIds' = LiveIds /\ m \in ToSet(box)
    BY <1>3 DEF LiveIds, ToSet
  <1>8. ASSUME NEW id \in Ghosts(c, n)'
        PROVE  id \in Ghosts(c, n) \/ ComesLate(c, n, id)
    <2>1. /\ id \in DOMAIN r.replicated_players /\ id \notin LiveIds
          /\ PlayerRemove(id) \notin ToSet(RemoveAt(box, i))
      BY <1>3, <1>7, <1>8 DEF Ghosts, LiveIds
    <2>2. CASE id \in DOMAIN net[c].replicated_players
      <3>1. PlayerRemove(id) \notin ToSet(box)
        BY <1>1, <1>4, <2>1, RemoveAtKeeps
      <3> QED
        BY <2>1, <2>2, <3>1 DEF Ghosts, LiveIds
    <2>3. CASE id \notin DOMAIN net[c].replicated_players
      BY <1>4, <1>7, <2>1, <2>3 DEF ComesLate
    <2> QED
      BY <2>2, <2>3
  <1>9. NoNewGhost(c, n)
    BY <1>8 DEF NoNewGhost
  <1> QED
    BY <1>3, <1>5, <1>6, <1>9 DEF Kept, EndsTrue, LiveIds

\* No other step of a client that stays joined touches its queue or its screen, and
\* nobody else's step does.
LEMMA ClientStepRoster ==
    ASSUME Typed, OwnConns, NEW c \in Clients, NEW n \in Conns, Joined(c, n),
           EndsTrue(c, n), NEW d \in Clients, ClientStep(d), Joined(c, n)'
    PROVE  Kept(c, n)
  <1> USE DEF Typed
  <1>1. /\ slot[c] = "connected" /\ conn[c] = n /\ link[n] = "open" /\ n # NoConn
        /\ slot'[c] = "connected" /\ conn'[c] = n
    BY DEF Joined, PlayersAreOpen, Conns, NoConn
  <1>2. SamePlayers
    BY DEF ClientStep, Connect, ConnectRefused, Disconnect, ClientConnect,
       ClientDisconnect, ClientReceive, PollSnapshot, PollChunkState, SendInput,
       SwitchActivePlanet, server, SamePlayers
  <1>3. d # c => conn[d] # n
    BY <1>1 DEF OwnConns
  <1>4. CASE conn[d] # NoConn /\ \E i \in DOMAIN down[conn[d]] : ClientReceive(d, i)
    <2>1. CASE d = c
      BY <1>1, <1>4, <2>1, ClientReceiveRoster
    <2>2. CASE d # c
      <3>1. SameScreen(c) /\ down'[n] = down[n]
        BY <1>3, <1>4, <2>2 DEF ClientReceive, SameScreen, TypeOK
      <3> QED
        BY <1>2, <3>1, SilentStep
    <2> QED
      BY <2>1, <2>2
  <1>5. CASE \E k \in Conns : Connect(d, k)
    <2>1. d # c
      BY <1>1, <1>5 DEF Connect, TypeOK
    <2>2. SameScreen(c) /\ down'[n] = down[n]
      BY <1>3, <1>5, <2>1 DEF Connect, SameScreen, TypeOK
    <2> QED
      BY <1>2, <2>2, SilentStep
  <1>6. CASE ConnectRefused(d) \/ Disconnect(d) \/ ClientDisconnect(d)
    <2>1. slot'[d] # "connected" /\ Abandoned(d)
          /\ \A e \in Clients \ {d} : net'[e] = net[e]
      BY <1>6 DEF ConnectRefused, Disconnect, ClientDisconnect, SlotAfterDisconnect, TypeOK
    <2>2. d # c
      BY <1>1, <2>1
    <2>3. SameScreen(c) /\ down'[n] = down[n]
      BY <1>3, <2>1, <2>2 DEF Abandoned, SameScreen, TypeOK
    <2> QED
      BY <1>2, <2>3, SilentStep
  <1>7. CASE ClientConnect(d)
    <2>1. d # c
      BY <1>1, <1>7 DEF ClientConnect
    <2>2. SameScreen(c) /\ down'[n] = down[n]
      BY <1>7, <2>1 DEF ClientConnect, SameScreen, TypeOK
    <2> QED
      BY <1>2, <2>2, SilentStep
  <1>8. CASE PollSnapshot(d) \/ PollChunkState(d)
    <2> DEFINE rest == Front(net[d].chunk_updates)
    <2>1. \/ net' = [net EXCEPT ![d].has_snapshot = FALSE]
          \/ net' = [net EXCEPT ![d].chunk_updates = rest]
      BY <1>8 DEF PollSnapshot, PollChunkState
    <2> HIDE DEF rest
    <2>2. /\ net[c] \in NetClientState
          /\ \/ net'[c] = net[c]
             \/ net'[c] = [net[c] EXCEPT !.has_snapshot = FALSE]
             \/ net'[c] = [net[c] EXCEPT !.chunk_updates = rest]
      <3>1. net[c] \in NetClientState /\ (d # c => net'[c] = net[c])
        BY <2>1 DEF TypeOK
      <3>2. d = c => \/ net'[c] = [net[c] EXCEPT !.has_snapshot = FALSE]
                     \/ net'[c] = [net[c] EXCEPT !.chunk_updates = rest]
        BY <2>1 DEF TypeOK
      <3> QED
        BY <3>1, <3>2, Zenon
    <2>3. SameScreen(c)
      BY <2>2 DEF SameScreen, NetClientState
    <2>4. down'[n] = down[n]
      BY <1>8 DEF PollSnapshot, PollChunkState, wires
    <2> QED
      BY <1>2, <2>3, <2>4, SilentStep
  <1>9. CASE \/ \E press \in BOOLEAN : SendInput(d, press)
             \/ \E b \in Bodies : SwitchActivePlanet(d, b)
    <2>1. SameScreen(c) /\ down'[n] = down[n]
      BY <1>9 DEF SendInput, SwitchActivePlanet, SameScreen, client
    <2> QED
      BY <1>2, <2>1, SilentStep
  <1> QED
    BY <1>4, <1>5, <1>6, <1>7, <1>8, <1>9 DEF ClientStep

-----------------------------------------------------------------------------
(* The theorems *)

LEMMA EveryStepKeeps ==
    ASSUME Typed, Typed', SessionInv, OwnConns, RosterInv, [Next]_vars,
           NEW c \in Clients, NEW n \in Conns, Joined(c, n)'
    PROVE  Kept(c, n)
  <1>1. Joined(c, n) => EndsTrue(c, n)
    BY DEF RosterInv
  <1>2. CASE UNCHANGED vars
    <2>1. Joined(c, n) /\ SamePlayers /\ SameScreen(c) /\ down'[n] = down[n]
      BY <1>2 DEF Joined, SamePlayers, SameScreen, vars, server, wires, client
    <2> QED
      BY <1>1, <2>1, SilentStep
  <1>3. CASE NetworkStep
    <2>1. UNCHANGED <<server, client>>
      BY <1>3 DEF NetworkStep, LoseDown, LoseUp, HandshakeTimeout
    <2>2. Joined(c, n)
      BY <2>1 DEF Joined, server, client
    <2> QED
      BY <1>1, <1>3, <2>2, NetworkStepRoster
  <1>4. ASSUME NEW d \in Clients, ClientStep(d) PROVE Kept(c, n)
    <2>1. UNCHANGED server
      BY <1>4 DEF ClientStep, Connect, ConnectRefused, Disconnect, ClientConnect,
         ClientDisconnect, ClientReceive, PollSnapshot, PollChunkState, SendInput,
         SwitchActivePlanet
    <2>2. Joined(c, n)
      <3>1. ~ServerConnect(n)
        BY <2>1 DEF ServerConnect, WithClient, server, Typed, TypeOK
      <3> QED
        BY <3>1, JoinedBefore
    <2> QED
      BY <1>1, <1>4, <2>2, ClientStepRoster
  <1>5. CASE ServerStep
    <2>1. ASSUME NEW k \in Conns, ServerConnect(k) PROVE Kept(c, n)
      <3>1. UNCHANGED client
        BY <2>1 DEF ServerConnect
      <3>2. slot[c] = "connected" /\ conn[c] = n
        BY <3>1 DEF Joined, client
      <3>3. ~Joined(c, n) => k = n
        BY <2>1, <3>2 DEF Joined, ServerConnect, WithClient
      <3> QED
        BY <1>1, <2>1, <3>2, <3>3, ServerConnectRoster
    <2>2. CASE Joined(c, n)
      <3>1. CASE StartServer \/ ShutdownServer
        BY <3>1, EmptyDomain DEF StartServer, ShutdownServer, Joined
      <3>2. ASSUME NEW k \in Conns, ServerDisconnect(k) PROVE Kept(c, n)
        BY <1>1, <2>2, <3>2, ServerDisconnectRoster
      <3>3. CASE \/ SimulateFixedTick
                 \/ SendSnapshots
                 \/ \E near \in SUBSET ObserverSubjectPairs : BroadcastPlayerStates(near)
                 \/ \E k \in Conns :
                       \/ InterestWindowPasses(k)
                       \/ \E i \in DOMAIN up[k] : ServerReceiveInput(k, i) \/ ServerReceiveInterest(k, i)
        BY <1>1, <2>2, <3>3, ServerStreamsRoster
      <3> QED
        BY <1>5, <2>1, <3>1, <3>2, <3>3 DEF ServerStep
    <2> QED
      BY <2>1, <2>2, JoinedBefore
  <1> QED
    BY <1>2, <1>3, <1>4, <1>5 DEF Next

LEMMA StepRoster ==
    Typed /\ Typed' /\ SessionInv /\ OwnConns /\ RosterInv /\ [Next]_vars => RosterInv'
  BY EveryStepKeeps DEF RosterInv, Kept

\* Between steps, the queue of a joined client ends in the truth about the others.
THEOREM RosterInvHolds == Spec => []RosterInv
  <1>1. Init => RosterInv
    BY DEF Init, RosterInv, Joined
  <1> QED
    BY <1>1, StepRoster, OwnConnsHolds, SessionInvHolds, TypeCorrect, PTL DEF Spec

\* The player count a client shows, or the last one on its way to it, is the number
\* of players the server has: for any number of clients and connections, whatever is
\* lost or overtaken on channel 1.
THEOREM SessionInfoStaysCurrent == Spec => []SessionInfoIsCurrent
  <1>1. RosterInv => SessionInfoIsCurrent
    BY DEF RosterInv, EndsTrue, SessionInfoIsCurrent
  <1> QED
    BY <1>1, RosterInvHolds, PTL

\* A player that left is forgotten by every client, where datagrams keep their order;
\* elsewhere only a PlayerState overtaken by his PlayerRemove brings him back, and no
\* session begins with him.
THEOREM RemovedPlayersAreAlwaysForgotten == Spec => RemovedPlayersAreForgotten
  <1> DEFINE Forgotten ==
        \A c \in Clients : \A n \in Conns : Joined(c, n)' =>
           \A id \in Ghosts(c, n)' :
              /\ n \notin InOrder
              /\ \/ Joined(c, n) /\ id \in Ghosts(c, n)
                 \/ ComesLate(c, n, id)
  <1>1. Typed /\ Typed' /\ SessionInv /\ OwnConns /\ RosterInv /\ [Next]_vars => Forgotten
    <2> SUFFICES ASSUME Typed, Typed', SessionInv, OwnConns, RosterInv, [Next]_vars,
                        NEW c \in Clients, NEW n \in Conns, Joined(c, n)',
                        NEW id \in Ghosts(c, n)'
                 PROVE  /\ n \notin InOrder
                        /\ \/ Joined(c, n) /\ id \in Ghosts(c, n)
                           \/ ComesLate(c, n, id)
      OBVIOUS
    <2>1. EndsTrue(c, n)' /\ NoNewGhost(c, n)
      BY EveryStepKeeps DEF Kept
    <2>2. n \notin InOrder
      BY <2>1 DEF EndsTrue, RosterEnds, TakenBack, LiveIds, ToSet, Ghosts
    <2> QED
      BY <2>1, <2>2 DEF NoNewGhost
  <1>2. Typed /\ Typed' /\ SessionInv /\ OwnConns /\ RosterInv /\ [Next]_vars => [Forgotten]_vars
    BY <1>1
  <1> HIDE DEF Forgotten
  <1>3. Spec => [][Forgotten]_vars
    BY <1>2, RosterInvHolds, OwnConnsHolds, SessionInvHolds, TypeCorrect, PTL DEF Spec
  <1> QED
    BY <1>3 DEF RemovedPlayersAreForgotten, Forgotten
=============================================================================
