------------------------ MODULE ProjectAttestActionProofs ------------------------
(***************************************************************************)
(* Theorems about ProjectAttestAction: for every README that an author may *)
(* write, every number of runs, and every point at which one of them may   *)
(* fail or be stopped.                                                     *)
(***************************************************************************)
EXTENDS ProjectAttestAction, FiniteSetTheorems, SequenceTheorems, TLAPS

Item == {START, END} \cup [kind : {"badge"}, of : Nat] \cup Lines

LEMMA Items ==
  /\ START \in Item /\ END \in Item /\ START # END /\ START.kind = "start" /\ END.kind = "end"
  /\ \A k \in Nat : Badge(k) \in Item /\ Badge(k).kind = "badge" /\ Badge(k).of = k
  /\ \A item \in Item : item.kind = "start" <=> item = START
  /\ \A item \in Item : item.kind = "end" <=> item = END
  /\ \A item \in Item : item.kind = "badge" => item.of \in Nat /\ item = Badge(item.of)
  /\ \A item \in Item : item.kind = "line" => item \in Lines
<1>1. START # END /\ START.kind = "start" /\ END.kind = "end" /\ START \in Item /\ END \in Item
  BY DEF START, END, Item
<1>2. \A k \in Nat : Badge(k) \in Item /\ Badge(k).kind = "badge" /\ Badge(k).of = k
  BY DEF Badge, Item
<1>3. \A item \in [kind : {"badge"}, of : Nat] :
        item.kind = "badge" /\ item.of \in Nat /\ item = Badge(item.of)
  BY DEF Badge
<1>4. \A item \in Lines : item.kind = "line"
  BY DEF Lines
<1>5. QED
  BY <1>1, <1>2, <1>3, <1>4 DEF Item

-----------------------------------------------------------------------------
(* Where the markers are. *)

OnlyAt(text, item, k) == k \in DOMAIN text /\ \A i \in DOMAIN text : text[i] = item <=> i = k
BlockAt(text, a, b) == OnlyAt(text, START, a) /\ OnlyAt(text, END, b) /\ a < b

LEMMA OccurrencesCount ==
  ASSUME NEW text \in Seq(Item), NEW item
  PROVE  /\ Occurrences(text, item) = 0 <=> \A i \in DOMAIN text : text[i] # item
         /\ Occurrences(text, item) = 1 <=> OnlyAt(text, item, Position(text, item))
         /\ \A k : OnlyAt(text, item, k) => Occurrences(text, item) = 1 /\ Position(text, item) = k
<1> DEFINE places == {i \in DOMAIN text : text[i] = item}
<1>1. IsFiniteSet(places)
  <2>1. IsFiniteSet(DOMAIN text)
    BY LenProperties, FS_Interval
  <2>2. QED
    BY <2>1, FS_Subset
<1>2. Cardinality(places) = 0 <=> places = {}
  BY <1>1, FS_EmptySet
<1>3. Cardinality(places) = 1 <=> \E x : places = {x}
  BY <1>1, FS_Singleton
<1>4. ASSUME NEW k, OnlyAt(text, item, k)
      PROVE  Position(text, item) = k /\ places = {k}
  BY <1>4 DEF OnlyAt, Position
<1>5. ASSUME NEW x, places = {x}
      PROVE  OnlyAt(text, item, x)
  BY <1>5 DEF OnlyAt
<1>6. QED
  BY <1>2, <1>3, <1>4, <1>5 DEF Occurrences

LEMMA BlockPlace ==
  ASSUME NEW text \in Seq(Item)
  PROVE  /\ HasNoBlock(text) <=> \A i \in DOMAIN text : text[i] # START /\ text[i] # END
         /\ HasOneBlock(text) => BlockAt(text, Position(text, START), Position(text, END))
         /\ \A a, b : BlockAt(text, a, b) =>
              HasOneBlock(text) /\ Position(text, START) = a /\ Position(text, END) = b
BY OccurrencesCount DEF HasNoBlock, HasOneBlock, BlockAt

-----------------------------------------------------------------------------
(* Cutting a piece out of a text and putting another in its place. *)

Cut(text, a, b) == SubSeq(text, 1, a - 1) \o SubSeq(text, b + 1, Len(text))
Spliced(text, a, b, block) == SubSeq(text, 1, a - 1) \o block \o SubSeq(text, b + 1, Len(text))

LEMMA Parts ==
  ASSUME NEW text \in Seq(Item), NEW a \in 1..(Len(text) + 1), NEW b \in (a - 1)..Len(text)
  PROVE  /\ SubSeq(text, 1, a - 1) \in Seq(Item) /\ Len(SubSeq(text, 1, a - 1)) = a - 1
         /\ \A i \in 1..(a - 1) : SubSeq(text, 1, a - 1)[i] = text[i]
         /\ SubSeq(text, b + 1, Len(text)) \in Seq(Item) /\ Len(SubSeq(text, b + 1, Len(text))) = Len(text) - b
         /\ \A i \in 1..(Len(text) - b) : SubSeq(text, b + 1, Len(text))[i] = text[b + i]
<1>1. Len(text) \in Nat /\ \A i \in 1..Len(text) : text[i] \in Item
  BY LenProperties, ElementOfSeq
<1>2. a - 1 \in Int /\ b + 1 \in Int /\ Len(text) \in Int /\ a \in Nat /\ b \in Int /\ a - 1 >= 0 /\ b >= 0
  BY <1>1
<1>3. /\ SubSeq(text, 1, a - 1) \in Seq(Item)
      /\ Len(SubSeq(text, 1, a - 1)) = IF 1 <= a - 1 THEN (a - 1) - 1 + 1 ELSE 0
      /\ \A i \in 1..((a - 1) - 1 + 1) : SubSeq(text, 1, a - 1)[i] = text[1 + i - 1]
  BY <1>1, <1>2, SubSeqProperties
<1>4. /\ SubSeq(text, b + 1, Len(text)) \in Seq(Item)
      /\ Len(SubSeq(text, b + 1, Len(text))) = IF b + 1 <= Len(text) THEN Len(text) - (b + 1) + 1 ELSE 0
      /\ \A i \in 1..(Len(text) - (b + 1) + 1) : SubSeq(text, b + 1, Len(text))[i] = text[(b + 1) + i - 1]
  BY <1>1, <1>2, SubSeqProperties
<1>5. ASSUME NEW i \in 1..(a - 1) PROVE SubSeq(text, 1, a - 1)[i] = text[i]
  <2>1. i \in 1..((a - 1) - 1 + 1) /\ 1 + i - 1 = i
    BY <1>2
  <2>2. QED
    BY <1>3, <2>1
<1>6. ASSUME NEW i \in 1..(Len(text) - b) PROVE SubSeq(text, b + 1, Len(text))[i] = text[b + i]
  <2>1. i \in 1..(Len(text) - (b + 1) + 1) /\ (b + 1) + i - 1 = b + i
    BY <1>1, <1>2
  <2>2. QED
    BY <1>4, <2>1
<1>7. (IF 1 <= a - 1 THEN (a - 1) - 1 + 1 ELSE 0) = a - 1
      /\ (IF b + 1 <= Len(text) THEN Len(text) - (b + 1) + 1 ELSE 0) = Len(text) - b
  BY <1>1, <1>2
<1>8. QED
  BY <1>3, <1>4, <1>5, <1>6, <1>7

LEMMA CutText ==
  ASSUME NEW text \in Seq(Item), NEW a \in 1..(Len(text) + 1), NEW b \in (a - 1)..Len(text)
  PROVE  /\ Cut(text, a, b) \in Seq(Item) /\ Len(Cut(text, a, b)) = Len(text) - (b - a + 1)
         /\ \A i \in 1..(Len(text) - (b - a + 1)) :
              Cut(text, a, b)[i] = IF i < a THEN text[i] ELSE text[i + (b - a + 1)]
<1> DEFINE front == SubSeq(text, 1, a - 1)
           back == SubSeq(text, b + 1, Len(text))
<1>1. /\ front \in Seq(Item) /\ Len(front) = a - 1 /\ \A i \in 1..(a - 1) : front[i] = text[i]
      /\ back \in Seq(Item) /\ Len(back) = Len(text) - b /\ \A i \in 1..(Len(text) - b) : back[i] = text[b + i]
      /\ Len(text) \in Nat
  BY Parts, LenProperties
<1> HIDE DEF front, back
<1>2. /\ front \o back \in Seq(Item) /\ Len(front \o back) = Len(front) + Len(back)
      /\ \A i \in 1..(Len(front) + Len(back)) :
           (front \o back)[i] = IF i <= Len(front) THEN front[i] ELSE back[i - Len(front)]
  BY <1>1, ConcatProperties
<1>3. Cut(text, a, b) = front \o back
  BY DEF Cut, front, back
<1>4. Len(front) + Len(back) = Len(text) - (b - a + 1)
  BY <1>1
<1>5. ASSUME NEW i \in 1..(Len(text) - (b - a + 1))
      PROVE  (front \o back)[i] = IF i < a THEN text[i] ELSE text[i + (b - a + 1)]
  <2>1. CASE i < a
    BY <1>1, <1>2, <1>4, <2>1
  <2>2. CASE i >= a
    <3>1. i - (a - 1) \in 1..(Len(text) - b) /\ b + (i - (a - 1)) = i + (b - a + 1)
      BY <1>1, <2>2
    <3>2. i \in 1..(Len(front) + Len(back)) /\ ~(i <= Len(front)) /\ i - Len(front) = i - (a - 1)
      BY <1>1, <1>4, <2>2
    <3>3. (front \o back)[i] = back[i - (a - 1)]
      BY <1>2, <3>2
    <3>4. back[i - (a - 1)] = text[i + (b - a + 1)]
      BY <1>1, <3>1
    <3>5. ~(i < a)
      BY <1>1, <2>2
    <3>6. QED
      BY <3>3, <3>4, <3>5
  <2>3. QED
    BY <1>1, <2>1, <2>2
<1>6. QED
  BY <1>2, <1>3, <1>4, <1>5

LEMMA SplicedText ==
  ASSUME NEW text \in Seq(Item), NEW a \in 1..(Len(text) + 1), NEW b \in (a - 1)..Len(text),
         NEW block \in Seq(Item), Len(block) = 3
  PROVE  /\ Spliced(text, a, b, block) \in Seq(Item)
         /\ Len(Spliced(text, a, b, block)) = Len(text) - (b - a + 1) + 3
         /\ \A i \in 1..(Len(text) - (b - a + 1) + 3) :
              Spliced(text, a, b, block)[i] =
                IF i < a THEN text[i] ELSE IF i < a + 3 THEN block[i - (a - 1)] ELSE text[i - 3 + (b - a + 1)]
<1> DEFINE front == SubSeq(text, 1, a - 1)
           back == SubSeq(text, b + 1, Len(text))
           head == front \o block
<1>1. /\ front \in Seq(Item) /\ Len(front) = a - 1 /\ \A i \in 1..(a - 1) : front[i] = text[i]
      /\ back \in Seq(Item) /\ Len(back) = Len(text) - b /\ \A i \in 1..(Len(text) - b) : back[i] = text[b + i]
      /\ Len(text) \in Nat
  BY Parts, LenProperties
<1> HIDE DEF front, back
<1>2. /\ head \in Seq(Item) /\ Len(head) = Len(front) + Len(block)
      /\ \A i \in 1..(Len(front) + Len(block)) :
           head[i] = IF i <= Len(front) THEN front[i] ELSE block[i - Len(front)]
  BY <1>1, ConcatProperties
<1> HIDE DEF head
<1>3. head \in Seq(Item) /\ back \in Seq(Item)
  BY <1>1, <1>2
<1>4. /\ head \o back \in Seq(Item) /\ Len(head \o back) = Len(head) + Len(back)
      /\ \A i \in 1..(Len(head) + Len(back)) :
           (head \o back)[i] = IF i <= Len(head) THEN head[i] ELSE back[i - Len(head)]
  BY <1>3, ConcatProperties
<1>5. Spliced(text, a, b, block) = head \o back
  BY DEF Spliced, front, back, head
<1>6. Len(head) = a + 2 /\ Len(head) + Len(back) = Len(text) - (b - a + 1) + 3
  BY <1>1, <1>2
<1>7. ASSUME NEW i \in 1..(Len(text) - (b - a + 1) + 3)
      PROVE  (head \o back)[i] =
               IF i < a THEN text[i] ELSE IF i < a + 3 THEN block[i - (a - 1)] ELSE text[i - 3 + (b - a + 1)]
  <2>1. i \in 1..(Len(head) + Len(back)) /\ i \in Nat
    BY <1>1, <1>6
  <2>2. CASE i < a
    <3>1. i <= Len(head) /\ i \in 1..(Len(front) + Len(block)) /\ i <= Len(front) /\ i \in 1..(a - 1)
      BY <1>1, <1>6, <2>1, <2>2
    <3>2. QED
      BY <1>1, <1>2, <1>4, <2>1, <2>2, <3>1
  <2>3. CASE i >= a /\ i < a + 3
    <3>1. /\ i <= Len(head) /\ i \in 1..(Len(front) + Len(block)) /\ ~(i <= Len(front)) /\ ~(i < a)
          /\ i - Len(front) = i - (a - 1)
      BY <1>1, <1>6, <2>1, <2>3
    <3>2. QED
      BY <1>2, <1>4, <2>1, <2>3, <3>1
  <2>4. CASE i >= a + 3
    <3>1. /\ ~(i <= Len(head)) /\ i - Len(head) \in 1..(Len(text) - b) /\ ~(i < a) /\ ~(i < a + 3)
          /\ b + (i - Len(head)) = i - 3 + (b - a + 1)
      BY <1>1, <1>6, <2>1, <2>4
    <3>2. QED
      BY <1>1, <1>4, <2>1, <3>1
  <2>5. QED
    BY <1>1, <2>1, <2>2, <2>3, <2>4
<1>8. QED
  BY <1>4, <1>5, <1>6, <1>7

-----------------------------------------------------------------------------
(* What update_readme makes of a text that takes a badge. *)

(* The place of the block: that of the old one, or the end of the text. *)
Place(text, a, b) ==
  /\ a \in 1..(Len(text) + 1) /\ b \in (a - 1)..Len(text)
  /\ \A i \in DOMAIN text : text[i] \in {START, END} => a <= i /\ i <= b

LEMMA UpdateIsSplice ==
  ASSUME NEW text \in Seq(Item), TakesBadge(text), NEW block \in Seq(Item)
  PROVE  \E a, b : /\ Place(text, a, b)
                   /\ update_readme(text, block) = Spliced(text, a, b, block)
                   /\ Outside(text) = Cut(text, a, b)
<1>1. Len(text) \in Nat /\ DOMAIN text = 1..Len(text)
  BY LenProperties
<1>2. CASE HasNoBlock(text)
  <2>1. \A i \in DOMAIN text : text[i] \notin {START, END}
    BY <1>2, BlockPlace
  <2>2. Place(text, Len(text) + 1, Len(text))
    BY <1>1, <2>1 DEF Place
  <2>3. SubSeq(text, 1, Len(text) + 1 - 1) = text /\ SubSeq(text, Len(text) + 1, Len(text)) = <<>>
    <3>1. Len(text) + 1 - 1 = Len(text) /\ Len(text) + 1 \in Int /\ Len(text) \in Int /\ Len(text) < Len(text) + 1
      BY <1>1
    <3>2. QED
      BY <3>1, SubSeqFull, SubSeqEmpty
  <2>4. text \o block \in Seq(Item)
    BY ConcatProperties
  <2>5. (text \o block) \o <<>> = text \o block /\ text \o <<>> = text
    BY <2>4, ConcatEmptySeq
  <2>6. ~HasOneBlock(text)
    BY <1>2 DEF HasNoBlock, HasOneBlock
  <2>7. update_readme(text, block) = Spliced(text, Len(text) + 1, Len(text), block)
    BY <1>2, <2>3, <2>5 DEF update_readme, Spliced
  <2>8. Outside(text) = Cut(text, Len(text) + 1, Len(text))
    BY <2>3, <2>5, <2>6 DEF Outside, Cut
  <2>9. QED
    BY <2>2, <2>7, <2>8
<1>3. CASE HasOneBlock(text)
  <2> DEFINE a == Position(text, START)
             b == Position(text, END)
  <2>1. BlockAt(text, a, b) /\ ~HasNoBlock(text)
    BY <1>3, BlockPlace DEF HasNoBlock, HasOneBlock
  <2>2. a \in 1..Len(text) /\ b \in 1..Len(text) /\ a < b
        /\ \A i \in DOMAIN text : (text[i] = START => i = a) /\ (text[i] = END => i = b)
    BY <1>1, <2>1 DEF BlockAt, OnlyAt
  <2>3. update_readme(text, block) = Spliced(text, a, b, block) /\ Outside(text) = Cut(text, a, b)
    BY <1>3, <2>1 DEF update_readme, Spliced, Outside, Cut
  <2> HIDE DEF a, b
  <2>4. Place(text, a, b)
    BY <1>1, <2>2 DEF Place
  <2>5. QED
    BY <2>3, <2>4
<1>4. QED
  BY <1>2, <1>3 DEF TakesBadge

LEMMA BlockItems ==
  ASSUME NEW k \in Nat
  PROVE  /\ badge_block(k) \in Seq(Item) /\ Len(badge_block(k)) = 3
         /\ badge_block(k)[1] = START /\ badge_block(k)[2] = Badge(k) /\ badge_block(k)[3] = END
BY Items DEF badge_block

(* The new text holds one block, of the given credential, around it what was
   around the old one, and no badge that was not there before. *)
LEMMA UpdatedReadme ==
  ASSUME NEW text \in Seq(Item), TakesBadge(text), NEW k \in Nat, NEW new, new = update_readme(text, badge_block(k))
  PROVE  /\ new \in Seq(Item)
         /\ HasOneBlock(new)
         /\ new[Position(new, START) + 1] = Badge(k) /\ Position(new, START) + 1 \in DOMAIN new
         /\ Outside(new) = Outside(text)
         /\ \A i \in DOMAIN new : i = Position(new, START) + 1 \/ new[i] \in {START, END} \/ \E j \in DOMAIN text : new[i] = text[j]
<1> DEFINE block == badge_block(k)
<1>1. /\ block \in Seq(Item) /\ Len(block) = 3
      /\ block[1] = START /\ block[2] = Badge(k) /\ block[3] = END
  BY BlockItems
<1> HIDE DEF block
<1>2. PICK a, b : Place(text, a, b) /\ new = Spliced(text, a, b, block) /\ Outside(text) = Cut(text, a, b)
  BY <1>1, UpdateIsSplice DEF block
<1>3. Len(text) \in Nat /\ DOMAIN text = 1..Len(text) /\ a \in 1..(Len(text) + 1) /\ b \in (a - 1)..Len(text)
  BY <1>2, LenProperties DEF Place
<1> DEFINE gap == b - a + 1
<1>4. gap \in Nat /\ gap <= Len(text) /\ a \in Nat /\ b \in Int /\ b = a + gap - 1 /\ a + gap <= Len(text) + 1 /\ a >= 1
  BY <1>3
<1>5. /\ Spliced(text, a, b, block) \in Seq(Item)
      /\ Len(Spliced(text, a, b, block)) = Len(text) - (b - a + 1) + 3
      /\ \A i \in 1..(Len(text) - (b - a + 1) + 3) :
           Spliced(text, a, b, block)[i] =
             IF i < a THEN text[i] ELSE IF i < a + 3 THEN block[i - (a - 1)] ELSE text[i - 3 + (b - a + 1)]
  BY <1>1, <1>3, SplicedText
<1>6. new \in Seq(Item) /\ Len(new) = Len(text) - gap + 3
  BY <1>2, <1>5
<1>7. \A i \in 1..(Len(text) - gap + 3) :
           new[i] = IF i < a THEN text[i] ELSE IF i < a + 3 THEN block[i - (a - 1)] ELSE text[i - 3 + gap]
  BY <1>2, <1>5
<1> HIDE DEF gap
<1>8. DOMAIN new = 1..(Len(text) - gap + 3)
  BY <1>6, LenProperties
<1>9. a \in DOMAIN new /\ a + 1 \in DOMAIN new /\ a + 2 \in DOMAIN new
  BY <1>3, <1>4, <1>8
<1>10. new[a] = START /\ new[a + 1] = Badge(k) /\ new[a + 2] = END
  <2>1. a - (a - 1) = 1 /\ a + 1 - (a - 1) = 2 /\ a + 2 - (a - 1) = 3
        /\ ~(a < a) /\ ~(a + 1 < a) /\ ~(a + 2 < a) /\ a < a + 3 /\ a + 1 < a + 3 /\ a + 2 < a + 3
    BY <1>4
  <2>2. new[a] = block[a - (a - 1)] /\ new[a + 1] = block[a + 1 - (a - 1)] /\ new[a + 2] = block[a + 2 - (a - 1)]
    BY <1>7, <1>8, <1>9, <2>1
  <2>3. QED
    BY <1>1, <2>1, <2>2
<1>11. ASSUME NEW i \in DOMAIN new, i \notin {a, a + 1, a + 2}
      PROVE  \E j \in DOMAIN text : new[i] = text[j] /\ ~(a <= j /\ j <= b)
  <2>1. CASE i < a
    BY <1>3, <1>4, <1>7, <1>8, <2>1
  <2>2. CASE i >= a + 3
    <3>1. i - 3 + gap \in DOMAIN text /\ ~(i - 3 + gap <= b) /\ ~(i < a) /\ ~(i < a + 3)
      BY <1>3, <1>4, <1>8, <2>2
    <3>2. QED
      BY <1>7, <1>8, <3>1
  <2>3. QED
    BY <1>4, <1>8, <1>11, <2>1, <2>2
<1>12. ASSUME NEW i \in DOMAIN new, i \notin {a, a + 1, a + 2}
       PROVE  new[i] # START /\ new[i] # END
  BY <1>2, <1>11, <1>12 DEF Place
<1>13. Badge(k) # START /\ Badge(k) # END /\ START # END
  BY Items
<1>14. BlockAt(new, a, a + 2)
  BY <1>4, <1>9, <1>10, <1>12, <1>13 DEF BlockAt, OnlyAt
<1>15. HasOneBlock(new) /\ Position(new, START) = a /\ Position(new, END) = a + 2
  BY <1>6, <1>14, BlockPlace
<1>16. Outside(new) = Cut(new, a, a + 2)
  BY <1>15 DEF Outside, Cut
<1>17. Cut(new, a, a + 2) = Cut(text, a, b)
  <2>1. /\ Cut(text, a, b) \in Seq(Item) /\ Len(Cut(text, a, b)) = Len(text) - gap
        /\ \A i \in 1..(Len(text) - gap) : Cut(text, a, b)[i] = IF i < a THEN text[i] ELSE text[i + gap]
    BY <1>3, CutText DEF gap
  <2>2. a \in 1..(Len(new) + 1) /\ a + 2 \in (a - 1)..Len(new) /\ (a + 2) - a + 1 = 3 /\ Len(new) - 3 = Len(text) - gap
    BY <1>3, <1>4, <1>6
  <2>3. /\ Cut(new, a, a + 2) \in Seq(Item) /\ Len(Cut(new, a, a + 2)) = Len(new) - ((a + 2) - a + 1)
        /\ \A i \in 1..(Len(new) - ((a + 2) - a + 1)) :
             Cut(new, a, a + 2)[i] = IF i < a THEN new[i] ELSE new[i + ((a + 2) - a + 1)]
    BY <1>6, <2>2, CutText
  <2>4. ASSUME NEW i \in 1..(Len(text) - gap)
        PROVE  Cut(new, a, a + 2)[i] = Cut(text, a, b)[i]
    <3>1. CASE i < a
      <4>1. i \in 1..(Len(text) - gap + 3)
        BY <1>3, <1>4
      <4>2. new[i] = text[i]
        BY <1>7, <3>1, <4>1
      <4>3. QED
        BY <2>1, <2>2, <2>3, <3>1, <4>2
    <3>2. CASE ~(i < a)
      <4>1. i + 3 \in 1..(Len(text) - gap + 3) /\ ~(i + 3 < a) /\ ~(i + 3 < a + 3) /\ i + 3 - 3 + gap = i + gap
        BY <1>3, <1>4, <3>2
      <4>2. new[i + 3] = text[i + gap]
        BY <1>7, <4>1
      <4>3. QED
        BY <2>1, <2>2, <2>3, <3>2, <4>2
    <3>3. QED
      BY <3>1, <3>2
  <2>5. QED
    BY <2>1, <2>2, <2>3, <2>4, SeqEqual
<1>18. QED
  BY <1>2, <1>6, <1>9, <1>10, <1>11, <1>15, <1>16, <1>17

-----------------------------------------------------------------------------
(* Reading folds line endings and nothing else. *)

LEMMA ReadItems ==
  ASSUME NEW text \in Seq(Item)
  PROVE  /\ ReadText(text) \in Seq(Item) /\ Len(ReadText(text)) = Len(text)
         /\ DOMAIN ReadText(text) = DOMAIN text
         /\ \A i \in DOMAIN text :
              /\ ReadText(text)[i] = IF text[i].kind = "line" THEN Line(text[i].text, "LF") ELSE text[i]
              /\ ReadText(text)[i] \in Item /\ ReadText(text)[i].kind = text[i].kind
              /\ ReadText(text)[i] = START <=> text[i] = START
              /\ ReadText(text)[i] = END <=> text[i] = END
<1>1. Len(text) \in Nat /\ DOMAIN text = 1..Len(text) /\ \A i \in 1..Len(text) : text[i] \in Item
  BY LenProperties, ElementOfSeq
<1>2. ASSUME NEW item \in Item, item.kind = "line"
      PROVE  Line(item.text, "LF") \in Item /\ Line(item.text, "LF").kind = "line"
  <2>1. item \in Lines
    BY <1>2, Items
  <2>2. Line(item.text, "LF") \in Lines /\ Line(item.text, "LF").kind = "line"
    BY <2>1 DEF Lines, Line
  <2>3. QED
    BY <2>2 DEF Item
<1>3. \A i \in DOMAIN text :
        ReadText(text)[i] = IF text[i].kind = "line" THEN Line(text[i].text, "LF") ELSE text[i]
  BY DEF ReadText
<1>4. DOMAIN ReadText(text) = 1..Len(text)
  BY <1>1 DEF ReadText
<1>5. \A i \in 1..Len(text) : ReadText(text)[i] \in Item /\ ReadText(text)[i].kind = text[i].kind
  BY <1>1, <1>2, <1>3
<1>6. ReadText(text) \in Seq(Item)
  <2>1. ReadText(text) \in [1..Len(text) -> Item]
    BY <1>1, <1>4, <1>5 DEF ReadText
  <2>2. QED
    BY <1>1, <2>1, SeqDef
<1>7. Len(ReadText(text)) = Len(text)
  <2>1. DOMAIN ReadText(text) = 1..Len(ReadText(text)) /\ Len(ReadText(text)) \in Nat
    BY <1>6, LenProperties
  <2>2. QED
    BY <1>1, <1>4, <2>1
<1>8. ASSUME NEW i \in DOMAIN text
      PROVE  (ReadText(text)[i] = START <=> text[i] = START) /\ (ReadText(text)[i] = END <=> text[i] = END)
  <2>1. /\ text[i] \in Item /\ ReadText(text)[i] \in Item /\ ReadText(text)[i].kind = text[i].kind
    BY <1>1, <1>5
  <2>2. QED
    BY <2>1, Items
<1>9. QED
  BY <1>1, <1>3, <1>4, <1>5, <1>6, <1>7, <1>8

LEMMA ReadBlock ==
  ASSUME NEW text \in Seq(Item)
  PROVE  /\ \A a, b : BlockAt(ReadText(text), a, b) <=> BlockAt(text, a, b)
         /\ HasNoBlock(ReadText(text)) <=> HasNoBlock(text)
         /\ HasOneBlock(ReadText(text)) <=> HasOneBlock(text)
         /\ TakesBadge(ReadText(text)) <=> TakesBadge(text)
<1> DEFINE read == ReadText(text)
<1>1. /\ read \in Seq(Item) /\ DOMAIN read = DOMAIN text
      /\ \A i \in DOMAIN text : (read[i] = START <=> text[i] = START) /\ (read[i] = END <=> text[i] = END)
  BY ReadItems
<1> HIDE DEF read
<1>2. \A a, b : BlockAt(read, a, b) <=> BlockAt(text, a, b)
  BY <1>1 DEF BlockAt, OnlyAt
<1>3. HasNoBlock(read) <=> HasNoBlock(text)
  BY <1>1, BlockPlace
<1>4. HasOneBlock(read) <=> HasOneBlock(text)
  BY <1>1, <1>2, BlockPlace
<1>5. QED
  BY <1>2, <1>3, <1>4 DEF read, TakesBadge

(* Reading a text and leaving out its block can be exchanged. *)
LEMMA ReadOutside ==
  ASSUME NEW text \in Seq(Item)
  PROVE  ReadText(Outside(ReadText(text))) = ReadText(Outside(text))
<1> DEFINE read == ReadText(text)
<1>1. /\ read \in Seq(Item) /\ Len(read) = Len(text) /\ DOMAIN text = 1..Len(text) /\ Len(text) \in Nat
      /\ \A i \in 1..Len(text) :
           /\ read[i] = IF text[i].kind = "line" THEN Line(text[i].text, "LF") ELSE text[i]
           /\ read[i].kind = text[i].kind
  BY ReadItems, LenProperties
<1> HIDE DEF read
<1>2. ASSUME NEW s \in Seq(Item), NEW t \in Seq(Item), Len(s) = Len(t),
             \A i \in 1..Len(s) : \E j \in 1..Len(text) : s[i] = read[j] /\ t[i] = text[j]
      PROVE  ReadText(s) = ReadText(t)
  <2>1. DOMAIN s = 1..Len(s) /\ DOMAIN t = 1..Len(s)
    BY <1>2, LenProperties
  <2>2. ASSUME NEW j \in 1..Len(text)
        PROVE  (IF read[j].kind = "line" THEN Line(read[j].text, "LF") ELSE read[j])
                 = (IF text[j].kind = "line" THEN Line(text[j].text, "LF") ELSE text[j])
    <3>1. Line(text[j].text, "LF").text = text[j].text
      BY DEF Line
    <3>2. QED
      BY <1>1, <3>1
  <2>3. ASSUME NEW i \in 1..Len(s)
        PROVE  (IF s[i].kind = "line" THEN Line(s[i].text, "LF") ELSE s[i])
                 = (IF t[i].kind = "line" THEN Line(t[i].text, "LF") ELSE t[i])
    BY <1>2, <2>2
  <2>4. QED
    BY <2>1, <2>3 DEF ReadText
<1>3. CASE ~HasOneBlock(text)
  <2>1. Outside(text) = text /\ Outside(read) = read
    BY <1>3, ReadBlock DEF Outside, read
  <2>2. ReadText(read) = ReadText(text)
    BY <1>1, <1>2
  <2>3. QED
    BY <2>1, <2>2 DEF read
<1>4. CASE HasOneBlock(text)
  <2> DEFINE a == Position(text, START)
             b == Position(text, END)
  <2>1. BlockAt(text, a, b)
    BY <1>4, BlockPlace
  <2>2. HasOneBlock(read) /\ Position(read, START) = a /\ Position(read, END) = b
    <3>1. BlockAt(read, a, b)
      BY <2>1, ReadBlock DEF read
    <3>2. QED
      BY <1>1, <3>1, BlockPlace
  <2>3. Outside(text) = Cut(text, a, b) /\ Outside(read) = Cut(read, a, b)
    BY <1>4, <2>2 DEF Outside, Cut
  <2> HIDE DEF a, b
  <2>4. a \in 1..Len(text) /\ b \in 1..Len(text) /\ a < b
    BY <1>1, <2>1 DEF BlockAt, OnlyAt
  <2>5. a \in 1..(Len(text) + 1) /\ b \in (a - 1)..Len(text)
    BY <1>1, <2>4
  <2>6. /\ Cut(text, a, b) \in Seq(Item) /\ Len(Cut(text, a, b)) = Len(text) - (b - a + 1)
        /\ \A i \in 1..(Len(text) - (b - a + 1)) :
             Cut(text, a, b)[i] = IF i < a THEN text[i] ELSE text[i + (b - a + 1)]
    BY <2>5, CutText
  <2>7. /\ Cut(read, a, b) \in Seq(Item) /\ Len(Cut(read, a, b)) = Len(text) - (b - a + 1)
        /\ \A i \in 1..(Len(text) - (b - a + 1)) :
             Cut(read, a, b)[i] = IF i < a THEN read[i] ELSE read[i + (b - a + 1)]
    <3>1. a \in 1..(Len(read) + 1) /\ b \in (a - 1)..Len(read) /\ read \in Seq(Item) /\ Len(read) = Len(text)
      BY <1>1, <2>5
    <3>2. /\ Cut(read, a, b) \in Seq(Item) /\ Len(Cut(read, a, b)) = Len(read) - (b - a + 1)
          /\ \A i \in 1..(Len(read) - (b - a + 1)) :
               Cut(read, a, b)[i] = IF i < a THEN read[i] ELSE read[i + (b - a + 1)]
      BY <3>1, CutText
    <3>3. QED
      BY <3>1, <3>2
  <2>8. ASSUME NEW i \in 1..(Len(text) - (b - a + 1))
        PROVE  \E j \in 1..Len(text) : Cut(read, a, b)[i] = read[j] /\ Cut(text, a, b)[i] = text[j]
    <3>1. i \in 1..Len(text) /\ i + (b - a + 1) \in 1..Len(text)
      BY <1>1, <2>4
    <3>2. QED
      BY <2>6, <2>7, <3>1
  <2>9. ReadText(Cut(read, a, b)) = ReadText(Cut(text, a, b))
    <3>1. /\ Cut(read, a, b) \in Seq(Item) /\ Cut(text, a, b) \in Seq(Item)
          /\ Len(Cut(read, a, b)) = Len(Cut(text, a, b)) /\ Len(Cut(read, a, b)) = Len(text) - (b - a + 1)
      BY <2>6, <2>7
    <3>2. \A i \in 1..Len(Cut(read, a, b)) :
            \E j \in 1..Len(text) : Cut(read, a, b)[i] = read[j] /\ Cut(text, a, b)[i] = text[j]
      BY <2>8, <3>1
    <3>3. QED
      BY <1>2, <3>1, <3>2
  <2>10. QED
    BY <2>3, <2>9 DEF read
<1>5. QED
  BY <1>3, <1>4

-----------------------------------------------------------------------------
(* The invariant. *)

AttestTypeOK ==
  /\ stage \in Resting \cup Working
  /\ runs \in Nat /\ issued \in Nat /\ output \in Nat /\ answer \in Nat
  /\ readme \in Seq(Item) /\ current \in Seq(Item) /\ authored \in Seq(Item)
  /\ before.readme \in Seq(Item)

(* The stored credential is never ahead of the issuer, nor of the answer that
   is about to replace it. *)
CredentialsInOrder ==
  /\ output <= issued /\ answer <= issued
  /\ answer # 0 => output <= answer

(* What the run has read is as old as the credential that was stored then. *)
ReadBadgesAreOld ==
  \A i \in DOMAIN current : current[i].kind = "badge" =>
    current[i].of <= output /\ (answer # 0 => current[i].of < answer)

(* What a run knows at each of its steps. *)
RunInv ==
  /\ stage = "read" => answer = 0
  /\ stage \in {"update", "storeOutput", "storeReadme", "announce", "done"} => answer # 0
  /\ stage \in {"ask", "update", "storeOutput", "storeReadme"} => current = ReadText(readme)
  /\ stage \in {"storeOutput", "storeReadme", "announce", "done"} => TakesBadge(current)
  /\ stage \in {"read", "ask", "update", "storeOutput"} => output = before.output
  /\ stage \in {"read", "ask", "update", "storeOutput", "storeReadme"} => readme = before.readme
  /\ stage \in {"announce", "done"} =>
       TakesBadge(before.readme) /\ readme = update_readme(current, badge_block(answer))
  /\ stage \in {"storeReadme", "announce", "done"} => output = answer
  /\ stage = "done" => announced = Announced

AttestInv ==
  /\ AttestTypeOK /\ CredentialsInOrder /\ ReadBadgesAreOld /\ RunInv
  /\ BadgeIsBacked /\ AuthorsTextIsKept /\ UnusableRunChangesNothing

LEMMA WritesOrder ==
  /\ Head(Writes) = "storeOutput"
  /\ NextWrite("storeOutput") = "storeReadme" /\ NextWrite("storeReadme") = "announce"
  /\ Working = {"read", "ask", "update", "storeOutput", "storeReadme", "announce"}
<1>1. Writes[1] = "storeOutput" /\ Writes[2] = "storeReadme" /\ Writes[3] = "announce"
      /\ DOMAIN Writes = 1..3 /\ Head(Writes) = Writes[1]
  BY DEF Writes
<1>2. (CHOOSE i \in 1..2 : Writes[i] = "storeOutput") = 1 /\ (CHOOSE i \in 1..2 : Writes[i] = "storeReadme") = 2
  BY <1>1
<1>3. NextWrite("storeOutput") = "storeReadme" /\ NextWrite("storeReadme") = "announce"
  BY <1>1, <1>2 DEF NextWrite
<1>4. ToSet(Writes) = {"storeOutput", "storeReadme", "announce"}
  <2>1. ToSet(Writes) = {Writes[i] : i \in 1..3}
    BY <1>1 DEF ToSet
  <2>2. QED
    BY <1>1, <2>1
<1>5. QED
  BY <1>1, <1>3, <1>4 DEF Working

LEMMA AuthoredReadme ==
  ASSUME NEW text \in Readmes
  PROVE  text \in Seq(Item) /\ \A i \in DOMAIN text : text[i].kind = "badge" => text[i].of = 0
<1> DEFINE items == {START, END, Badge(0)} \cup Lines
<1>1. items \subseteq Item /\ \A item \in items : item.kind = "badge" => item.of = 0
  <2>1. Badge(0) \in Item /\ Badge(0).of = 0 /\ START \in Item /\ END \in Item /\ Lines \subseteq Item
    BY Items DEF Item
  <2>2. START.kind # "badge" /\ END.kind # "badge" /\ \A item \in Lines : item.kind # "badge"
    BY DEF START, END, Lines
  <2>3. QED
    BY <2>1, <2>2
<1>2. text \in Seq(items)
  BY ReadmesAssumption
<1>3. text \in Seq(Item)
  BY <1>1, <1>2, SeqMonotonic
<1>4. \A i \in DOMAIN text : text[i] \in items
  BY <1>2, ElementOfSeq, LenProperties
<1>5. QED
  BY <1>1, <1>3, <1>4

LEMMA AttestInitial == AttestInit => AttestInv
<1> SUFFICES ASSUME AttestInit PROVE AttestInv
  OBVIOUS
<1>1. readme \in Seq(Item) /\ \A i \in DOMAIN readme : readme[i].kind = "badge" => readme[i].of = 0
  BY AuthoredReadme DEF AttestInit
<1>2. current \in Seq(Item) /\ DOMAIN current = {}
  BY EmptySeq, LenProperties DEF AttestInit
<1>3. AttestTypeOK
  BY <1>1, <1>2 DEF AttestInit, AttestTypeOK, Resting
<1>4. CredentialsInOrder /\ ReadBadgesAreOld /\ RunInv
  BY <1>2 DEF AttestInit, CredentialsInOrder, ReadBadgesAreOld, RunInv
<1>5. BadgeIsBacked /\ AuthorsTextIsKept /\ UnusableRunChangesNothing
  BY <1>1 DEF AttestInit, BadgeIsBacked, AuthorsTextIsKept, UnusableRunChangesNothing
<1>6. QED
  BY <1>3, <1>4, <1>5 DEF AttestInv

-----------------------------------------------------------------------------
(* The steps that change no file. *)

LEMMA SameFiles ==
  ASSUME AttestInv, UNCHANGED <<readme, output, authored>>
  PROVE  BadgeIsBacked' /\ AuthorsTextIsKept'
BY DEF AttestInv, BadgeIsBacked, AuthorsTextIsKept

LEMMA BeginKeeps ==
  ASSUME AttestInv, Begin
  PROVE  AttestInv'
<1>1. AttestTypeOK /\ CredentialsInOrder
  BY DEF AttestInv
<1>2. /\ stage' = "read" /\ runs' = runs + 1 /\ answer' = 0 /\ current' = <<>>
      /\ before' = [readme |-> readme, output |-> output]
      /\ UNCHANGED <<readme, output, issued, authored>>
  BY DEF Begin, fileVars, issuerVars
<1>3. current' \in Seq(Item) /\ DOMAIN current' = {}
  BY <1>2, EmptySeq, LenProperties
<1>4. AttestTypeOK'
  BY <1>1, <1>2, <1>3, WritesOrder DEF AttestTypeOK
<1>5. CredentialsInOrder' /\ ReadBadgesAreOld' /\ RunInv'
  BY <1>1, <1>2, <1>3 DEF AttestTypeOK, CredentialsInOrder, ReadBadgesAreOld, RunInv
<1>6. UnusableRunChangesNothing'
  BY <1>2 DEF UnusableRunChangesNothing
<1>7. QED
  BY <1>2, <1>4, <1>5, <1>6, SameFiles DEF AttestInv

LEMMA ReadKeeps ==
  ASSUME AttestInv, ReadReadme
  PROVE  AttestInv'
<1>1. AttestTypeOK /\ CredentialsInOrder /\ RunInv /\ BadgeIsBacked
  BY DEF AttestInv
<1>2. /\ stage = "read" /\ stage' = "ask" /\ current' = ReadText(readme) /\ answer = 0
      /\ UNCHANGED <<readme, output, issued, runs, answer, listens, before, authored>>
  BY <1>1 DEF ReadReadme, fileVars, RunInv
<1>3. /\ current' \in Seq(Item) /\ DOMAIN current' = DOMAIN readme
      /\ \A i \in DOMAIN readme :
           current'[i].kind = readme[i].kind /\ (readme[i].kind = "badge" => current'[i] = readme[i])
  BY <1>1, <1>2, ReadItems DEF AttestTypeOK
<1>4. AttestTypeOK'
  BY <1>1, <1>2, <1>3, WritesOrder DEF AttestTypeOK
<1>5. ReadBadgesAreOld'
  BY <1>1, <1>2, <1>3 DEF ReadBadgesAreOld, BadgeIsBacked
<1>6. CredentialsInOrder' /\ RunInv' /\ UnusableRunChangesNothing'
  BY <1>1, <1>2 DEF CredentialsInOrder, RunInv, UnusableRunChangesNothing
<1>7. QED
  BY <1>2, <1>4, <1>5, <1>6, SameFiles DEF AttestInv

LEMMA GrantKeeps ==
  ASSUME AttestInv, NEW run, Grant(run)
  PROVE  AttestInv'
<1>1. AttestTypeOK /\ CredentialsInOrder /\ RunInv /\ ReadBadgesAreOld /\ UnusableRunChangesNothing
  BY DEF AttestInv
<1>2. /\ issued' = issued + 1
      /\ answer' = answer \/ (stage = "ask" /\ answer' = issued + 1)
      /\ UNCHANGED <<stage, readme, output, runs, current, announced, listens, before, authored>>
  BY DEF Grant, fileVars
<1>3. issued \in Nat /\ output \in Nat /\ answer \in Nat /\ answer' \in Nat
  BY <1>1, <1>2 DEF AttestTypeOK
<1>4. AttestTypeOK'
  BY <1>1, <1>2, <1>3 DEF AttestTypeOK
<1>5. CredentialsInOrder'
  BY <1>1, <1>2, <1>3 DEF CredentialsInOrder
<1>6. ReadBadgesAreOld'
  <2>1. ASSUME NEW i \in DOMAIN current, current[i].kind = "badge"
        PROVE  current[i].of \in Nat
    BY <1>1, <2>1, Items, ElementOfSeq, LenProperties DEF AttestTypeOK
  <2>2. QED
    BY <1>1, <1>2, <1>3, <2>1 DEF ReadBadgesAreOld, CredentialsInOrder
<1>7. RunInv'
  BY <1>1, <1>2, <1>3 DEF RunInv, Announced
<1>8. UnusableRunChangesNothing'
  BY <1>1, <1>2 DEF UnusableRunChangesNothing, RunInv
<1>9. QED
  BY <1>2, <1>4, <1>5, <1>6, <1>7, <1>8, SameFiles DEF AttestInv

(* TakeAnswer, Update, WriteTemporary, Announce, Raise and Stop move the run
   on, or end it, and leave the rest. *)
LEMMA MoveKeeps ==
  ASSUME AttestInv, UNCHANGED <<readme, output, issued, runs, current, answer, listens, before, authored>>,
         \/ stage' \in {"failed", "stopped"} /\ stage \in Working
         \/ stage = "ask" /\ stage' = "update" /\ answer # 0
         \/ stage = "update" /\ stage' = "storeOutput" /\ TakesBadge(current)
         \/ stage' = stage /\ announced' = announced
         \/ stage = "announce" /\ stage' = "done" /\ announced' = Announced
  PROVE  AttestInv'
<1>1. AttestTypeOK /\ CredentialsInOrder /\ RunInv /\ ReadBadgesAreOld /\ UnusableRunChangesNothing
  BY DEF AttestInv
<1>2. AttestTypeOK'
  BY <1>1, WritesOrder DEF AttestTypeOK, Resting
<1>3. CredentialsInOrder' /\ ReadBadgesAreOld'
  BY <1>1 DEF CredentialsInOrder, ReadBadgesAreOld
<1>4. RunInv'
  BY <1>1 DEF RunInv, Announced
<1>5. stage' # "off" => stage # "off"
  BY WritesOrder
<1>6. UnusableRunChangesNothing'
  BY <1>1, <1>5 DEF UnusableRunChangesNothing
<1>7. QED
  BY <1>2, <1>3, <1>4, <1>6, SameFiles DEF AttestInv

-----------------------------------------------------------------------------
(* The steps that do. *)

LEMMA EditKeeps ==
  ASSUME AttestInv, NEW text \in Readmes, Edit(text)
  PROVE  AttestInv'
<1>1. AttestTypeOK /\ CredentialsInOrder /\ ReadBadgesAreOld
  BY DEF AttestInv
<1>2. /\ stage' = "off" /\ readme' = text /\ authored' = text
      /\ UNCHANGED <<output, issued, runs, current, answer, announced, listens, before>>
  BY DEF Edit, issuerVars, runVars
<1>3. text \in Seq(Item) /\ \A i \in DOMAIN text : text[i].kind = "badge" => text[i].of = 0
  BY AuthoredReadme
<1>4. AttestTypeOK'
  BY <1>1, <1>2, <1>3 DEF AttestTypeOK, Resting
<1>5. CredentialsInOrder' /\ ReadBadgesAreOld' /\ RunInv' /\ UnusableRunChangesNothing'
  BY <1>1, <1>2 DEF CredentialsInOrder, ReadBadgesAreOld, RunInv, UnusableRunChangesNothing
<1>6. BadgeIsBacked'
  BY <1>1, <1>2, <1>3 DEF BadgeIsBacked, AttestTypeOK
<1>7. AuthorsTextIsKept'
  BY <1>2 DEF AuthorsTextIsKept
<1>8. QED
  BY <1>4, <1>5, <1>6, <1>7 DEF AttestInv

LEMMA OutputStored ==
  ASSUME AttestInv, Replace, stage = "storeOutput"
  PROVE  AttestInv'
<1>1. AttestTypeOK /\ CredentialsInOrder /\ RunInv /\ ReadBadgesAreOld /\ BadgeIsBacked /\ AuthorsTextIsKept
  BY DEF AttestInv
<1>2. /\ stage' = "storeReadme" /\ output' = answer
      /\ UNCHANGED <<readme, issued, runs, current, answer, announced, listens, before, authored>>
  BY WritesOrder DEF Replace, issuerVars, runVars
<1>3. answer # 0 /\ output <= answer /\ answer \in Nat /\ output \in Nat /\ TakesBadge(current)
      /\ current = ReadText(readme) /\ readme = before.readme
  BY <1>1 DEF RunInv, CredentialsInOrder, AttestTypeOK
<1>4. AttestTypeOK'
  BY <1>1, <1>2, WritesOrder DEF AttestTypeOK
<1>5. CredentialsInOrder'
  BY <1>1, <1>2, <1>3 DEF CredentialsInOrder
<1>6. ASSUME NEW text \in Seq(Item), NEW i \in DOMAIN text, text[i].kind = "badge"
      PROVE  text[i].of \in Nat
  BY <1>6, Items, ElementOfSeq, LenProperties
<1>7. ReadBadgesAreOld'
  BY <1>1, <1>2, <1>3, <1>6 DEF ReadBadgesAreOld, AttestTypeOK
<1>8. BadgeIsBacked'
  BY <1>1, <1>2, <1>3, <1>6 DEF BadgeIsBacked, AttestTypeOK
<1>9. RunInv'
  BY <1>2, <1>3 DEF RunInv
<1>10. TakesBadge(before.readme)
  BY <1>1, <1>3, ReadBlock DEF AttestTypeOK
<1>11. UnusableRunChangesNothing'
  BY <1>2, <1>3, <1>10 DEF UnusableRunChangesNothing
<1>12. AuthorsTextIsKept'
  BY <1>1, <1>2 DEF AuthorsTextIsKept
<1>13. QED
  BY <1>4, <1>5, <1>7, <1>8, <1>9, <1>11, <1>12 DEF AttestInv

LEMMA ReadmeStored ==
  ASSUME AttestInv, Replace, stage = "storeReadme"
  PROVE  AttestInv'
<1>1. AttestTypeOK /\ CredentialsInOrder /\ RunInv /\ ReadBadgesAreOld /\ BadgeIsBacked /\ AuthorsTextIsKept
  BY DEF AttestInv
<1>2. /\ stage' = "announce" /\ readme' = update_readme(current, badge_block(answer))
      /\ UNCHANGED <<output, issued, runs, current, answer, announced, listens, before, authored>>
  BY WritesOrder DEF Replace, issuerVars, runVars
<1>3. answer # 0 /\ output = answer /\ answer \in Nat /\ TakesBadge(current)
      /\ current = ReadText(readme) /\ readme = before.readme /\ current \in Seq(Item) /\ readme \in Seq(Item)
  BY <1>1 DEF RunInv, AttestTypeOK
<1>4. /\ readme' \in Seq(Item) /\ Outside(readme') = Outside(current)
      /\ readme'[Position(readme', START) + 1] = Badge(answer)
      /\ \A i \in DOMAIN readme' : i = Position(readme', START) + 1 \/ readme'[i] \in {START, END}
                                   \/ \E j \in DOMAIN current : readme'[i] = current[j]
  BY <1>2, <1>3, UpdatedReadme
<1>5. AttestTypeOK'
  BY <1>1, <1>2, <1>4, WritesOrder DEF AttestTypeOK
<1>6. CredentialsInOrder' /\ ReadBadgesAreOld'
  BY <1>1, <1>2 DEF CredentialsInOrder, ReadBadgesAreOld
<1>7. TakesBadge(before.readme)
  BY <1>3, ReadBlock
<1>8. RunInv'
  BY <1>2, <1>3, <1>7 DEF RunInv
<1>9. BadgeIsBacked'
  <2>1. ASSUME NEW i \in DOMAIN readme', readme'[i].kind = "badge"
        PROVE  readme'[i].of <= output
    <3>1. CASE readme'[i] = Badge(answer)
      BY <1>3, <3>1, Items
    <3>2. CASE \E j \in DOMAIN current : readme'[i] = current[j]
      BY <1>1, <2>1, <3>2 DEF ReadBadgesAreOld
    <3>3. CASE readme'[i] \in {START, END}
      BY <2>1, <3>3, Items
    <3>4. QED
      BY <1>4, <3>1, <3>2, <3>3
  <2>2. QED
    BY <1>2, <2>1 DEF BadgeIsBacked
<1>10. AuthorsTextIsKept'
  <2>1. ReadText(Outside(readme')) = ReadText(Outside(readme))
    BY <1>3, <1>4, ReadOutside
  <2>2. ReadText(Outside(readme)) = ReadText(Outside(authored))
    BY <1>1 DEF AuthorsTextIsKept
  <2>3. QED
    BY <1>2, <2>1, <2>2 DEF AuthorsTextIsKept
<1>11. UnusableRunChangesNothing'
  BY <1>2, <1>3, <1>7 DEF UnusableRunChangesNothing
<1>12. QED
  BY <1>5, <1>6, <1>8, <1>9, <1>10, <1>11 DEF AttestInv

LEMMA AttestInductive == AttestInv /\ [AttestNext]_attestVars => AttestInv'
<1> SUFFICES ASSUME AttestInv, [AttestNext]_attestVars PROVE AttestInv'
  OBVIOUS
<1>1. CASE TakeAnswer \/ Update
  BY <1>1, MoveKeeps, WritesOrder DEF TakeAnswer, Update, fileVars, issuerVars, runVars
<1>2. CASE WriteTemporary
  BY <1>2, MoveKeeps DEF WriteTemporary, issuerVars, runVars
<1>3. CASE Announce
  BY <1>3, MoveKeeps DEF Announce, fileVars, issuerVars
<1>4. CASE Raise \/ Stop
  BY <1>4, MoveKeeps DEF Raise, Stop, issuerVars, runVars
<1>5. CASE UNCHANGED attestVars
  BY <1>5, MoveKeeps DEF attestVars, fileVars, issuerVars, runVars
<1>6. CASE Replace
  BY <1>6, OutputStored, ReadmeStored DEF Replace
<1>7. QED
  BY <1>1, <1>2, <1>3, <1>4, <1>5, <1>6, BeginKeeps, ReadKeeps, GrantKeeps, EditKeeps DEF AttestNext

LEMMA AttestInvariant == AttestSpec => []AttestInv
BY AttestInitial, AttestInductive, PTL DEF AttestSpec

-----------------------------------------------------------------------------
(* A badge never links to a credential newer than the stored one, whatever
   interrupted the runs (run). *)
THEOREM BadgesAreBacked == AttestSpec => []BadgeIsBacked
<1>1. AttestInv => BadgeIsBacked
  BY DEF AttestInv
<1>2. QED
  BY <1>1, AttestInvariant, PTL

(* After any number of runs the author's text is what it was outside the
   block, up to line endings (update_readme, read_text). *)
THEOREM TextIsKept == AttestSpec => []AuthorsTextIsKept
<1>1. AttestInv => AuthorsTextIsKept
  BY DEF AttestInv
<1>2. QED
  BY <1>1, AttestInvariant, PTL

(* A run without a usable answer, or with a README that takes no badge, leaves
   both files alone (run). *)
THEOREM UnusableIsHarmless == AttestSpec => []UnusableRunChangesNothing
<1>1. AttestInv => UnusableRunChangesNothing
  BY DEF AttestInv
<1>2. QED
  BY <1>1, AttestInvariant, PTL

(* A run that succeeds leaves one block, whose badge is of the credential that
   is stored and, if it can be, announced, whatever earlier runs left behind (run). *)
THEOREM SuccessIsConsistent == AttestSpec => []SuccessAgrees
<1>1. ASSUME AttestInv, stage = "done"
      PROVE  /\ answer # 0 /\ output = answer /\ announced = Announced
             /\ HasOneBlock(readme) /\ readme[Position(readme, START) + 1] = Badge(answer)
             /\ Occurrences(readme, Badge(answer)) = 1
  <2> DEFINE p == Position(readme, START) + 1
  <2>1. /\ answer # 0 /\ output = answer /\ announced = Announced /\ TakesBadge(current)
        /\ readme = update_readme(current, badge_block(answer)) /\ answer \in Nat /\ current \in Seq(Item)
    BY <1>1 DEF AttestInv, RunInv, AttestTypeOK
  <2>2. /\ readme \in Seq(Item) /\ HasOneBlock(readme) /\ readme[p] = Badge(answer) /\ p \in DOMAIN readme
        /\ \A i \in DOMAIN readme : i = p \/ readme[i] \in {START, END} \/ \E j \in DOMAIN current : readme[i] = current[j]
    BY <2>1, UpdatedReadme
  <2> HIDE DEF p
  <2>3. ASSUME NEW j \in DOMAIN current PROVE current[j] # Badge(answer)
    BY <1>1, <2>1, Items DEF AttestInv, ReadBadgesAreOld
  <2>4. Badge(answer) \notin {START, END}
    BY <2>1, Items
  <2>5. OnlyAt(readme, Badge(answer), p)
    BY <2>2, <2>3, <2>4 DEF OnlyAt
  <2>6. Occurrences(readme, Badge(answer)) = 1
    BY <2>2, <2>5, OccurrencesCount
  <2>7. QED
    BY <2>1, <2>2, <2>6 DEF p
<1>2. AttestInv => SuccessAgrees
  BY <1>1 DEF SuccessAgrees
<1>3. QED
  BY <1>2, AttestInvariant, PTL

-----------------------------------------------------------------------------
(* Nothing goes back. *)

BadgesIn(text) == {text[i] : i \in {j \in DOMAIN text : text[j].kind = "badge"}}

(* A run stores no older credential, and adds no badge that is not newer than
   all it finds; only the author (Edit) may put an old one there. *)
Newer ==
  /\ output <= output'
  /\ stage' # "off" =>
       \A old \in BadgesIn(readme), new \in BadgesIn(readme') : new \in BadgesIn(readme) \/ old.of < new.of
(* No step of a run or of the issuer takes the stored credential or the badge
   back to an older one. *)
OnlyNewer == [][Newer]_attestVars

LEMMA BadgesOf ==
  ASSUME NEW text, NEW item
  PROVE  item \in BadgesIn(text) <=> \E i \in DOMAIN text : item = text[i] /\ item.kind = "badge"
BY DEF BadgesIn

LEMMA StoredIsNewer ==
  ASSUME AttestInv, Replace, stage = "storeReadme",
         NEW old \in BadgesIn(readme), NEW new \in BadgesIn(readme'), new \notin BadgesIn(readme)
  PROVE  old.of < new.of
<1>1. /\ current \in Seq(Item) /\ readme \in Seq(Item) /\ answer \in Nat /\ answer # 0
      /\ TakesBadge(current) /\ current = ReadText(readme)
      /\ readme' = update_readme(current, badge_block(answer))
  BY DEF AttestInv, AttestTypeOK, RunInv, Replace
<1>2. \A i \in DOMAIN readme : readme[i].kind = "badge" =>
        i \in DOMAIN current /\ current[i] = readme[i]
  BY <1>1, ReadItems
<1>3. \A j \in DOMAIN current : current[j].kind = "badge" => current[j] \in BadgesIn(readme)
  BY <1>1, ReadItems, BadgesOf
<1>4. PICK i \in DOMAIN readme' : new = readme'[i] /\ new.kind = "badge"
  BY BadgesOf
<1>5. \/ readme'[i] = Badge(answer) \/ readme'[i] \in {START, END}
      \/ \E j \in DOMAIN current : readme'[i] = current[j]
  <2>1. /\ readme'[Position(readme', START) + 1] = Badge(answer)
        /\ \A k \in DOMAIN readme' : k = Position(readme', START) + 1 \/ readme'[k] \in {START, END}
                                     \/ \E j \in DOMAIN current : readme'[k] = current[j]
    BY <1>1, UpdatedReadme
  <2>2. QED
    BY <2>1
<1>6. new = Badge(answer)
  <2>1. new \notin {START, END}
    BY <1>4, Items
  <2>2. \A j \in DOMAIN current : new # current[j]
    BY <1>3, <1>4
  <2>3. QED
    BY <1>4, <1>5, <2>1, <2>2
<1>7. PICK k \in DOMAIN readme : old = readme[k] /\ old.kind = "badge"
  BY BadgesOf
<1>8. old.of < answer
  BY <1>1, <1>2, <1>7 DEF AttestInv, ReadBadgesAreOld
<1>9. QED
  BY <1>1, <1>6, <1>8, Items

LEMMA StepIsNewer ==
  ASSUME AttestInv, [AttestNext]_attestVars
  PROVE  Newer
<1>1. output \in Nat
  BY DEF AttestInv, AttestTypeOK
<1>2. ASSUME readme' = readme, output' = output PROVE Newer
  BY <1>1, <1>2 DEF Newer
<1>3. CASE Replace /\ stage = "storeOutput"
  <2>1. readme' = readme /\ output' = answer /\ answer # 0
    BY <1>3 DEF Replace, AttestInv, RunInv
  <2>2. QED
    BY <2>1 DEF Newer, AttestInv, CredentialsInOrder
<1>4. CASE Replace /\ stage = "storeReadme"
  <2>1. output' = output
    BY <1>4 DEF Replace
  <2>2. QED
    BY <1>1, <1>4, <2>1, StoredIsNewer DEF Newer
<1>5. ASSUME NEW text \in Readmes, Edit(text) PROVE Newer
  BY <1>1, <1>5 DEF Edit, Newer
<1>6. ASSUME NEW run \in 1..MaxRuns, Grant(run) PROVE Newer
  BY <1>2, <1>6 DEF Grant, fileVars
<1>7. CASE Begin \/ ReadReadme \/ TakeAnswer \/ Update \/ WriteTemporary \/ Announce \/ Raise \/ Stop
           \/ UNCHANGED attestVars
  BY <1>2, <1>7 DEF Begin, ReadReadme, TakeAnswer, Update, WriteTemporary, Announce, Raise, Stop,
                    attestVars, fileVars
<1>8. QED
  BY <1>3, <1>4, <1>5, <1>6, <1>7 DEF AttestNext, Replace

(* The stored credential and the badges of the action only ever get newer, in
   whatever order late requests are granted and wherever runs are stopped
   (run). *)
THEOREM NothingGoesBack == AttestSpec => OnlyNewer
<1>1. AttestInv /\ [AttestNext]_attestVars => [Newer]_attestVars
  BY StepIsNewer
<1>2. QED
  BY <1>1, AttestInvariant, PTL DEF AttestSpec, OnlyNewer
=============================================================================
