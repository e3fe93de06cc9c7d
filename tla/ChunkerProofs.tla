--------------------------- MODULE ChunkerProofs ---------------------------
(***************************************************************************)
(* The chunker for every target, every overlap below it and every text:    *)
(* nothing is lost, the chunks fit and are in reading order, and every     *)
(* window gets on.                                                         *)
(***************************************************************************)
EXTENDS Chunker, WellFoundedInduction, TLAPS

Chunks == [page : DOMAIN doc, text : SUBSET Nat]

(* The pages done, the page being cut and the pages to come lie in this    *)
(* order, and the text of the page being cut ends at stop.                 *)
PagesInOrder ==
  /\ doc \in Documents
  /\ page # NoPage => /\ page \notin todo
                      /\ \A m \in todo : page < m
                      /\ \A i \in Ink(page) : i < stop
  /\ \A j \in 1..Len(chunks) :
       /\ \A m \in todo : chunks[j].page < m
       /\ page # NoPage => chunks[j].page <= page
       /\ chunks[j].page \notin todo

(* What the next window may share with the last chunk: positions before    *)
(* start + Overlap only, and no ink that comes before the chunk's own.     *)
LastChunk ==
  \A c \in {chunks[j] : j \in 1..Len(chunks)} :
    c = chunks[Len(chunks)] /\ page # NoPage /\ c.page = page =>
      /\ \A k \in c.text : k < start + Overlap
      /\ \A i \in Ink(page) : i >= start => \E j \in c.text : j <= i

IInv == ChunkerTypeOK /\ PagesInOrder /\ NothingIsLost /\ ChunksFit /\ ReadingOrder /\ LastChunk

----------------------------------------------------------------------------

LEMMA LeastNumber ==
  ASSUME NEW T, T \subseteq Nat, T # {}
  PROVE  \E x \in T : \A y \in T : x <= y
<1>1. PICK x \in T : \A y \in T : ~ (<<y, x>> \in OpToRel(<, Nat))
  BY NatLessThanWellFounded, WFMin
<1>2. \A y \in T : ~ (y < x)
  BY <1>1 DEF OpToRel
<1> QED BY <1>2

LEMMA Greatest ==
  ASSUME NEW T, T \subseteq Nat, T # {}, NEW m \in Nat, \A y \in T : y <= m
  PROVE  \E x \in T : \A y \in T : y <= x
<1> DEFINE D == {m - y : y \in T}
<1>1. D \subseteq Nat /\ D # {}
  <2>1. \A y \in T : m - y \in Nat
    OBVIOUS
  <2>2. PICK y \in T : TRUE
    OBVIOUS
  <2>3. m - y \in D
    BY <2>2
  <2> QED BY <2>1, <2>3
<1>2. PICK d \in D : \A e \in D : d <= e
  <2> HIDE DEF D
  <2> QED BY <1>1, LeastNumber
<1>3. PICK x \in T : d = m - x
  OBVIOUS
<1>4. \A y \in T : m - x <= m - y
  BY <1>2, <1>3
<1> QED BY <1>4

LEMMA DocFacts ==
  ASSUME doc \in Documents, NEW n \in DOMAIN doc
  PROVE  n \in Nat /\ n # NoPage /\ doc[n] \in Seq(Char) /\ Len(doc[n]) \in Nat /\ Ink(n) \subseteq Nat
BY DocumentsAssumption DEF NoPage, Ink

LEMMA ChunkTypes ==
  ASSUME ChunkerTypeOK, NEW j \in 1..Len(chunks)
  PROVE  chunks[j] \in Chunks /\ chunks[j].page \in DOMAIN doc /\ chunks[j].text \subseteq Nat
<1>1. chunks \in Seq(Chunks)
  BY DEF ChunkerTypeOK, Chunks
<1>2. chunks[j] \in Chunks
  BY <1>1
<1> QED BY <1>2 DEF Chunks

LEMMA AppendFacts ==
  ASSUME NEW S, NEW s \in Seq(S), NEW e \in S
  PROVE  /\ Append(s, e) \in Seq(S)
         /\ Len(Append(s, e)) = Len(s) + 1
         /\ \A j \in 1..Len(s) : Append(s, e)[j] = s[j]
         /\ Append(s, e)[Len(s) + 1] = e
OBVIOUS

(* A window has at least one character, at most Target, and one that does  *)
(* not end its page is longer than the overlap and than half of Target.    *)
LEMMA WindowFacts ==
  ASSUME ChunkerTypeOK, page # NoPage, NEW end \in (start + 1)..stop, WindowEnd(page, start, end)
  PROVE  /\ end \in Nat /\ start < end /\ end <= stop /\ end <= start + Target
         /\ end < stop => /\ end - Overlap > start
                          /\ end - start >= Target \div 2
                          /\ NextStart(start, end) = end - Overlap
<1>1. start \in Nat /\ stop \in Nat /\ Target \in Nat /\ Overlap \in Nat /\ Overlap < Target /\ Target >= 1
  BY ChunkingConfig DEF ChunkerTypeOK
<1>2. Target \div 2 \in Nat /\ Target \div 2 <= Target
  BY <1>1
<1>3. CASE start + Target >= stop /\ end = stop
  BY <1>1, <1>3
<1>4. CASE start + Target < stop /\ end \in WordBreaks(page, start)
  <2>1. PICK c \in 0..(Target - 1) : end = start + c /\ c >= Target \div 2 /\ c > Overlap
    BY <1>4 DEF WordBreaks
  <2> QED BY <2>1, <1>1, <1>2, <1>4 DEF NextStart
<1>5. CASE start + Target < stop /\ end = start + Target
  BY <1>1, <1>2, <1>5 DEF NextStart
<1> QED BY <1>3, <1>4, <1>5 DEF WindowEnd

(* What str.strip keeps: every inked character, and nothing outside of the *)
(* first and the last.                                                     *)
LEMMA StripFacts ==
  ASSUME doc \in Documents, NEW n \in DOMAIN doc, NEW i \in Nat, NEW j \in Nat
  PROVE  /\ Strip(n, i, j) \subseteq Nat
         /\ \A k \in Strip(n, i, j) : i <= k /\ k < j
         /\ \A k \in Ink(n) : i <= k /\ k < j => k \in Strip(n, i, j)
         /\ Strip(n, i, j) # {} => \E a, b \in Ink(n) : /\ Strip(n, i, j) = a..b
                                                        /\ a <= b /\ i <= a /\ b < j
<1>1. Ink(n) \subseteq Nat
  BY DocFacts
<1>2. /\ Strip(n, i, j) \subseteq Nat
      /\ \A k \in Strip(n, i, j) : i <= k /\ k < j
      /\ \A k \in Ink(n) : i <= k /\ k < j => k \in Strip(n, i, j)
  BY <1>1 DEF Strip
<1>3. ASSUME Strip(n, i, j) # {}
      PROVE  \E a, b \in Ink(n) : Strip(n, i, j) = a..b /\ a <= b /\ i <= a /\ b < j
  <2> DEFINE I == {k \in Ink(n) : i <= k /\ k < j}
  <2>1. I # {} /\ I \subseteq i..(j - 1) /\ I \subseteq Nat
    BY <1>1, <1>3 DEF Strip
  <2>2. PICK a \in I : \A k \in I : a <= k
    <3> HIDE DEF I
    <3> QED BY <2>1, LeastNumber
  <2>3. PICK b \in I : \A k \in I : k <= b
    <3>1. \A k \in I : k <= j
      BY <2>1
    <3> HIDE DEF I
    <3> QED BY <2>1, <3>1, Greatest
  <2>4. \A k : k \in Strip(n, i, j) <=> k \in a..b
    BY <1>1, <2>1, <2>2, <2>3 DEF Strip
  <2> QED BY <2>1, <2>2, <2>3, <2>4
<1> QED BY <1>2, <1>3

----------------------------------------------------------------------------

LEMMA InitIInv == ChunkerInit => IInv
BY DEF ChunkerInit, IInv, ChunkerTypeOK, PagesInOrder, NothingIsLost, ChunksFit, ReadingOrder, LastChunk, NoPage

LEMMA OpenPageIInv == IInv /\ OpenPage => IInv'
<1> SUFFICES ASSUME IInv, OpenPage PROVE IInv'
  OBVIOUS
<1> USE DEF IInv
<1>1. PICK n \in todo : /\ IsNext(n)
                        /\ todo' = todo \ {n}
                        /\ \/ Ink(n) = {} /\ UNCHANGED <<page, start, stop>>
                           \/ \E first, last \in Ink(n) :
                                /\ \A i \in Ink(n) : first <= i /\ i <= last
                                /\ page' = n /\ start' = first /\ stop' = last + 1
  BY DEF OpenPage
<1>2. page = NoPage /\ UNCHANGED <<doc, chunks>> /\ doc \in Documents
  BY DEF OpenPage, PagesInOrder
<1>3. n \in DOMAIN doc /\ DOMAIN doc \subseteq Nat \ {0}
  BY <1>2, DocumentsAssumption DEF ChunkerTypeOK
<1>4. Ink(n) \subseteq 1..Len(doc[n]) /\ Len(doc[n]) \in Nat
  BY <1>2, <1>3, DocFacts DEF Ink
<1>5. \A m : Ink(m)' = Ink(m) /\ Chunked(m)' = Chunked(m)
  BY <1>2 DEF Ink, Chunked
<1>6. ChunkerTypeOK'
  BY <1>1, <1>2, <1>3, <1>4 DEF ChunkerTypeOK, NoPage
<1>7. PagesInOrder'
  <2>1. \A j \in 1..Len(chunks) : chunks[j].page < n
    BY DEF PagesInOrder
  <2>2. \A m \in todo' : n < m
    BY <1>1, <1>3 DEF IsNext, ChunkerTypeOK
  <2>3. \A j \in 1..Len(chunks) : /\ \A m \in todo' : chunks[j].page < m
                                  /\ chunks[j].page \notin todo'
    BY <1>1 DEF PagesInOrder
  <2>4. CASE page' = n
    <3>1. \A i \in Ink(n) : i < stop'
      BY <1>1, <1>2, <1>3, <1>4, <2>4 DEF NoPage
    <3>2. \A j \in 1..Len(chunks) : chunks[j].page \in Nat
      BY <1>3, ChunkTypes
    <3> QED BY <1>1, <1>2, <1>3, <1>5, <2>1, <2>2, <2>3, <2>4, <3>1, <3>2 DEF PagesInOrder
  <2>5. CASE page' = NoPage
    BY <1>2, <2>3, <2>5 DEF PagesInOrder
  <2> QED BY <1>1, <1>2, <2>4, <2>5
<1>8. NothingIsLost'
  <2>1. SUFFICES ASSUME NEW m \in DOMAIN doc \ todo', NEW i \in Ink(m), m = page' => i < start'
                 PROVE  i \in Chunked(m)
    BY <1>2, <1>5 DEF NothingIsLost
  <2>2. m # n
    BY <1>1, <1>2, <1>3, <1>4, <2>1 DEF NoPage
  <2> QED BY <1>1, <1>2, <1>3, <2>1, <2>2 DEF NothingIsLost, NoPage
<1>9. ChunksFit' /\ ReadingOrder'
  <2>1. ChunksFit'
    BY <1>2 DEF ChunksFit, Ink
  <2>2. ReadingOrder'
    BY <1>2 DEF ReadingOrder
  <2> QED BY <2>1, <2>2
<1>10. LastChunk'
  BY <1>1, <1>2, <1>3 DEF LastChunk, PagesInOrder, NoPage
<1> QED BY <1>6, <1>7, <1>8, <1>9, <1>10

LEMMA CutWindowIInv == IInv /\ CutWindow => IInv'
<1> SUFFICES ASSUME IInv, CutWindow PROVE IInv'
  OBVIOUS
<1> USE DEF IInv
<1>1. PICK end \in (start + 1)..stop :
        /\ WindowEnd(page, start, end)
        /\ KeepPiece(page, Strip(page, start, end))
        /\ IF end >= stop
           THEN page' = NoPage /\ start' = 0 /\ stop' = 0
           ELSE start' = NextStart(start, end) /\ UNCHANGED <<page, stop>>
  BY DEF CutWindow
<1> DEFINE piece == Strip(page, start, end)
           new == [page |-> page, text |-> piece]
<1>2. page # NoPage /\ UNCHANGED <<doc, todo>> /\ doc \in Documents /\ page \notin todo
  BY DEF CutWindow, PagesInOrder
<1>3. /\ page \in DOMAIN doc /\ DOMAIN doc \subseteq Nat \ {0}
      /\ start \in Nat /\ stop \in Nat /\ 1 <= start /\ start < stop
      /\ Overlap \in Nat /\ Target \in Nat
  BY <1>2, DocumentsAssumption, ChunkingConfig DEF ChunkerTypeOK
<1>4. /\ end \in Nat /\ start < end /\ end <= stop /\ end <= start + Target
      /\ end < stop => end - Overlap > start /\ NextStart(start, end) = end - Overlap
  BY <1>1, <1>2, WindowFacts
<1>5. \/ end = stop /\ page' = NoPage /\ start' = 0 /\ stop' = 0
      \/ end < stop /\ start' = end - Overlap /\ start < start' /\ page' = page /\ stop' = stop
  BY <1>1, <1>3, <1>4
<1>6. /\ piece \subseteq Nat
      /\ \A k \in piece : start <= k /\ k < end
      /\ \A k \in Ink(page) : start <= k /\ k < end => k \in piece
      /\ piece # {} => \E a, b \in Ink(page) : piece = a..b /\ a <= b /\ start <= a /\ b < end
  BY <1>2, <1>3, <1>4, StripFacts
<1>7. \A m \in DOMAIN doc : Ink(m)' = Ink(m) /\ Ink(m) \subseteq Nat
  BY <1>2, DocFacts DEF Ink
<1> HIDE DEF piece
<1>8. new \in Chunks /\ chunks \in Seq(Chunks) /\ new.page = page /\ new.text = piece
  BY <1>3, <1>6 DEF Chunks, ChunkerTypeOK
<1>9. \/ piece = {} /\ chunks' = chunks
      \/ /\ piece # {}
         /\ chunks' \in Seq(Chunks)
         /\ Len(chunks') = Len(chunks) + 1
         /\ \A j \in 1..Len(chunks) : chunks'[j] = chunks[j]
         /\ chunks'[Len(chunks')] = new
  <2>1. CASE piece = {}
    BY <1>1, <2>1 DEF KeepPiece, piece
  <2>2. CASE piece # {}
    <3>1. chunks' = Append(chunks, new)
      BY <1>1, <2>2 DEF KeepPiece, piece
    <3> HIDE DEF new
    <3> QED BY <1>8, <2>2, <3>1, AppendFacts
  <2> QED BY <2>1, <2>2
<1>10. Len(chunks) \in Nat /\ Len(chunks') \in Nat
  BY <1>8, <1>9
<1> HIDE DEF new
<1>11. \A j \in 1..Len(chunks') : \/ j \in 1..Len(chunks) /\ chunks'[j] = chunks[j]
                                  \/ piece # {} /\ j = Len(chunks') /\ chunks'[j] = new
  BY <1>9, <1>10
<1>12. \A j \in 1..Len(chunks) : j \in 1..Len(chunks') /\ chunks'[j] = chunks[j]
  BY <1>9, <1>10
<1>13. ChunkerTypeOK'
  <2>1. page' \in DOMAIN doc \cup {NoPage} /\ start' \in Nat /\ stop' \in Nat
    BY <1>3, <1>4, <1>5
  <2>2. page' # NoPage => 1 <= start' /\ start' < stop' /\ stop' <= Len(doc[page']) + 1
    BY <1>3, <1>4, <1>5 DEF ChunkerTypeOK, NoPage
  <2>3. chunks' \in Seq([page : DOMAIN doc, text : SUBSET Nat])
    BY <1>8, <1>9 DEF Chunks
  <2> QED BY <1>2, <2>1, <2>2, <2>3 DEF ChunkerTypeOK
<1>14. PagesInOrder'
  <2>1. page' # NoPage => /\ page' \notin todo
                          /\ \A m \in todo : page' < m
                          /\ \A i \in Ink(page') : i < stop'
    BY <1>5 DEF PagesInOrder
  <2>2. ASSUME NEW j \in 1..Len(chunks')
        PROVE  /\ \A m \in todo : chunks'[j].page < m
               /\ page' # NoPage => chunks'[j].page <= page'
               /\ chunks'[j].page \notin todo
    <3>1. CASE j \in 1..Len(chunks) /\ chunks'[j] = chunks[j]
      BY <1>2, <1>5, <3>1 DEF PagesInOrder
    <3>2. CASE chunks'[j] = new
      BY <1>2, <1>3, <1>5, <1>8, <3>2 DEF PagesInOrder
    <3> QED BY <1>11, <3>1, <3>2
  <2>3. page' # NoPage => \A i \in Ink(page)' : i < stop'
    BY <1>3, <1>5, <1>7, <2>1
  <2> QED BY <1>2, <1>5, <2>1, <2>2, <2>3 DEF PagesInOrder, Ink
<1>15. NothingIsLost'
  <2>1. SUFFICES ASSUME NEW m \in DOMAIN doc \ todo, NEW i \in Ink(m), m = page' => i < start'
                 PROVE  \E j \in 1..Len(chunks') : chunks'[j].page = m /\ i \in chunks'[j].text
    BY <1>2, <1>7 DEF NothingIsLost, Chunked
  <2>2. CASE m = page => i < start
    <3>1. PICK j \in 1..Len(chunks) : chunks[j].page = m /\ i \in chunks[j].text
      BY <2>2 DEF NothingIsLost, Chunked
    <3> QED BY <3>1, <1>12
  <2>3. CASE m = page /\ i >= start
    <3>1. i < end
      BY <1>2, <1>3, <1>4, <1>5, <1>7, <2>1, <2>3 DEF PagesInOrder
    <3>2. i \in piece
      BY <1>6, <2>3, <3>1
    <3>3. Len(chunks') \in 1..Len(chunks')
      BY <1>9, <1>10, <3>2
    <3> QED BY <1>8, <1>9, <2>3, <3>2, <3>3
  <2>4. i \in Nat
    BY <1>7
  <2> QED BY <1>3, <2>2, <2>3, <2>4
<1>16. ChunksFit'
  <2>1. ASSUME NEW j \in 1..Len(chunks')
        PROVE  \E a, b \in Ink(chunks'[j].page) : /\ chunks'[j].text = a..b
                                                   /\ a <= b /\ b - a < Target
    <3>1. CASE j \in 1..Len(chunks) /\ chunks'[j] = chunks[j]
      BY <3>1 DEF ChunksFit
    <3>2. CASE piece # {} /\ chunks'[j] = new
      <4>1. PICK a, b \in Ink(page) : piece = a..b /\ a <= b /\ start <= a /\ b < end
        BY <1>6, <3>2
      <4>2. b - a < Target
        BY <1>3, <1>4, <1>7, <4>1
      <4> QED BY <1>8, <3>2, <4>1, <4>2
    <3> QED BY <1>11, <3>1, <3>2
  <2>2. \A m : Ink(m)' = Ink(m)
    BY <1>2 DEF Ink
  <2> QED BY <2>1, <2>2 DEF ChunksFit
<1>17. ReadingOrder'
  <2>1. SUFFICES ASSUME NEW j \in 1..(Len(chunks') - 1)
                 PROVE  LET c == chunks'[j]  d == chunks'[j + 1] IN
                        \/ c.page < d.page
                        \/ /\ c.page = d.page
                           /\ \A k \in d.text : \E l \in c.text : l <= k
                           /\ \A l, k \in c.text \cap d.text : l - k < Overlap
    BY DEF ReadingOrder
  <2>2. CASE j + 1 \in 1..Len(chunks)
    <3>1. j \in 1..(Len(chunks) - 1) /\ chunks'[j] = chunks[j] /\ chunks'[j + 1] = chunks[j + 1]
      BY <1>10, <1>12, <2>1, <2>2
    <3> QED BY <3>1 DEF ReadingOrder
  <2>3. CASE j + 1 \notin 1..Len(chunks)
    <3>1. /\ piece # {} /\ j = Len(chunks) /\ j \in 1..Len(chunks)
          /\ chunks'[j + 1] = new /\ chunks'[j] = chunks[j]
      BY <1>9, <1>10, <1>12, <2>1, <2>3
    <3>2. CASE chunks[j].page # page
      <4>1. chunks[j].page <= page /\ chunks[j].page \in Nat
        BY <1>2, <1>3, <3>1, ChunkTypes DEF PagesInOrder
      <4> QED BY <1>3, <1>8, <3>1, <3>2, <4>1
    <3>3. CASE chunks[j].page = page
      <4>1. /\ \A k \in chunks[j].text : k < start + Overlap
            /\ \A i \in Ink(page) : i >= start => \E l \in chunks[j].text : l <= i
        BY <1>2, <3>1, <3>3 DEF LastChunk
      <4>2. chunks[j].text \subseteq Nat
        BY <3>1, ChunkTypes
      <4>3. PICK a \in Ink(page) : start <= a /\ \A k \in piece : a <= k
        <5>1. PICK a, b \in Ink(page) : piece = a..b /\ a <= b /\ start <= a
          BY <1>6, <3>1
        <5> QED BY <1>3, <1>7, <5>1
      <4>4. PICK l \in chunks[j].text : l <= a
        BY <4>1, <4>3, <1>3, <1>7
      <4>5. \A k \in piece : l <= k
        BY <1>3, <1>6, <1>7, <4>2, <4>3, <4>4
      <4>6. \A i, k \in chunks[j].text \cap piece : i - k < Overlap
        BY <1>3, <1>6, <4>1, <4>2
      <4> QED BY <1>8, <3>1, <3>3, <4>4, <4>5, <4>6
    <3> QED BY <3>2, <3>3
  <2> QED BY <2>2, <2>3
<1>18. LastChunk'
  <2>1. CASE end = stop /\ page' = NoPage
    BY <2>1 DEF LastChunk
  <2>2. CASE end < stop /\ start' = end - Overlap /\ start < start' /\ page' = page
    <3>1. SUFFICES ASSUME NEW j \in 1..Len(chunks'), chunks'[j] = chunks'[Len(chunks')],
                          chunks'[j].page = page
                   PROVE  /\ \A k \in chunks'[j].text : k < start' + Overlap
                          /\ \A i \in Ink(page) : i >= start' => \E l \in chunks'[j].text : l <= i
      BY <1>3, <1>7, <2>2 DEF LastChunk
    <3>2. CASE piece = {} /\ chunks' = chunks
      <4>1. /\ \A k \in chunks[j].text : k < start + Overlap
            /\ \A i \in Ink(page) : i >= start => \E l \in chunks[j].text : l <= i
        BY <1>2, <3>1, <3>2 DEF LastChunk
      <4>2. chunks[j].text \subseteq Nat
        BY <3>1, <3>2, ChunkTypes
      <4> QED BY <1>3, <1>4, <1>7, <2>2, <3>2, <4>1, <4>2
    <3>3. CASE piece # {} /\ chunks'[Len(chunks')] = new
      <4>1. chunks'[j].text = piece
        BY <1>8, <3>1, <3>3
      <4>2. \A k \in piece : k < start' + Overlap
        BY <1>3, <1>4, <1>6, <2>2
      <4>3. ASSUME NEW i \in Ink(page), i >= start' PROVE \E l \in piece : l <= i
        <5>1. i \in Nat /\ i >= start
          BY <1>3, <1>4, <1>7, <2>2, <4>3
        <5>2. CASE i < end
          BY <1>6, <5>1, <5>2
        <5>3. CASE i >= end
          BY <1>4, <1>6, <3>3, <5>1, <5>3
        <5> QED BY <1>4, <5>1, <5>2, <5>3
      <4> QED BY <4>1, <4>2, <4>3
    <3> QED BY <1>9, <3>2, <3>3
  <2> QED BY <1>5, <2>1, <2>2
<1> QED BY <1>13, <1>14, <1>15, <1>16, <1>17, <1>18

LEMMA NextIInv == IInv /\ [ChunkerNext]_chunkerVars => IInv'
<1> SUFFICES ASSUME IInv, [ChunkerNext]_chunkerVars PROVE IInv'
  OBVIOUS
<1>1. CASE OpenPage
  BY <1>1, OpenPageIInv
<1>2. CASE CutWindow
  BY <1>2, CutWindowIInv
<1>3. CASE UNCHANGED chunkerVars
  BY <1>3 DEF chunkerVars, IInv, ChunkerTypeOK, PagesInOrder, NothingIsLost, ChunksFit, ReadingOrder,
     LastChunk, Ink, Chunked
<1> QED BY <1>1, <1>2, <1>3 DEF ChunkerNext, ChunkingEnded

LEMMA IInvAlways == ChunkerSpec => []IInv
BY InitIInv, NextIInv, PTL DEF ChunkerSpec

(* For every Target, every smaller Overlap and every text: each inked      *)
(* character of a page is in a chunk of that page as soon as the window    *)
(* over it is cut.                                                         *)
THEOREM ChunkerLosesNothing == ChunkerSpec => []NothingIsLost
<1>1. IInv => NothingIsLost
  BY DEF IInv
<1> QED BY <1>1, IInvAlways, PTL

(* Every chunk is a run of at most Target characters between two inked     *)
(* ones.                                                                   *)
THEOREM ChunkerChunksFit == ChunkerSpec => []ChunksFit
<1>1. IInv => ChunksFit
  BY DEF IInv
<1> QED BY <1>1, IInvAlways, PTL

(* The chunks of a document are in reading order, and two in a row share   *)
(* at most Overlap characters.                                             *)
THEOREM ChunkerChunksWell == ChunkerSpec => [](ChunkerTypeOK /\ ReadingOrder)
<1>1. IInv => ChunkerTypeOK /\ ReadingOrder
  BY DEF IInv
<1> QED BY <1>1, IInvAlways, PTL

\* What WindowsAdvance says of a step.
Advance ==
    /\ page # NoPage /\ page' = page =>
         start' > start /\ start' - start >= Target \div 2 - Overlap
    /\ page' # page => page' = NoPage \/ page' \in todo

LEMMA WindowStep == IInv /\ [ChunkerNext]_chunkerVars => [Advance]_chunkerVars
<1> SUFFICES ASSUME IInv, ChunkerNext PROVE Advance \/ UNCHANGED chunkerVars
  OBVIOUS
<1> USE DEF Advance
<1>1. CASE OpenPage
  BY <1>1 DEF OpenPage
<1>2. CASE CutWindow
  <2>1. PICK end \in (start + 1)..stop :
          /\ WindowEnd(page, start, end)
          /\ IF end >= stop
             THEN page' = NoPage /\ start' = 0 /\ stop' = 0
             ELSE start' = NextStart(start, end) /\ UNCHANGED <<page, stop>>
    BY <1>2 DEF CutWindow
  <2>2. /\ page # NoPage
        /\ end \in Nat /\ start \in Nat /\ stop \in Nat /\ Overlap \in Nat /\ Target \div 2 \in Nat
    BY <1>2, <2>1, ChunkingConfig DEF CutWindow, IInv, ChunkerTypeOK
  <2>3. CASE end >= stop
    BY <2>1, <2>2, <2>3
  <2>4. CASE end < stop
    <3>1. start' = end - Overlap /\ end - Overlap > start /\ end - start >= Target \div 2 /\ page' = page
      BY <2>1, <2>2, <2>4, WindowFacts DEF IInv
    <3> QED BY <2>2, <3>1
  <2> QED BY <2>2, <2>3, <2>4
<1>3. CASE ChunkingEnded
  BY <1>3 DEF ChunkingEnded
<1> QED BY <1>1, <1>2, <1>3 DEF ChunkerNext

(* Every window advances by half of the target less the overlap, and by    *)
(* one character at least: the loop ends, and the branch of _windows for a *)
(* window that would not advance is never taken.                           *)
THEOREM ChunkerAdvances == ChunkerSpec => WindowsAdvance
BY WindowStep, IInvAlways, PTL DEF ChunkerSpec, WindowsAdvance, Advance
=============================================================================
