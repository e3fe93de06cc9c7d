------------------------------ MODULE Chunker ------------------------------
(***************************************************************************)
(* PageWindowChunker: the text of every page of a version is cut into      *)
(* overlapping windows, which become the chunks that are embedded, found   *)
(* and cited.  What is not in a chunk can never be an answer's evidence.   *)
(*                                                                         *)
(* A character is ink, a break (a space or a newline, where a window       *)
(* prefers to end) or a blank (any other white space: strip removes it, a  *)
(* window does not end there).  A piece of text is the set of the          *)
(* positions it takes up in its page, so that pieces of equal wording stay *)
(* apart.  The integers are positions, counted from 1.                     *)
(***************************************************************************)
EXTENDS Integers, Sequences

CONSTANTS
  Target,      \* target_chars of the ChunkingConfig
  Overlap,     \* overlap_chars of the ChunkingConfig
  Documents    \* the page texts a version may have: functions from page numbers

Char == {"ink", "break", "blank"}

ASSUME ChunkingConfig ==
  /\ Target \in Nat /\ Target >= 1
  /\ Overlap \in Nat /\ Overlap < Target

ASSUME DocumentsAssumption ==
  \A d \in Documents : /\ DOMAIN d \subseteq Nat \ {0}
                       /\ \A n \in DOMAIN d : d[n] \in Seq(Char)

NoPage == 0

VARIABLES
  doc,      \* the pages of the version, page number -> normalized text
  todo,     \* the pages the loop has not reached
  page,     \* the page being cut, or NoPage
  start,    \* where the next window begins
  stop,     \* one past the last character of the page's stripped text
  chunks    \* the chunks so far; the chunk_order of chunks[i] is i - 1

chunkerVars == <<doc, todo, page, start, stop, chunks>>

Ink(n) == {i \in 1..Len(doc[n]) : doc[n][i] = "ink"}

(* Mutant: the pieces are not stripped. *)
StripNothing(n, i, j) == i..(j - 1)

(***************************************************************************)
(* str.strip of the characters from i up to (and without) j of page n.     *)
(***************************************************************************)
Strip(n, i, j) ==
  {k \in i..(j - 1) : \E a, b \in Ink(n) : i <= a /\ a <= k /\ k <= b /\ b < j}

ChunkerInit ==
  /\ doc \in Documents
  /\ todo = DOMAIN doc
  /\ page = NoPage
  /\ start = 0
  /\ stop = 0
  /\ chunks = <<>>

(* Mutant: the pages come in whatever order they were read. *)
IsAnyPage(n) == n \in todo

IsNext(n) == n \in todo /\ \A m \in todo : n <= m

(***************************************************************************)
(* The next page in the order of page numbers.  A page without ink has an  *)
(* empty stripped text and is skipped.                                     *)
(***************************************************************************)
OpenPage ==
  /\ page = NoPage
  /\ \E n \in todo :
       /\ IsNext(n)
       /\ todo' = todo \ {n}
       /\ \/ /\ Ink(n) = {}
             /\ UNCHANGED <<page, start, stop>>
          \/ \E first, last \in Ink(n) :
               /\ \A i \in Ink(n) : first <= i /\ i <= last
               /\ page' = n
               /\ start' = first
               /\ stop' = last + 1
  /\ UNCHANGED <<doc, chunks>>

(***************************************************************************)
(* Where a window of page n that begins at i may end early: a break that   *)
(* leaves at least half of the target, and more than the overlap.          *)
(***************************************************************************)
WordBreaks(n, i) ==
  {i + b : b \in {c \in 0..(Target - 1) : /\ doc[n][i + c] = "break"
                                          /\ c >= Target \div 2
                                          /\ c > Overlap}}

WindowEnd(n, i, end) ==
  \/ i + Target >= stop /\ end = stop
  \/ /\ i + Target < stop
     /\ end \in WordBreaks(n, i)
     /\ \A b \in WordBreaks(n, i) : b <= end
  \/ i + Target < stop /\ WordBreaks(n, i) = {} /\ end = i + Target

(* Mutant: a tail that is no longer than the overlap is dropped. *)
KeepLongPiece(n, piece) ==
  chunks' = IF \A a, b \in piece : b - a < Overlap
            THEN chunks ELSE Append(chunks, [page |-> n, text |-> piece])

KeepPiece(n, piece) ==
  chunks' = IF piece = {} THEN chunks ELSE Append(chunks, [page |-> n, text |-> piece])

(* Mutant: the overlap is one character too long. *)
LongerOverlap(i, end) == end - Overlap - 1

(***************************************************************************)
(* Where the window after the one from i to end begins.                    *)
(***************************************************************************)
NextStart(i, end) == IF end - Overlap <= i THEN end ELSE end - Overlap

CutWindow ==
  /\ page # NoPage
  /\ \E end \in (start + 1)..stop :
       /\ WindowEnd(page, start, end)
       /\ KeepPiece(page, Strip(page, start, end))
       /\ IF end >= stop
          THEN page' = NoPage /\ start' = 0 /\ stop' = 0
          ELSE start' = NextStart(start, end) /\ UNCHANGED <<page, stop>>
  /\ UNCHANGED <<doc, todo>>

AllCut == page = NoPage /\ todo = {}

ChunkingEnded == AllCut /\ UNCHANGED chunkerVars

ChunkerNext == OpenPage \/ CutWindow \/ ChunkingEnded

ChunkerSpec == ChunkerInit /\ [][ChunkerNext]_chunkerVars

----------------------------------------------------------------------------
(***************************************************************************)
(* The properties.                                                         *)
(***************************************************************************)

(* Types: pieces are positions of their page, and a page being cut has     *)
(* text left.                                                              *)
ChunkerTypeOK ==
  /\ todo \subseteq DOMAIN doc
  /\ page \in DOMAIN doc \cup {NoPage}
  /\ start \in Nat /\ stop \in Nat
  /\ page # NoPage => 1 <= start /\ start < stop /\ stop <= Len(doc[page]) + 1
  /\ chunks \in Seq([page : DOMAIN doc, text : SUBSET Nat])

Chunked(n) == UNION {chunks[i].text : i \in {j \in 1..Len(chunks) : chunks[j].page = n}}

(* Nothing a reader can see is lost: every inked character of a page that  *)
(* was passed, and of the page being cut up to the next window, is in a    *)
(* chunk of that page, whatever the breaks, the overlap and the blanks are.*)
NothingIsLost ==
  \A n \in DOMAIN doc \ todo :
    \A i \in Ink(n) : (n = page => i < start) => i \in Chunked(n)

(* A chunk begins and ends with ink, is one run of characters of its page  *)
(* and is at most Target characters long: what the embedding and the       *)
(* context budget were sized for.                                          *)
ChunksFit ==
  \A c \in {chunks[i] : i \in 1..Len(chunks)} :
    \E a, b \in Ink(c.page) : c.text = a..b /\ a <= b /\ b - a < Target

(* Chunks are in reading order: of a later page, or beginning no earlier   *)
(* than the chunk before; and two chunks in a row share at most Overlap    *)
(* characters, so that no window is cut twice.                             *)
ReadingOrder ==
  \A i \in 1..(Len(chunks) - 1) :
    LET c == chunks[i]  d == chunks[i + 1] IN
    \/ c.page < d.page
    \/ /\ c.page = d.page
       /\ \A k \in d.text : \E j \in c.text : j <= k
       /\ \A j, k \in c.text \cap d.text : j - k < Overlap

(* The loop gets on and does not crawl: a window that does not end its     *)
(* page moves start forward, by half of the target less the overlap at     *)
(* least, so that a page is cut into a bounded number of chunks; and no    *)
(* page is opened twice.                                                   *)
WindowsAdvance ==
  [][/\ page # NoPage /\ page' = page =>
          start' > start /\ start' - start >= Target \div 2 - Overlap
     /\ page' # page => page' = NoPage \/ page' \in todo]_chunkerVars
=============================================================================
