---------------------------- MODULE PageDisplay ----------------------------
(***************************************************************************)
(* The reader of the client: src/src/PageDisplay.c as the UPDATELCD state  *)
(* of src/src/scheduler.c drives it, one gesture or change of light at a   *)
(* time.                                                                   *)
(*                                                                         *)
(* Of the text only its length and the places of its newlines matter, and  *)
(* a pointer into it is an offset.  Row k of the LCD shows the text from   *)
(* an offset up to another.  Pointers that do not point into the text are  *)
(* kept apart: arithmetic on a NULL that strchr returned and reads outside *)
(* pageBreak yield them, and what is then read at them is anything.        *)
(* The status lines that ble.c writes over a page are left out.            *)
(***************************************************************************)
EXTENDS Integers, FiniteSetsExt

CONSTANTS Books,    \* the texts: their length and their newlines
          Width,    \* DISPLAY_ROW_LEN - 2
          Rows,     \* DISPLAY_NUMBER_OF_ROWS - 1
          PAGES,    \* size of pageBreak, and one more than pageCount can be
          Stray     \* what the words next to pageBreak may hold

ASSUME LayoutAssumption ==
  /\ Width \in Nat \ {0}
  /\ Rows \in Nat \ {0}
  /\ PAGES \in Nat \ {0, 1}

\* A text ends with a newline, its first line is not empty or one letter, and,
\* as Book1, it has no fewer lines than a page has rows.
ASSUME BookAssumption ==
  \A b \in Books : /\ b.len \in Nat
                   /\ b.len - 1 \in b.nl
                   /\ b.nl \subseteq 2 .. b.len - 1
                   /\ Cardinality(b.nl) >= Rows

VARIABLES
  book,        \* Book1
  currentPos,
  pageCount,
  pageBreak,
  doOnce,      \* the static of PrintDisplay
  light,       \* what the machine last acted upon: "none", "light", "dark"
  screen       \* what the rows of the LCD show

vars == <<book, currentPos, pageCount, pageBreak, doOnce, light, screen>>

NULL == -1
WILD == -2     \* an address outside of the text
Outside == {NULL, WILD}

ASSUME StrayAssumption == Stray \subseteq Outside /\ Stray # {}

Page == 0 .. PAGES - 1

Row(from, to) == [from |-> from, to |-> to]
Blank   == Row(0, 0)
Garbage == Row(WILD, WILD)
Status  == Row(NULL, NULL)   \* what was there before the book
-----------------------------------------------------------------------------
(* The layout of a text with newlines nl.                                  *)

\* strchr(p, '\n')
Newline(nl, p) ==
  LET after == {n \in nl : n >= p}
  IN  IF after = {} THEN NULL ELSE Min(after)

HasRow(nl, p) == p # NULL /\ Newline(nl, p) # NULL
IsLong(nl, p) == Newline(nl, p) - p > Width

\* Faulty variant: every line is taken for a long one.
RowEndAlwaysWide(nl, p) == p + Width
RowEnd(nl, p) == IF IsLong(nl, p) THEN p + Width ELSE Newline(nl, p)

\* Faulty variant: a character is skipped where a long line is broken.
NextRowSkips(nl, p) ==
  IF ~HasRow(nl, p) THEN NULL ELSE RowEnd(nl, p) + 1

NextRow(nl, p) ==
  IF ~HasRow(nl, p) THEN NULL
  ELSE IF IsLong(nl, p) THEN RowEnd(nl, p) ELSE RowEnd(nl, p) + 1

\* The rows from p on; NULL when there is no more of them.
Starts(nl, p) ==
  LET s[k \in 1 .. Rows] == IF k = 1 THEN p ELSE NextRow(nl, s[k - 1])
  IN  s

IsFull(nl, p) == HasRow(nl, Starts(nl, p)[Rows])
PageEnd(nl, p) == RowEnd(nl, Starts(nl, p)[Rows])

\* Two rows are skipped, and the line that follows them.
LineEnd(nl, p) ==
  LET third == NextRow(nl, NextRow(nl, p))
  IN  IF HasRow(nl, third) THEN Newline(nl, third) ELSE NULL
-----------------------------------------------------------------------------
(* The functions of PageDisplay.c.                                         *)

Cleared == [k \in 1 .. Rows |-> Blank]

\* The rows printed replace what is shown.
Printed(p, shown) ==
  LET s == Starts(book.nl, p)
  IN  [k \in 1 .. Rows |-> IF HasRow(book.nl, s[k])
                           THEN Row(s[k], RowEnd(book.nl, s[k])) ELSE shown[k]]

\* Faulty variant: a break that is there is kept, also after scrolling.
PrintDisplayKeepsBreak(pos, shown) ==
  LET p    == IF doOnce THEN 0 ELSE pos
      next == IF doOnce THEN 1 ELSE (pageCount' + 1) % PAGES
  IN  /\ p \notin Outside
      /\ currentPos' = p
      /\ screen' = Printed(p, shown)
      /\ doOnce' = (doOnce /\ ~IsFull(book.nl, p))
      /\ pageBreak' = IF IsFull(book.nl, p) /\ pageBreak[next] = NULL
                      THEN [pageBreak EXCEPT ![0] = 0, ![next] = PageEnd(book.nl, p)]
                      ELSE pageBreak

(* PrintDisplay with currentPos = pos, on a screen that shows shown.  Until *)
(* a page was full it starts from Book1 again, and clears a quarter of the  *)
(* breaks.  The break goes to the entry after pageCount, a byte that wraps. *)
PrintDisplay(pos, shown) ==
  LET p     == IF doOnce THEN 0 ELSE pos
      next  == (pageCount' + 1) % PAGES
      first == [[i \in Page |-> IF 4 * i < PAGES THEN NULL ELSE pageBreak[i]]
                  EXCEPT ![pageCount'] = 0]
  IN  /\ currentPos' = p
      /\ \/ /\ p \notin Outside
            /\ screen' = Printed(p, shown)
            /\ doOnce' = (doOnce /\ ~IsFull(book.nl, p))
            /\ pageBreak' = IF doOnce
                            THEN IF IsFull(book.nl, p) THEN [first EXCEPT ![1] = PageEnd(book.nl, p)] ELSE first
                            ELSE IF IsFull(book.nl, p) THEN [pageBreak EXCEPT ![next] = PageEnd(book.nl, p)]
                            ELSE pageBreak
         \/ /\ p \in Outside
            /\ UNCHANGED doOnce
            /\ \/ screen' = shown /\ UNCHANGED pageBreak
               \/ /\ screen' = [k \in 1 .. Rows |-> Garbage]
                  /\ pageBreak' = [pageBreak EXCEPT ![next] = WILD]

\* The end of the text is not looked for: newline + 1 of no newline.
scrollUp ==
  LET n == IF currentPos \in Outside THEN NULL ELSE LineEnd(book.nl, currentPos)
  IN  /\ UNCHANGED pageCount
      /\ PrintDisplay(IF n = NULL THEN WILD ELSE n + 1, Cleared)

(* The text up to and with the character at currentPos is copied and       *)
(* reversed; after the copy stands one byte that nobody wrote, be it zero  *)
(* (rest = 0), a letter or a newline.  At the end of the text the copy     *)
(* stops before (rest = -1).  The way back is measured in the copy.        *)
Reversed(last) == {last - n : n \in {n \in book.nl : n <= currentPos}}

Back(rest) ==
  LET copy == Reversed(currentPos + rest)
      n == LineEnd(copy, 0)
      m == LineEnd(copy \cup {0}, 0)
      To(k) == IF k = NULL THEN 0 ELSE currentPos - (k + 1)
  IN  {To(n)} \cup (IF rest = 1 THEN {To(m)} ELSE {})

\* malloc may have no memory to give, and has none for the distance between
\* two objects: the page is then printed again.
scrollDown ==
  /\ UNCHANGED pageCount
  /\ \/ PrintDisplay(currentPos, screen)
     \/ /\ currentPos \notin Outside
        /\ \E rest \in IF currentPos = book.len THEN {-1} ELSE {0, 1} :
             \E pos \in Back(rest) : PrintDisplay(pos, screen)

\* The index is an int: 256 and -1 are outside of the array.
ReadBreak(i) == IF i \in Page THEN {pageBreak[i]} ELSE Stray

\* Faulty variant: the old page is not cleared.
TurnToUncleared(i) ==
  \E b \in ReadBreak(i) :
    \/ /\ b # NULL
       /\ pageCount' = i % PAGES
       /\ PrintDisplay(pageBreak[pageCount'], screen)
    \/ /\ b = NULL
       /\ UNCHANGED pageCount
       /\ PrintDisplay(currentPos, screen)

\* A page that has a break is turned to, and pageCount wraps as a byte.
TurnTo(i) ==
  \E b \in ReadBreak(i) :
    \/ /\ b # NULL
       /\ pageCount' = i % PAGES
       /\ PrintDisplay(pageBreak[pageCount'], Cleared)
    \/ /\ b = NULL
       /\ UNCHANGED pageCount
       /\ PrintDisplay(currentPos, screen)

nextPage == TurnTo(pageCount + 1)
prevPage == TurnTo(pageCount - 1)
-----------------------------------------------------------------------------
(* The states INITLCD and UPDATELCD.                                       *)

Init ==
  /\ book \in Books
  /\ currentPos = NULL
  /\ pageCount = 0
  /\ pageBreak = [i \in Page |-> NULL]
  /\ doOnce = TRUE
  /\ light = "none"
  /\ screen = [k \in 1 .. Rows |-> Status]

InitLcd ==
  /\ light = "none"
  /\ light' = "light"
  /\ UNCHANGED <<book, pageCount>>
  /\ PrintDisplay(currentPos, screen)

Darkens ==
  /\ light = "light"
  /\ light' = "dark"
  /\ screen' = Cleared
  /\ UNCHANGED <<book, currentPos, pageCount, pageBreak, doOnce>>

Lightens ==
  /\ light = "dark"
  /\ light' = "light"
  /\ UNCHANGED <<book, pageCount>>
  /\ PrintDisplay(currentPos, screen)

\* A gesture that comes late is acted upon in the dark, too.
TurnsPage ==
  /\ light # "none"
  /\ nextPage \/ prevPage
  /\ UNCHANGED <<book, light>>

Scrolls ==
  /\ light # "none"
  /\ scrollUp \/ scrollDown
  /\ UNCHANGED <<book, light>>

Next == InitLcd \/ Darkens \/ Lightens \/ TurnsPage \/ Scrolls

Spec == Init /\ [][Next]_vars
-----------------------------------------------------------------------------
(* Properties.                                                             *)

\* Type invariant.
TypeOK ==
  /\ book \in Books
  /\ currentPos \in 0 .. book.len \cup Outside
  /\ pageCount \in Page
  /\ pageBreak \in [Page -> 0 .. book.len \cup Outside]
  /\ doOnce \in BOOLEAN
  /\ light \in {"none", "light", "dark"}
  /\ DOMAIN screen = 1 .. Rows

\* Nothing of an earlier page stays on the LCD: it is blank in the dark, or
\* its rows are those of the text from currentPos on and blank below the
\* end, although scrollDown prints over the old page (PageDisplay.c:165-216).
ScreenIsPage ==
  (light # "none" /\ currentPos \notin Outside)
    => \/ screen = Printed(currentPos, Cleared)
       \/ light = "dark" /\ screen = Cleared

\* The rows give the text as it is: a row fits the LCD and holds no newline,
\* and the next goes on at once, or after the newline that ended it, so that
\* breaking a long line drops and repeats no character (PageDisplay.c:84-125).
RowsAreText ==
  (light = "light" /\ currentPos \notin Outside) =>
    \A k \in 1 .. Rows :
      LET r == screen[k]
      IN  r \notin {Blank, Status} =>
            /\ r.from <= r.to /\ r.to <= r.from + Width
            /\ \A n \in r.from .. r.to - 1 : n \notin book.nl
            /\ (k < Rows /\ screen[k + 1] \notin {Blank, Status}) =>
                 screen[k + 1].from = IF r.to \in book.nl THEN r.to + 1 ELSE r.to

\* Turning to the next page drops and repeats no character, however one came to
\* the page that is left, by page gestures or by scrolling: a full page is
\* followed by one that starts where its last row ended.  In a long line the
\* line goes on there.  At the end of a line it is the newline that stands there,
\* not the line that follows: the new page opens with an empty row, and has one
\* line less to show (PageDisplay.c:98-113, 218-239).
NextPageContinues ==
  [][LET last  == screen[Rows]
         first == screen'[1]
     IN  (/\ nextPage /\ pageCount + 1 \in Page
          /\ light # "none" /\ currentPos \notin Outside /\ last # Blank)
         => /\ pageCount' = pageCount + 1
            /\ first.from = last.to
            /\ first.to = last.to <=> last.to \in book.nl]_vars
=============================================================================
