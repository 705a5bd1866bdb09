------------------------------- MODULE PageSplit -------------------------------
(* A text too long for one message is cut into parts, at line ends where   *)
(* there are any and never inside a character; a terminal page has every   *)
(* part wrapped again, with a marker [i/n] whose own length depends on the *)
(* number of parts (panel/split.go SplitMarkdown).  A text is the sequence *)
(* of its bytes, told apart as far as the cuts depend on them; what is put *)
(* around a part is a length.                                              *)
EXTENDS Naturals, Sequences
LOCAL INSTANCE FiniteSetsExt
LOCAL INSTANCE SequencesExt

CONSTANTS
    Texts,       \* sequences of characters: "narrow", "wide" or "newline"
    WideBytes,   \* the bytes of a wide character
    Wrappings,   \* lengths of the fences, header and footer of a page, or Plain
    Plain,       \* no page
    MarkerBytes, \* the length of a marker without its two numbers
    Radix,       \* of the numbers: 10 in the code
    LimitsOfMessage, \* bound
    Nil,         \* the nil slice
    Uncut        \* before the call

VARIABLES text, wrapping, most,  \* content, its kind and the limit
          cuts                   \* the ends of the parts, Nil, or Uncut

splitVars == <<text, wrapping, most, cuts>>

--------------------------------------------------------------------------
BytesOf(character) ==
    CASE character = "newline" -> <<"newline">>
      [] character = "narrow" -> <<"start">>
      [] character = "wide" -> <<"start">> \o [i \in 1..(WideBytes - 1) |-> "rest"]

Content == FlattenSeq([i \in 1..Len(text) |-> BytesOf(text[i])])

(* utf8.RuneStart of the byte after the first n.                           *)
RuneStart(content, n) == content[n + 1] # "rest"

CutAnywhere(content, start, limit) == Min({start + limit, Len(content)})

(* splitPlain: the end of the part that begins after the first "start"     *)
(* bytes; "start" itself where not even a character fits.                  *)
WholeRunes(content, start, limit) ==
    LET full == Min({start + limit, Len(content)}) IN
    Max({start} \cup {e \in start..full : e = Len(content) \/ RuneStart(content, e)})

CutAtLine(content, start, limit) ==
    LET end == WholeRunes(content, start, limit)
        newlines == {e \in (start + 1)..end : content[e] = "newline"} IN
    IF end < Len(content) /\ newlines # {} THEN Max(newlines) ELSE end

SplitPlain(content, limit) ==
    LET from[start \in 0..Len(content)] ==
          LET end == CutAtLine(content, start, limit) IN
          IF start = Len(content) THEN <<>>
          ELSE IF end = start \/ from[end] = Nil THEN Nil
          ELSE <<end>> \o from[end]
    IN IF content = <<>> \/ limit <= 0 THEN Nil ELSE from[0]

(* strconv.Itoa                                                            *)
Digits(n) == CHOOSE d \in 1..(n + 1) : Radix ^ d > n /\ \A k \in 1..(d - 1) : Radix ^ k <= n

(* splitRenderedPage: room is kept for two numbers of the same length; the *)
(* parts are counted, and cut again where their number is longer.          *)
ReserveOne(digits) == MarkerBytes + digits + 1
MarkerReserve(digits) == MarkerBytes + 2 * digits

SplitRenderedPage(content, around, limit) ==
    LET longest == Digits(Max({1, Len(content)}))
        with[digits \in 1..longest] ==
          LET taken == around + MarkerReserve(digits)
              parts == IF limit <= taken THEN Nil ELSE SplitPlain(content, limit - taken)
          IN IF parts = Nil THEN Nil
             ELSE IF Digits(Len(parts)) > digits THEN with[Digits(Len(parts))] ELSE parts
    IN IF Len(content) + around <= limit THEN <<Len(content)>>
       ELSE IF content = <<>> THEN Nil ELSE with[1]

--------------------------------------------------------------------------
SplitInit ==
    /\ text \in Texts /\ wrapping \in Wrappings \cup {Plain} /\ most \in LimitsOfMessage
    /\ wrapping = Plain => text # <<>>
    /\ cuts = Uncut

SplitMarkdown ==
    /\ cuts = Uncut
    /\ cuts' = (IF wrapping = Plain THEN SplitPlain(Content, most)
                ELSE SplitRenderedPage(Content, wrapping, most))
    /\ UNCHANGED <<text, wrapping, most>>

--------------------------------------------------------------------------
(* wrapRenderedParts: what is around the i-th of n parts; a page that fits *)
(* stays as it is.                                                         *)
Around(i, n) ==
    CASE wrapping = Plain -> 0
      [] wrapping # Plain /\ cuts = <<Len(Content)>> /\ Len(Content) + wrapping <= most -> wrapping
      [] OTHER -> wrapping + MarkerBytes + Digits(i) + Digits(n)

(* The parts are the whole text, in order, none of them empty unless the   *)
(* text is, no character torn, and no message is longer than WeCom takes,  *)
(* its marker included; no parts at all only where the widest character    *)
(* would not fit beside the longest marker (SplitMarkdown's promise).      *)
SplitWhole ==
    LET n == Len(cuts)
        Start(i) == IF i = 1 THEN 0 ELSE cuts[i - 1]
        widest == IF \E i \in 1..Len(text) : text[i] = "wide" THEN WideBytes ELSE 1
        marker == IF wrapping = Plain THEN 0
                  ELSE wrapping + MarkerReserve(Digits(Max({1, Len(Content)}))) IN
    /\ cuts \notin {Uncut, Nil} =>
        /\ cuts[n] = Len(Content)
        /\ \A i \in 1..n :
            /\ Start(i) < cuts[i] \/ Content = <<>>
            /\ cuts[i] < Len(Content) => RuneStart(Content, cuts[i])
            /\ cuts[i] - Start(i) + Around(i, n) <= most
    /\ cuts = Nil => most < marker + widest
=============================================================================
