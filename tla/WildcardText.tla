----------------------------- MODULE WildcardText -----------------------------
(***************************************************************************)
(* WildcardText: one rule about texts, set up by setters in any order and  *)
(* then asked whether a text matches.  Characters come in two cases; a     *)
(* text is a sequence of <<letter, isUpper>>.                              *)
(***************************************************************************)
EXTENDS Naturals, Sequences, FiniteSets

CONSTANTS
  Letters,       \* letters
  MaxPattern,    \* bound: how long a rule's text is
  MaxText,       \* bound: how long the texts asked about are
  Lengths        \* the lengths rules are set to

ASSUME WildcardAssumption == MaxPattern \in Nat /\ MaxText \in Nat /\ Lengths \subseteq Nat

Texts(n) == UNION {[1..k -> Letters \X BOOLEAN] : k \in 0..n}

MatchPattern == {"ExactMatch", "PartialMatch", "PrefixMatch", "SuffixMatch",
                 "RegexMatch", "Unknown"}

\* An optional length is a set of at most one length: {} is std::nullopt.
Optional == {{}} \cup {{n} : n \in Lengths}

VARIABLES
  rule     \* text, pattern, min, max, front, back, caseSensitive, included

wildcardVars == <<rule>>

WildcardInit ==
  \E included \in BOOLEAN :
    rule = [text |-> <<>>, pattern |-> "Unknown", min |-> {}, max |-> {}, front |-> {},
            back |-> {}, caseSensitive |-> TRUE, included |-> included]

SetText(text, pattern)     == rule' = [rule EXCEPT !.text = text, !.pattern = pattern]
SetMatchedPattern(pattern) == rule' = [rule EXCEPT !.pattern = pattern]
SetMatchedLength(min, max) == rule' = [rule EXCEPT !.min = min, !.max = max]
SetFrontContext(length)    == rule' = [rule EXCEPT !.front = length]
SetBackContext(length)     == rule' = [rule EXCEPT !.back = length]
SetCaseSensitive(is)       == rule' = [rule EXCEPT !.caseSensitive = is]

WildcardNext ==
  \/ \E text \in Texts(MaxPattern), p \in MatchPattern : SetText(text, p)
  \/ \E p \in MatchPattern : SetMatchedPattern(p)
  \/ \E min, max \in Optional : SetMatchedLength(min, max)
  \/ \E length \in Optional : SetFrontContext(length) \/ SetBackContext(length)
  \/ \E is \in BOOLEAN : SetCaseSensitive(is)

WildcardSpec == WildcardInit /\ [][WildcardNext]_wildcardVars

-----------------------------------------------------------------------------
\* to_lower_string
Lower(text) == [i \in DOMAIN text |-> <<text[i][1], FALSE>>]

\* is_equal
IsEqual(s, t) ==
  /\ Len(s) = Len(t)
  /\ IF rule.caseSensitive THEN s = t ELSE Lower(s) = Lower(t)

\* is_length_match: a text shorter than the rule's never matches, which is also what
\* keeps IsSuffixMatch's substr within the text.
IsLengthMatch(text) ==
  /\ \A n \in rule.min : Len(text) >= n
  /\ \A n \in rule.max : Len(text) <= n
  /\ Len(text) >= Len(rule.text)

\* is_prefix_match and is_suffix_match: a context length is exact.
IsPrefixMatch(text) ==
  /\ \A n \in rule.back : Len(text) = Len(rule.text) + n
  /\ IsEqual(SubSeq(text, 1, Len(rule.text)), rule.text)

\* A slip: the text is compared from one character too early.
IsSuffixMatch_OffByOne(text) ==
  /\ \A n \in rule.front : Len(text) = Len(rule.text) + n
  /\ LET from == Len(text) - Len(rule.text)
     IN  IsEqual(SubSeq(text, IF from = 0 THEN 1 ELSE from, Len(text)), rule.text)

IsSuffixMatch(text) ==
  /\ \A n \in rule.front : Len(text) = Len(rule.text) + n
  /\ IsEqual(SubSeq(text, Len(text) - Len(rule.text) + 1, Len(text)), rule.text)

\* is_partial_match
IsPartialMatch(text) ==
  \E at \in 0..(Len(text) - Len(rule.text)) :
    IsEqual(SubSeq(text, at + 1, at + Len(rule.text)), rule.text)

\* is_all_match; a regular expression is not supported and matches nothing.
IsAllMatch(text) ==
  /\ IsLengthMatch(text)
  /\ CASE rule.pattern = "ExactMatch"   -> IsEqual(text, rule.text)
       [] rule.pattern = "PartialMatch" -> IsPartialMatch(text)
       [] rule.pattern = "PrefixMatch"  -> IsPrefixMatch(text)
       [] rule.pattern = "SuffixMatch"  -> IsSuffixMatch(text)
       [] OTHER                         -> FALSE

\* is_match
IsMatch(text) == IsAllMatch(text) = rule.included

\* get_matched_texts and get_unmatched_texts
MatchedTexts(texts)   == {text \in texts : IsMatch(text)}
UnmatchedTexts(texts) == {text \in texts : ~IsMatch(text)}

-----------------------------------------------------------------------------
\* The reference: the text is what comes before, the rule's text, and what comes after,
\* where the pattern says what may stand on each side.
Meant(text) ==
  /\ \A n \in rule.min : Len(text) >= n
  /\ \A n \in rule.max : Len(text) <= n
  /\ \E i \in 0..Len(text) : \E j \in i..Len(text) :
       /\ LET middle == SubSeq(text, i + 1, j)
          IN  \/ middle = rule.text
              \/ ~rule.caseSensitive /\ Lower(middle) = Lower(rule.text)
       /\ rule.pattern \notin {"RegexMatch", "Unknown"}
       /\ rule.pattern \in {"ExactMatch", "PrefixMatch"} => i = 0
       /\ rule.pattern \in {"ExactMatch", "SuffixMatch"} => j = Len(text)
       /\ rule.pattern = "PrefixMatch" => \A n \in rule.back : Len(text) - j = n
       /\ rule.pattern = "SuffixMatch" => \A n \in rule.front : i = n

\* A rule matches the texts that have its text where its pattern says, within its
\* lengths, with the context it names, and an excluding rule matches all others; and
\* no text asked about makes it compare beyond the text's ends (wildcard_text.cpp,
\* is_all_match and the length check before it).
MatchesWhatItSays ==
  LET all == Texts(MaxText)
      meant == {text \in all : Meant(text) <=> rule.included}
  IN  /\ MatchedTexts(all) = meant /\ UnmatchedTexts(all) = all \ meant
      /\ \A text \in all : IsLengthMatch(text) => Len(text) >= Len(rule.text)
=============================================================================
