-------------------------- MODULE MCConfigUpgrade ---------------------------
(* An instance of ConfigUpgrade for TLC: defaults laid out as [classify] and    *)
(* [drift] of the shipped ones are, with a last key of two lines in the first, *)
(* and users who type their headers, a list of their own over two lines, a      *)
(* section of their own, comments and blanks.                                   *)
EXTENDS ConfigUpgrade

TwoSections ==
  <<Comment, Header("classify"), Key("enabled", 1), Comment, Key("urls", 2), Rest(FALSE),
    Blank, Comment, Header("drift"), Comment, Key("enabled", 0)>>

Named == {"classify", "drift", "notes", "urls", "enabled"}

Fields == [classify |-> [enabled |-> 1, urls |-> 2], drift |-> [enabled |-> 0]]

Lines == {Header("classify"), Header("drift"), Header("notes"),
          Key("urls", 3), Rest(FALSE), Key("enabled", 0), Comment, Blank}
=============================================================================
