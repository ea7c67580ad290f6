--------------------------- MODULE StringValues ---------------------------
(***************************************************************************)
(* What String.hpp promises: every string has a text of its own, and a     *)
(* call does to it what it was asked to.  Members that go through C        *)
(* strings may lose what follows a NUL, in the text they put in or in the  *)
(* one that they move up.                                                  *)
(***************************************************************************)
EXTENDS Integers, Sequences

CONSTANTS Strings,    \* names of the strings of the program
          Bytes,      \* characters, NUL among them
          NUL         \* the character that ends a C string

VARIABLES text,    \* text[v]: the characters of v, for every v that exists
          asked    \* the last call

\* The characters of t from position i up to, not including, position j.
Part(t, i, j) == SubSeq(t, i + 1, j)

UpToNul(t) == LET NulAt == {i \in 1..Len(t) : t[i] = NUL}
              IN  IF NulAt = {} THEN t
                  ELSE Part(t, 0, (CHOOSE i \in NulAt : \A j \in NulAt : i <= j) - 1)

\* The texts f, with t for v.
Set(f, v, t) == [u \in DOMAIN f \union {v} |-> IF u = v THEN t ELSE f[u]]

\* put takes the place of the characters from..to of v, which is made if it
\* does not exist; v and w exchange texts, or v takes that of w; v goes.  The
\* last call is one that promises nothing about v.
Calls ==
  [call : {"edit"}, v : Strings, from : Nat, to : Nat, put : Seq(Bytes)]
    \union [call : {"swap", "take"}, v : Strings, w : Strings]
    \union [call : {"drop", "garble"}, v : Strings]

Init == text = <<>> /\ asked = [call |-> "none"]

Edit(v, i, j, w) ==
  LET t == IF v \in DOMAIN text THEN text[v] ELSE <<>>
      rest == Part(t, j, Len(t))
  IN  \E put \in {w, UpToNul(w)}, tail \in {rest, UpToNul(rest)} :
        text' = Set(text, v, Part(t, 0, i) \o put \o tail)

Next ==
  /\ asked' \in Calls
  /\ LET v == asked'.v IN
     \/ asked'.call = "edit" /\ Edit(v, asked'.from, asked'.to, asked'.put)
     \/ asked'.call = "swap" /\ text' = Set(Set(text, asked'.w, text[v]), v, text[asked'.w])
     \/ asked'.call = "take" /\ text' = Set(Set(text, asked'.w, <<>>), v, text[asked'.w])
     \/ asked'.call = "drop" /\ text' = [u \in DOMAIN text \ {v} |-> text[u]]
     \/ asked'.call = "garble" /\ \E t \in {text'[v]} : t \in Seq(Bytes) /\ text' = Set(text, v, t)

Spec == Init /\ [][Next]_text

=============================================================================
