----------------------------- MODULE MCConnection -----------------------------
(***************************************************************************)
(* Values for TLC.  A byte has three values, so that the lengths 3 to 8    *)
(* need two bytes of the header.  The serialised form is that of protobuf  *)
(* with shorter tags: an Init has a string and a varint, whose bytes but   *)
(* the last have the value 2 here; a MessageToRoot has a type and a word.  *)
(***************************************************************************)
EXTENDS Connection, TLC

String(n) == {<<n>> \o s : s \in [1 .. n -> {1, 2}]}

TheBodies(kind) ==
  CASE kind = "dummy" -> {<<>>}
    [] kind = "init"  -> {<<1>> \o s \o <<2>> \o p : s \in String(1), p \in {<<1>>, <<2, 1>>}}
    [] kind = "word"  -> {<<1, 1, 2>> \o s : s \in String(1) \cup String(2)}
                         \cup {<<1, 2, 2, 0>>}

Varint(b) == b # <<>> /\ b[Len(b)] # 2 /\ \A i \in 1 .. Len(b) - 1 : b[i] = 2

(* b begins with a tag and a string, or with a tag and a type. *)
HasString(b, tag) == Len(b) >= 2 /\ b[1] = tag /\ Len(b) >= 2 + b[2]

TheParser(kind, b) ==
  CASE kind = "dummy" -> b = <<>>
    [] kind = "init"  -> /\ HasString(b, 1)
                         /\ LET p == SubSeq(b, 3 + b[2], Len(b))
                            IN  Len(p) > 1 /\ p[1] = 2 /\ Varint(Tail(p))
    [] kind = "word"  -> /\ Len(b) >= 2 /\ b[1] = 1
                         /\ LET w == SubSeq(b, 3, Len(b))
                            IN  w = <<>> \/ (HasString(w, 2) /\ Len(w) = 2 + w[2])

TheScripts == {<<"init", "dummy">>, <<"word">>}
=============================================================================
