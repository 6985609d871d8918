------------------------------ MODULE MCShadow ------------------------------
(* Two candidates against two families, one of them with two versions: the
   first far from the candidates, the second within the margin. *)
EXTENDS Shadow, TLC

MCKeys == <<"a", "b", "x", "y">>
MCTokensOf == [k \in Range(MCKeys) |-> {k}]
MCEscapedAs == [k \in Range(MCKeys) |-> IF k \in {"x", "y"} THEN "x" ELSE k]

Field(opt, ts) == [optional |-> opt, types |-> ts]
Root == <<>> :> Field(FALSE, {"object"})
WithA == Root @@ (<<"a">> :> Field(FALSE, {"string"}))

Wide == WithA @@ (<<"b">> :> Field(FALSE, {"number"}))
Loose == WithA @@ (<<"b">> :> Field(TRUE, {"number"}))
Far == Root @@ (<<"x">> :> Field(TRUE, {"string", "null"})) @@ (<<"y">> :> Field(FALSE, {"array"}))
         @@ (<<"y", "[]">> :> Field(FALSE, {"number"}))

MCGrowth == 1 :> <<Wide>> @@ 2 :> <<Wide, Wide>>

Ref(s, f, v, g) == [schema |-> s, family |-> f, version |-> v, sig |-> g]
MCPublications == {Ref(1, 1, 1, Wide), Ref(2, 2, 1, Far), Ref(3, 2, 2, Loose)}

\* The distances this instance is about: a schema is at no distance from itself, the
\* distance is symmetric, and Loose is within the margin of Wide where Far is not.
ASSUME \A g, h \in {Wide, Loose, Far} :
         /\ Distance(g, g) = 0
         /\ Distance(g, h) = Distance(h, g) /\ Distance(g, h) \in 0..(100 * Scale)
ASSUME Distance(Wide, Loose) < 10 * Scale /\ Distance(Wide, Far) >= 10 * Scale

\* The names x and y collide once they are escaped, and two levels are shown.
ASSUME LET view == ProfileView(Far, 1)
       IN DetectRedactionCollision(view) /\ Len(view.fields) = 3 /\ ~view.truncated
=============================================================================
