--------------------------- MODULE MCConsolidation ---------------------------
EXTENDS Consolidation

CONSTANTS a, b, c, d

\* `a` and `b` say the same, `c` nearly the same as `a`, and `d`, of another
\* type, nearly the same as `c`. The proposal `b` is the better of its pair by
\* confidence and age, and still must not displace the confirmed `a`.
KeyOf   == (a :> 1 @@ b :> 1 @@ c :> 2 @@ d :> 3)
PartOf  == (a :> "fact" @@ b :> "fact" @@ c :> "fact" @@ d :> "event")
RankOf  == (a :> 3 @@ b :> 2 @@ c :> 1 @@ d :> 4)
NearOf  == {{a, c}, {c, d}}
Order   == <<d, b, a, c>>

\* Two of a kind and a row to be written; two of a kind beside a near one; one
\* of each, with a memory of another type.
StartsOf == {(a :> "confirmed" @@ b :> "proposed" @@ c :> "unused" @@ d :> "deleted"),
             (a :> "confirmed" @@ b :> "proposed" @@ c :> "confirmed" @@ d :> "deleted"),
             (a :> "confirmed" @@ b :> "deleted" @@ c :> "confirmed" @@ d :> "proposed")}

=============================================================================
