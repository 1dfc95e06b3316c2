----------------------------- MODULE MCHttpRead -----------------------------
(***************************************************************************)
(* Requests for the model-checking runs of HttpRead.                       *)
(***************************************************************************)
EXTENDS HttpRead

HeaderLists == UNION {[1 .. n -> {"keep", "len", "junk"}] : n \in 0 .. 2}

Request(lines, bodies, bares) ==
    {r \in [line : lines, headers : HeaderLists, body : bodies, bare : bares,
            lone : {"CR", "LF"}] :
        /\ r.body > 0 => Has(r, "len")
        /\ r.bare <= NumLines(r)
        /\ r.bare = 0 => r.lone = "LF"}

\* Right and wrong requests with a body of up to two bytes.
AllSorts == Request({"GET", "POST", "junk"}, 0 .. 2, 0 .. 3)

\* Nothing wrong.
Proper == Request({"GET", "POST"}, 0 .. 2, {0})
=============================================================================
