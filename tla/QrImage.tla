------------------------------ MODULE QrImage -------------------------------
(***************************************************************************)
(* The QR renderer's own arithmetic and policy (internal/qr): the checks   *)
(* of Prepare in their order, the level and the hole a logo gets, the      *)
(* shapes a row of modules is drawn with and the pixels they land on.  The *)
(* encoder is a library: the version it picks is an input here.            *)
(*                                                                         *)
(* Levels L, M, Q, H are 0..3; scales are percentages of the codewords.    *)
(***************************************************************************)
EXTENDS Integers, FiniteSets, FiniteSetsExt

CONSTANTS
    MaxPx,          \* render.max_px
    MaxPayload      \* render.max_payload_bytes

ASSUME BoundsAssumption == MaxPx \in Nat \ {0} /\ MaxPayload \in Nat \ {0}

Levels == 0..3
levelOrder == <<0, 1, 2, 3>>
Capacity(l) == <<2953, 2331, 1663, 1273>>[l + 1]
logoBudget(l) == <<5, 12, 20, 25>>[l + 1]
MaxLogoScale == 25

\* The first of a list of checks that fails decides.
FirstOf(checks) ==
    LET failed == {i \in DOMAIN checks : checks[i][1]}
    IN  IF failed = {} THEN "ok" ELSE checks[Min(failed)][2]

payloadLimit(l) == Min({Capacity(l), MaxPayload})

\* The levels a logo of this scale can be encoded at.
Bearing(requested, scale, raise) ==
    {l \in Levels : /\ scale <= logoBudget(l)
                    /\ l = requested \/ (raise /\ l > requested)}

\* -1: the logo is too large.
resolveLogoLevel(requested, scale, raise) ==
    LET fit == Bearing(requested, scale, raise)
    IN  IF fit = {} THEN -1 ELSE Min(fit)

----------------------------------------------------------------------------
(* Prepare.  Options: colour "low" stands for a pair under the contrast    *)
(* gate; image "none" for no logo.                                         *)

HasLogo(o) == o.image # "none"

normalise(o) ==
    /\ o.format \in {"png", "svg"}
    /\ o.colour # "bad"
    /\ o.shape \in {"square", "dot", "rounded"}
    /\ o.margin \in 0..64
    /\ o.size >= 1
    /\ o.level \in Levels
    /\ HasLogo(o) => o.scale > 0 /\ o.scale <= MaxLogoScale

Effective(o) == IF HasLogo(o) THEN resolveLogoLevel(o.level, o.scale, o.raise) ELSE o.level

decodeLogo(o) == o.image = "good"

Prepare(o) ==
    IF ~normalise(o) THEN "invalid_request"
    ELSE LET level == Effective(o)
         IN  FirstOf(<<
               <<o.size > MaxPx, "dimensions_exceeded">>,
               <<o.colour = "low", "contrast_too_low">>,
               <<level = -1, "logo_too_large">>,
               <<HasLogo(o) /\ ~decodeLogo(o), "invalid_request">>,
               <<o.content > payloadLimit(IF level = -1 THEN 3 ELSE level), "content_too_large">>,
               <<o.content = 0, "invalid_request">> >>)

----------------------------------------------------------------------------
(* The hole *)

Side(v) == 4 * v + 17

rawDataModules(v) ==
    LET align == (v \div 7) + 2
    IN  (16 * v + 128) * v + 64
        - (IF v >= 2 THEN (25 * align - 10) * align - 55 ELSE 0)
        - (IF v >= 7 THEN 36 ELSE 0)

\* floor(sqrt(scale% of area))
Root(scale, area) ==
    CHOOSE k \in 0..180 : /\ 100 * k * k <= scale * area
                          /\ 100 * (k + 1) * (k + 1) > scale * area

OddBelow(k) == IF k % 2 = 0 THEN k - 1 ELSE k

\* Bug: the scale is taken of the whole symbol.
BugWholeSymbol(v, scale) ==
    Min({Max({OddBelow(Root(scale, Side(v) * Side(v))), 3}), OddBelow(Side(v) - 16)})

\* The side of the centred hole: odd, at least 3, clear of the finders.
logoHole(v, scale) ==
    Min({Max({OddBelow(Root(scale, rawDataModules(v))), 3}), OddBelow(Side(v) - 16)})

----------------------------------------------------------------------------
(* Drawing *)

\* A row of modules: what is dark, and what lies in a finder pattern.  The
\* run that starts at x, and the shapes of the rest of the row from there.
RunEnd(row, shape, x) ==
    LET joins(w) == \A y \in x..w : /\ row.dark[y]
                                    /\ shape = "square" \/ row.finder[y] = row.finder[x]
    IN  Max({w \in x..(row.n - 1) : joins(w)})

computeGeometry(row, shape) ==
    LET draw[x \in 0..row.n] ==
          IF x >= row.n THEN {}
          ELSE IF ~row.dark[x] THEN draw[x + 1]
          ELSE IF shape = "dot" /\ ~row.finder[x] THEN {<<x, x>>} \cup draw[x + 1]
          ELSE LET end == RunEnd(row, shape, x) IN {<<x, end>>} \cup draw[end + 1]
    IN  draw[0]

\* The pixel boundary of module m: whole pixels per module when there are
\* enough, the rest split between the margins; else m * size / total, rounded.
edge(size, total, m) ==
    LET px == size \div total
    IN  IF size >= total THEN (size - px * total) \div 2 + m * px
        ELSE (2 * m * size + total) \div (2 * total)
=============================================================================
