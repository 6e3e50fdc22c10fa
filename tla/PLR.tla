--------------------------------- MODULE PLR ---------------------------------
(***************************************************************************)
(* One segment of the piecewise linear regression of                       *)
(* src/include/rolex_libs/rolex/plr.hpp: points arrive by increasing x,    *)
(* and a rectangle of four points holds the flattest and the steepest line *)
(* that pass within epsilon of all of them.                                *)
(*                                                                         *)
(* The code computes slopes exactly (128-bit integers) up to the final     *)
(* line, which is a long double; here that line is an exact fraction.      *)
(***************************************************************************)
EXTENDS Integers, Sequences, FiniteSetsExt

Minus(p, q) == [dx |-> p.x - q.x, dy |-> p.y - q.y]
Less(s, t) == s.dy * t.dx < s.dx * t.dy

Cross(o, a, b) ==
    LET oa == Minus(a, o)
        ob == Minus(b, o)
    IN  oa.dx * ob.dy - oa.dy * ob.dx

\* y is unsigned: the lower point is cut off at 0.
Above(x, y, eps) == [x |-> x, y |-> y + eps]
Under(x, y, eps) == [x |-> x, y |-> IF y <= eps THEN 0 ELSE y - eps]

\* The object after its constructor and its first two points.  Sequences
\* count from 1; lo and up are lower_start and upper_start.
NewHull == [num |-> 0, rect |-> <<>>, lower |-> <<>>, upper |-> <<>>,
            lo |-> 1, up |-> 1]
FirstPoint(p1, p2) ==
    [NewHull EXCEPT !.num = 1, !.rect = <<p1, p2, p1, p2>>,
                    !.upper = <<p1>>, !.lower = <<p2>>]
SecondPoint(h, p1, p2) ==
    [h EXCEPT !.num = 2, !.rect[3] = p2, !.rect[4] = p1,
              !.upper = Append(@, p1), !.lower = Append(@, p2)]

Outside(h, p1, p2) ==
    \/ Less(Minus(p1, h.rect[3]), Minus(h.rect[3], h.rect[1]))
    \/ Less(Minus(h.rect[4], h.rect[2]), Minus(p2, h.rect[4]))

\* Mutant of CutMax: the line goes on turning on the same lower point.
CutMaxSamePivot(h, p1) ==
    IF ~Less(Minus(p1, h.rect[2]), Minus(h.rect[4], h.rect[2])) THEN h
    ELSE LET end == Max({e \in h.up .. Len(h.upper) :
                            \/ e < h.up + 1
                            \/ Cross(h.upper[e - 1], h.upper[e], p1) > 0})
         IN  [h EXCEPT !.rect[4] = p1, !.upper = Append(SubSeq(@, 1, end), p1)]

\* p1 lowers the steepest line: the lower point it now turns on, and the
\* upper hull with p1.
CutMax(h, p1) ==
    IF ~Less(Minus(p1, h.rect[2]), Minus(h.rect[4], h.rect[2])) THEN h
    ELSE LET Val(i) == Minus(h.lower[i], p1)
             minI == Min({i \in h.lo .. Len(h.lower) :
                            \/ i = Len(h.lower)
                            \/ Less(Val(i), Val(i + 1))})
             end == Max({e \in h.up .. Len(h.upper) :
                            \/ e < h.up + 1
                            \/ Cross(h.upper[e - 1], h.upper[e], p1) > 0})
         IN  [h EXCEPT !.rect[2] = h.lower[minI], !.rect[4] = p1, !.lo = minI,
                       !.upper = Append(SubSeq(@, 1, end), p1)]

\* p2 raises the flattest line, likewise.
CutMin(h, p2) ==
    IF ~Less(Minus(h.rect[3], h.rect[1]), Minus(p2, h.rect[1])) THEN h
    ELSE LET Val(i) == Minus(h.upper[i], p2)
             maxI == Min({i \in h.up .. Len(h.upper) :
                            \/ i = Len(h.upper)
                            \/ Less(Val(i + 1), Val(i))})
             end == Max({e \in h.lo .. Len(h.lower) :
                            \/ e < h.lo + 1
                            \/ Cross(h.lower[e - 1], h.lower[e], p2) < 0})
         IN  [h EXCEPT !.rect[1] = h.upper[maxI], !.rect[3] = p2, !.up = maxI,
                       !.lower = Append(SubSeq(@, 1, end), p2)]

\* add_point would return true, and the hull it leaves.
Fits(h, x, y, eps) ==
    h.num > 1 => ~Outside(h, Above(x, y, eps), Under(x, y, eps))
AddPoint(h, x, y, eps) ==
    LET p1 == Above(x, y, eps)
        p2 == Under(x, y, eps)
    IN  CASE h.num = 0 -> FirstPoint(p1, p2)
          [] h.num = 1 -> SecondPoint(h, p1, p2)
          [] OTHER -> [CutMin(CutMax(h, p1), p2) EXCEPT !.num = @ + 1]

\* get_segment and get_slope_intercept: the line through the intersection of
\* the two extreme lines whose slope is the mean of theirs, as the fractions
\* sn / sd and cn / cd.
Line(h) ==
    IF h.num = 1
    THEN [sn |-> 0, sd |-> 1, cn |-> (h.rect[1].y + h.rect[2].y) \div 2, cd |-> 1]
    ELSE LET s1 == Minus(h.rect[3], h.rect[1])
             s2 == Minus(h.rect[4], h.rect[2])
             sn == s1.dy * s2.dx + s2.dy * s1.dx
             sd == 2 * s1.dx * s2.dx
             p == h.rect[1]
             a == s1.dx * s2.dy - s1.dy * s2.dx
             d == Minus(h.rect[2], p)
             b == d.dx * s2.dy - d.dy * s2.dx
         IN  IF a = 0
             THEN [sn |-> sn, sd |-> sd, cn |-> p.y * sd - p.x * sn, cd |-> sd]
             ELSE [sn |-> sn, sd |-> sd, cd |-> a * sd,
                   cn |-> (p.y * a + b * s1.dy) * sd - (p.x * a + b * s1.dx) * sn]

\* Reference: some line passes within eps of every point (xs[i], i - 1).  The
\* steepest slope any two points force from below is at most the flattest any
\* two force from above.
Fittable(xs, eps) ==
    LET L(i) == Under(xs[i], i - 1, eps)
        U(i) == Above(xs[i], i - 1, eps)
    IN  \A b, d \in DOMAIN xs : \A a \in 1 .. b - 1, c \in 1 .. d - 1 :
            ~Less(Minus(U(d), L(c)), Minus(L(b), U(a)))
=============================================================================
