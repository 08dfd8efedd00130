--------------------------- MODULE CharMapProofs ---------------------------
(***************************************************************************)
(* Theorems about CharMap, for any number of accounts, characters, map     *)
(* servers and packets under way.                                          *)
(*                                                                         *)
(* What a map server and the char server have under way about an account   *)
(* is one queue: the requests the char server has not read (box f), behind *)
(* the answers the map server has not read (box t).  A session is loaded   *)
(* by requests of one kind and saved by requests of another, and the       *)
(* invariant says how the two kinds may follow each other in each stage of *)
(* the session: that is what keeps the acknowledgement of one session's    *)
(* save away from the next session.                                        *)
(***************************************************************************)
EXTENDS CharMap, CharServerProofs, SequenceTheorems

Entry   == {"auth", "registry"}
Leaving == {"leaving"}

\* What packet p, or its answer, is about to do for account a.
Kind(p, a) ==
  IF p.cmd \in {"auth_req", "auth_ok"} /\ p.aid = a THEN "auth"
  ELSE IF p.cmd = "registry" /\ p.aid = a THEN "registry"
  ELSE IF p.cmd = "save_ack" /\ p.aid = a THEN "leaving"
  ELSE IF p.cmd = "save" /\ p.final /\ p.aid = a THEN "leaving"
  ELSE "quiet"

\* Nothing of kinds K is under way.
Silent(K, f, t, a) == /\ \A i \in 1..Len(f) : Kind(f[i], a) \notin K
                      /\ \A i \in 1..Len(t) : Kind(t[i], a) \notin K

\* Nothing of kinds K comes after something of kinds L.
InOrder(K, L, f, t, a) ==
  /\ \A i, j \in 1..Len(f) : i < j /\ Kind(f[i], a) \in L => Kind(f[j], a) \notin K
  /\ \A i, j \in 1..Len(t) : i < j /\ Kind(t[i], a) \in L => Kind(t[j], a) \notin K
  /\ \A i \in 1..Len(t), j \in 1..Len(f) :
       Kind(t[i], a) \in L => Kind(f[j], a) \notin K

\* The last saves under way are those of session r, and what is acknowledged was
\* written.
Faithful(f, t, a, r, w) ==
  /\ \A i \in 1..Len(f) : Kind(f[i], a) = "leaving" =>
       f[i].char_id = r.ch /\ f[i].data = r.data
  /\ \A i \in 1..Len(t) : Kind(t[i], a) = "leaving" => r.data \subseteq w[r.ch]

\* The order of what is under way about a, whose session is r.
Orderly(f, t, a, r, w) ==
  /\ r.st \in {"none", "login"} => InOrder(Leaving, Entry, f, t, a)
  /\ r.st \in {"loaded", "world"} => Silent(Leaving, f, t, a)
  /\ r.st = "logout" => InOrder(Entry, Leaving, f, t, a) /\ Faithful(f, t, a, r, w)
  /\ Patient /\ r.st = "login" => Silent({"registry"}, f, t, a)

----------------------------------------------------------------------------
(* Boxes: what reading and writing one packet does to the order *)

\* Box u is box s with packets behind it that are nothing to a.
Extended(s, u, a) ==
  /\ Len(s) <= Len(u)
  /\ \A i \in 1..Len(s) : u[i] = s[i]
  /\ \A i \in (Len(s) + 1)..Len(u) : Kind(u[i], a) = "quiet"

LEMMA ExtendedSame ==
  ASSUME NEW S, NEW s \in Seq(S), NEW a
  PROVE  Extended(s, s, a)
  BY DEF Extended

LEMMA ExtendedAppend ==
  ASSUME NEW S, NEW s \in Seq(S), NEW a, NEW p \in S, Kind(p, a) = "quiet"
  PROVE  Extended(s, Append(s, p), a)
  BY DEF Extended

LEMMA ExtendedConcat ==
  ASSUME NEW S, NEW s \in Seq(S), NEW a, NEW q \in Seq(S),
         \A i \in 1..Len(q) : Kind(q[i], a) = "quiet"
  PROVE  Extended(s, s \o q, a)
<1>1. /\ Len(s \o q) = Len(s) + Len(q)
      /\ \A i \in 1..(Len(s) + Len(q)) :
           (s \o q)[i] = IF i <= Len(s) THEN s[i] ELSE q[i - Len(s)]
  BY ConcatProperties
<1>2. Len(s) \in Nat /\ Len(q) \in Nat
  OBVIOUS
<1>3. \A i \in (Len(s) + 1)..Len(s \o q) :
        (s \o q)[i] = q[i - Len(s)] /\ i - Len(s) \in 1..Len(q)
  BY <1>1, <1>2
<1> QED
  BY <1>1, <1>2, <1>3 DEF Extended

LEMMA ExtendedSpeaks ==
  ASSUME NEW S, NEW s \in Seq(S), NEW u \in Seq(S), NEW a, Extended(s, u, a),
         NEW i \in 1..Len(u), Kind(u[i], a) # "quiet"
  PROVE  i \in 1..Len(s) /\ u[i] = s[i]
<1>1. Len(s) \in Nat /\ Len(u) \in Nat
  OBVIOUS
<1>2. i \notin (Len(s) + 1)..Len(u)
  BY DEF Extended
<1>3. i \in 1..Len(s)
  BY <1>1, <1>2
<1> QED
  BY <1>3 DEF Extended

\* Two boxes, and two longer ones that say nothing more.
LEMMA OrderlyExtended ==
  ASSUME NEW S, NEW T, NEW f \in Seq(S), NEW g \in Seq(S), NEW t \in Seq(T),
         NEW u \in Seq(T), NEW a, NEW r, NEW w,
         Extended(f, g, a), Extended(t, u, a), Orderly(f, t, a, r, w)
  PROVE  Orderly(g, u, a, r, w)
<1>1. /\ \A i \in 1..Len(g) : Kind(g[i], a) # "quiet" => i \in 1..Len(f) /\ g[i] = f[i]
      /\ \A i \in 1..Len(u) : Kind(u[i], a) # "quiet" => i \in 1..Len(t) /\ u[i] = t[i]
  BY ExtendedSpeaks
<1>2. ASSUME NEW K \in {Entry, Leaving, {"registry"}}, Silent(K, f, t, a)
      PROVE  Silent(K, g, u, a)
  BY <1>1, <1>2 DEF Silent, Entry, Leaving
<1>3. ASSUME NEW K \in {Entry, Leaving}, NEW L \in {Entry, Leaving},
             InOrder(K, L, f, t, a)
      PROVE  InOrder(K, L, g, u, a)
  <2>1. "quiet" \notin K /\ "quiet" \notin L
    BY DEF Entry, Leaving
  <2> QED
    BY <1>1, <1>3, <2>1 DEF InOrder
<1>4. Faithful(f, t, a, r, w) => Faithful(g, u, a, r, w)
  BY <1>1 DEF Faithful
<1> QED
  BY <1>2, <1>3, <1>4 DEF Orderly

LEMMA OrderlyEmpty ==
  ASSUME NEW a, NEW r, NEW w
  PROVE  Orderly(<<>>, <<>>, a, r, w)
  BY DEF Orderly, InOrder, Silent, Faithful

\* The packet at the head of a box is read.
LEMMA SilentTail ==
  ASSUME NEW S, NEW T, NEW f \in Seq(S), NEW t \in Seq(T), NEW a, NEW K,
         Silent(K, f, t, a)
  PROVE  /\ f # <<>> => Silent(K, Tail(f), t, a)
         /\ t # <<>> => Silent(K, f, Tail(t), a)
  BY HeadTailProperties DEF Silent

LEMMA InOrderTail ==
  ASSUME NEW S, NEW T, NEW f \in Seq(S), NEW t \in Seq(T), NEW a, NEW K, NEW L,
         InOrder(K, L, f, t, a)
  PROVE  /\ f # <<>> => InOrder(K, L, Tail(f), t, a)
         /\ t # <<>> => InOrder(K, L, f, Tail(t), a)
<1>1. CASE f # <<>>
  <2>1. \A i \in 1..Len(Tail(f)) : i + 1 \in 1..Len(f) /\ Tail(f)[i] = f[i + 1]
    BY <1>1, HeadTailProperties
  <2> QED
    BY <2>1 DEF InOrder
<1>2. CASE t # <<>>
  <2>1. \A i \in 1..Len(Tail(t)) : i + 1 \in 1..Len(t) /\ Tail(t)[i] = t[i + 1]
    BY <1>2, HeadTailProperties
  <2> QED
    BY <2>1 DEF InOrder
<1> QED
  BY <1>1, <1>2

LEMMA FaithfulTail ==
  ASSUME NEW S, NEW T, NEW f \in Seq(S), NEW t \in Seq(T), NEW a, NEW r, NEW w,
         Faithful(f, t, a, r, w)
  PROVE  /\ f # <<>> => Faithful(Tail(f), t, a, r, w)
         /\ t # <<>> => Faithful(f, Tail(t), a, r, w)
  BY HeadTailProperties DEF Faithful

LEMMA OrderlyTail ==
  ASSUME NEW S, NEW T, NEW f \in Seq(S), NEW t \in Seq(T), NEW a, NEW r, NEW w,
         Orderly(f, t, a, r, w)
  PROVE  /\ f # <<>> => Orderly(Tail(f), t, a, r, w)
         /\ t # <<>> => Orderly(f, Tail(t), a, r, w)
  BY SilentTail, InOrderTail, FaithfulTail DEF Orderly

\* The head of box f is answered by p, which is of its kind or nothing to a.
LEMMA SilentMove ==
  ASSUME NEW S, NEW T, NEW f \in Seq(S), NEW t \in Seq(T), NEW a, NEW K,
         f # <<>>, NEW p \in T, Kind(p, a) \in {"quiet", Kind(Head(f), a)},
         "quiet" \notin K, Silent(K, f, t, a)
  PROVE  Silent(K, Tail(f), Append(t, p), a)
<1>1. \A i \in 1..Len(Append(t, p)) : Append(t, p)[i] = IF i <= Len(t) THEN t[i] ELSE p
  OBVIOUS
<1>2. Kind(Head(f), a) \notin K
  BY DEF Silent
<1>3. Silent(K, Tail(f), t, a)
  BY SilentTail
<1> QED
  BY <1>1, <1>2, <1>3 DEF Silent

LEMMA InOrderMove ==
  ASSUME NEW S, NEW T, NEW f \in Seq(S), NEW t \in Seq(T), NEW a, NEW K, NEW L,
         f # <<>>, NEW p \in T, Kind(p, a) \in {"quiet", Kind(Head(f), a)},
         "quiet" \notin K, "quiet" \notin L, InOrder(K, L, f, t, a)
  PROVE  InOrder(K, L, Tail(f), Append(t, p), a)
<1> DEFINE g == Tail(f)
           u == Append(t, p)
<1>1. /\ Len(u) = Len(t) + 1
      /\ \A i \in 1..Len(u) : u[i] = IF i <= Len(t) THEN t[i] ELSE p
  OBVIOUS
<1>2. \A i \in 1..Len(g) : i + 1 \in 1..Len(f) /\ g[i] = f[i + 1]
  BY HeadTailProperties
<1>3. InOrder(K, L, g, t, a)
  BY InOrderTail
<1>4. Head(f) = f[1] /\ 1 \in 1..Len(f)
  OBVIOUS
<1>5. ASSUME NEW j \in 1..Len(g), Kind(p, a) \in L
      PROVE  Kind(g[j], a) \notin K
  <2>1. Kind(f[1], a) \in L
    BY <1>4, <1>5
  <2>2. j + 1 \in 1..Len(f) /\ 1 < j + 1 /\ g[j] = f[j + 1]
    BY <1>2
  <2> QED
    BY <1>4, <2>1, <2>2 DEF InOrder
<1>6. ASSUME NEW i \in 1..Len(t), Kind(t[i], a) \in L
      PROVE  Kind(p, a) \notin K
  BY <1>4, <1>6 DEF InOrder
<1> HIDE DEF g, u
<1>7. ASSUME NEW i \in 1..Len(u), NEW j \in 1..Len(u), i < j, Kind(u[i], a) \in L
      PROVE  Kind(u[j], a) \notin K
  <2>1. CASE j <= Len(t)
    BY <1>1, <1>3, <1>7, <2>1 DEF InOrder
  <2>2. CASE j = Len(t) + 1
    BY <1>1, <1>6, <1>7, <2>2
  <2> QED
    BY <1>1, <1>7, <2>1, <2>2
<1>8. ASSUME NEW i \in 1..Len(u), NEW j \in 1..Len(g), Kind(u[i], a) \in L
      PROVE  Kind(g[j], a) \notin K
  <2>1. CASE i <= Len(t)
    BY <1>1, <1>3, <1>8, <2>1 DEF InOrder
  <2>2. CASE i = Len(t) + 1
    BY <1>1, <1>5, <1>8, <2>2
  <2> QED
    BY <1>1, <1>8, <2>1, <2>2
<1> QED
  BY <1>3, <1>7, <1>8 DEF InOrder, g, u

\* What is written grows.
LEMMA OrderlyWritten ==
  ASSUME NEW f, NEW t, NEW a, NEW r, NEW w, NEW v,
         r.st = "logout" => w[r.ch] \subseteq v[r.ch], Orderly(f, t, a, r, w)
  PROVE  Orderly(f, t, a, r, v)
  BY DEF Orderly, Faithful

LEMMA FaithfulMove ==
  ASSUME NEW S, NEW T, NEW f \in Seq(S), NEW t \in Seq(T), NEW a, NEW r, NEW w,
         f # <<>>, NEW p \in T, Kind(p, a) \in {"quiet", Kind(Head(f), a)},
         Kind(Head(f), a) = "leaving" => Head(f).data \subseteq w[Head(f).char_id],
         Faithful(f, t, a, r, w)
  PROVE  Faithful(Tail(f), Append(t, p), a, r, w)
<1>1. \A i \in 1..Len(Append(t, p)) : Append(t, p)[i] = IF i <= Len(t) THEN t[i] ELSE p
  OBVIOUS
<1>2. Faithful(Tail(f), t, a, r, w)
  BY FaithfulTail
<1>3. Head(f) = f[1] /\ 1 \in 1..Len(f)
  OBVIOUS
<1>4. Kind(p, a) = "leaving" => r.data \subseteq w[r.ch]
  BY <1>3 DEF Faithful
<1> QED
  BY <1>1, <1>2, <1>4 DEF Faithful

LEMMA OrderlyMove ==
  ASSUME NEW S, NEW T, NEW f \in Seq(S), NEW t \in Seq(T), NEW a, NEW r, NEW w,
         f # <<>>, NEW p \in T, Kind(p, a) \in {"quiet", Kind(Head(f), a)},
         Kind(Head(f), a) = "leaving" => Head(f).data \subseteq w[Head(f).char_id],
         Orderly(f, t, a, r, w)
  PROVE  Orderly(Tail(f), Append(t, p), a, r, w)
<1>1. "quiet" \notin Entry /\ "quiet" \notin Leaving /\ "quiet" \notin {"registry"}
  BY DEF Entry, Leaving
<1> QED
  BY <1>1, SilentMove, InOrderMove, FaithfulMove DEF Orderly

----------------------------------------------------------------------------
(* Sessions: what each change of stage needs of the order, and leaves *)

\* A packet is put behind box f.
LEMMA SilentSend ==
  ASSUME NEW S, NEW f \in Seq(S), NEW t, NEW a, NEW K, NEW p \in S,
         Kind(p, a) \notin K, Silent(K, f, t, a)
  PROVE  Silent(K, Append(f, p), t, a)
<1>1. \A i \in 1..Len(Append(f, p)) : Append(f, p)[i] = IF i <= Len(f) THEN f[i] ELSE p
  OBVIOUS
<1> QED
  BY <1>1 DEF Silent

LEMMA InOrderSend ==
  ASSUME NEW S, NEW T, NEW f \in Seq(S), NEW t \in Seq(T), NEW a, NEW K, NEW L,
         NEW p \in S, Kind(p, a) \notin K, InOrder(K, L, f, t, a)
  PROVE  InOrder(K, L, Append(f, p), t, a)
<1>1. /\ \A i \in 1..Len(Append(f, p)) :
           Append(f, p)[i] = IF i <= Len(f) THEN f[i] ELSE p
      /\ Len(Append(f, p)) = Len(f) + 1
  OBVIOUS
<1> HIDE DEF InOrder
<1>2. ASSUME NEW i \in 1..Len(Append(f, p)), NEW j \in 1..Len(Append(f, p)), i < j,
             Kind(Append(f, p)[i], a) \in L
      PROVE  Kind(Append(f, p)[j], a) \notin K
  <2>1. CASE j <= Len(f)
    BY <1>1, <1>2, <2>1 DEF InOrder
  <2>2. CASE j = Len(f) + 1
    BY <1>1, <2>2
  <2> QED
    BY <1>1, <2>1, <2>2
<1>3. /\ \A i, j \in 1..Len(t) : i < j /\ Kind(t[i], a) \in L => Kind(t[j], a) \notin K
      /\ \A i \in 1..Len(t), j \in 1..Len(f) :
           Kind(t[i], a) \in L => Kind(f[j], a) \notin K
  BY DEF InOrder
<1>4. ASSUME NEW i \in 1..Len(t), NEW j \in 1..Len(Append(f, p)), Kind(t[i], a) \in L
      PROVE  Kind(Append(f, p)[j], a) \notin K
  <2>1. CASE j <= Len(f)
    BY <1>1, <1>3, <1>4, <2>1
  <2>2. CASE j = Len(f) + 1
    BY <1>1, <2>2
  <2> QED
    BY <1>1, <2>1, <2>2
<1> DEFINE u == Append(f, p)
<1> HIDE DEF u
<1>5. /\ \A i, j \in 1..Len(u) : i < j /\ Kind(u[i], a) \in L => Kind(u[j], a) \notin K
      /\ \A i \in 1..Len(t), j \in 1..Len(u) :
           Kind(t[i], a) \in L => Kind(u[j], a) \notin K
  BY <1>2, <1>4 DEF u
<1>6. InOrder(K, L, u, t, a)
  BY <1>3, <1>5 DEF InOrder
<1> QED
  BY <1>6 DEF u

\* Whatever is silent is in order.
LEMMA SilentInOrder ==
  ASSUME NEW f, NEW t, NEW a, NEW K, NEW L
  PROVE  Silent(K, f, t, a) => InOrder(K, L, f, t, a) /\ InOrder(L, K, f, t, a)
  BY DEF Silent, InOrder

\* Behind the head of box t, if it is of kinds L, nothing of kinds K is left.
LEMMA HeadSilences ==
  ASSUME NEW S, NEW T, NEW f \in Seq(S), NEW t \in Seq(T), NEW a, NEW K, NEW L,
         t # <<>>, Kind(Head(t), a) \in L, InOrder(K, L, f, t, a)
  PROVE  Silent(K, f, Tail(t), a)
<1>1. \A i \in 1..Len(Tail(t)) : i + 1 \in 1..Len(t) /\ Tail(t)[i] = t[i + 1] /\ 1 < i + 1
  BY HeadTailProperties
<1>2. Head(t) = t[1] /\ 1 \in 1..Len(t)
  OBVIOUS
<1> QED
  BY <1>1, <1>2 DEF InOrder, Silent

\* A session begins (clif_parse_WantToConnection); ...
LEMMA SessionBegins ==
  ASSUME NEW S, NEW T, NEW f \in Seq(S), NEW t \in Seq(T), NEW a, NEW r, NEW q, NEW w,
         NEW p \in S, Orderly(f, t, a, r, w), r.st = "none",
         Kind(p, a) = "auth", q.st = "login",
         Patient => Silent({"registry"}, f, t, a)
  PROVE  Orderly(Append(f, p), t, a, q, w)
<1>1. InOrder(Leaving, Entry, Append(f, p), t, a)
  BY InOrderSend DEF Orderly, Leaving
<1>2. Patient => Silent({"registry"}, Append(f, p), t, a)
  BY SilentSend
<1> QED
  BY <1>1, <1>2 DEF Orderly

\* ... is loaded (chrif_authok); ...
LEMMA SessionLoaded ==
  ASSUME NEW S, NEW T, NEW f \in Seq(S), NEW t \in Seq(T), NEW a, NEW r, NEW q, NEW w,
         NEW p \in S, t # <<>>, Orderly(f, t, a, r, w), r.st \in {"login", "loaded"},
         Kind(Head(t), a) = "auth", Kind(p, a) \in {"registry", "quiet"},
         q.st = "loaded"
  PROVE  Orderly(Append(f, p), Tail(t), a, q, w)
<1>1. Silent(Leaving, f, Tail(t), a)
  BY HeadSilences, SilentTail DEF Orderly, Entry
<1>2. Silent(Leaving, Append(f, p), Tail(t), a)
  BY <1>1, SilentSend DEF Leaving
<1> QED
  BY <1>2 DEF Orderly

\* ... enters the world (pc_reg_received); ...
LEMMA SessionEnters ==
  ASSUME NEW S, NEW T, NEW f \in Seq(S), NEW t \in Seq(T), NEW a, NEW r, NEW q, NEW w,
         t # <<>>, Orderly(f, t, a, r, w), r.st \in {"login", "loaded"},
         Kind(Head(t), a) = "registry", q.st = "world"
  PROVE  Orderly(f, Tail(t), a, q, w)
<1>1. Silent(Leaving, f, Tail(t), a)
  BY HeadSilences, SilentTail DEF Orderly, Entry
<1> QED
  BY <1>1 DEF Orderly

\* ... is given up before that (auth_db_cleanup, chrif_authfail, a kick); ...
LEMMA SessionDropped ==
  ASSUME NEW f, NEW t, NEW a, NEW r, NEW q, NEW w,
         Orderly(f, t, a, r, w), r.st \in {"login", "loaded"}, q.st = "none"
  PROVE  Orderly(f, t, a, q, w)
  BY SilentInOrder DEF Orderly

\* ... goes on in the stage it is in; ...
LEMMA SessionGoesOn ==
  ASSUME NEW f, NEW t, NEW a, NEW r, NEW q, NEW w, Orderly(f, t, a, r, w),
         q.st = r.st, r.st = "logout" => q.ch = r.ch /\ q.data = r.data
  PROVE  Orderly(f, t, a, q, w)
<1>1. r.st = "logout" => Faithful(f, t, a, q, w)
  BY DEF Orderly, Faithful
<1> QED
  BY <1>1 DEF Orderly

\* ... quits (map_quit); ...
LEMMA SessionQuits ==
  ASSUME NEW S, NEW T, NEW f \in Seq(S), NEW t \in Seq(T), NEW a, NEW r, NEW q, NEW w,
         NEW p \in S, Orderly(f, t, a, r, w), r.st = "world", q.st = "logout",
         Kind(p, a) = "leaving", p.char_id = q.ch, p.data = q.data
  PROVE  Orderly(Append(f, p), t, a, q, w)
<1>1. Silent(Leaving, f, t, a)
  BY DEF Orderly
<1>2. InOrder(Entry, Leaving, Append(f, p), t, a)
  BY <1>1, SilentInOrder, InOrderSend DEF Entry
<1>3. \A i \in 1..Len(Append(f, p)) : Append(f, p)[i] = IF i <= Len(f) THEN f[i] ELSE p
  OBVIOUS
<1>4. Faithful(Append(f, p), t, a, q, w)
  BY <1>1, <1>3 DEF Faithful, Silent, Leaving
<1> QED
  BY <1>2, <1>4 DEF Orderly

\* ... is saved again (auth_db_cleanup); ...
LEMMA SessionSavedAgain ==
  ASSUME NEW S, NEW T, NEW f \in Seq(S), NEW t \in Seq(T), NEW a, NEW r, NEW w,
         NEW p \in S, Orderly(f, t, a, r, w), r.st = "logout",
         Kind(p, a) = "leaving", p.char_id = r.ch, p.data = r.data
  PROVE  Orderly(Append(f, p), t, a, r, w)
<1>1. InOrder(Entry, Leaving, Append(f, p), t, a)
  BY InOrderSend DEF Orderly, Entry
<1>2. \A i \in 1..Len(Append(f, p)) : Append(f, p)[i] = IF i <= Len(f) THEN f[i] ELSE p
  OBVIOUS
<1>3. Faithful(Append(f, p), t, a, r, w)
  BY <1>2 DEF Orderly, Faithful
<1> QED
  BY <1>1, <1>3 DEF Orderly

\* ... and ends with the acknowledgement (chrif_save_ack): it was written.
LEMMA SessionEnds ==
  ASSUME NEW S, NEW T, NEW f \in Seq(S), NEW t \in Seq(T), NEW a, NEW r, NEW q, NEW w,
         t # <<>>, Orderly(f, t, a, r, w), r.st = "logout",
         Kind(Head(t), a) = "leaving"
  PROVE  /\ r.data \subseteq w[r.ch]
         /\ q.st = "none" => Orderly(f, Tail(t), a, q, w)
<1>1. Silent(Entry, f, Tail(t), a)
  BY HeadSilences DEF Orderly, Leaving
<1>2. InOrder(Leaving, Entry, f, Tail(t), a)
  BY <1>1, SilentInOrder
<1>3. Head(t) = t[1] /\ 1 \in 1..Len(t)
  OBVIOUS
<1>4. r.data \subseteq w[r.ch]
  BY <1>3 DEF Orderly, Faithful
<1> QED
  BY <1>2, <1>4 DEF Orderly

----------------------------------------------------------------------------
(* The data that travels with auth_ok *)

Weight(p) == IF p.cmd = "auth_ok" THEN 1 ELSE 0

\* h counts the auth_ok packets of box t from the end.  There is as much data in c as
\* there are such packets, and the data of each is right: the pair is in Q.
Counts(h, t, c, Q) ==
  /\ h[1] = Len(c) /\ h[Len(t) + 1] = 0
  /\ \A i, j \in 1..(Len(t) + 1) : i <= j => h[j] <= h[i]
  /\ \A i \in 1..Len(t) :
       /\ h[i] = h[i + 1] + Weight(t[i])
       /\ t[i].cmd = "auth_ok" => <<t[i], c[Len(c) + 1 - h[i]]>> \in Q
Carries(t, c, Q) == \E h \in [1..(Len(t) + 1) -> Nat] : Counts(h, t, c, Q)

LEMMA CarriesEmpty ==
  ASSUME NEW Q PROVE Carries(<<>>, <<>>, Q)
<1> DEFINE h == [i \in 1..1 |-> 0]
<1>1. Len(<<>>) = 0 /\ 1..(0 + 1) = 1..1 /\ 1..0 = {} /\ 0 + 1 = 1
  OBVIOUS
<1>2. h \in [1..1 -> Nat] /\ h[1] = 0 /\ \A i \in 1..1 : h[i] = 0
  OBVIOUS
<1> HIDE DEF h
<1>3. Counts(h, <<>>, <<>>, Q)
  BY <1>1, <1>2 DEF Counts
<1> QED
  BY <1>1, <1>2, <1>3 DEF Carries

LEMMA CarriesExtended ==
  ASSUME NEW T, NEW t \in Seq(T), NEW u \in Seq(T), NEW c, NEW Q,
         Len(t) <= Len(u), \A i \in 1..Len(t) : u[i] = t[i],
         \A i \in (Len(t) + 1)..Len(u) : u[i].cmd # "auth_ok",
         Carries(t, c, Q)
  PROVE  Carries(u, c, Q)
<1>1. PICK h \in [1..(Len(t) + 1) -> Nat] : Counts(h, t, c, Q)
  BY DEF Carries
<1> DEFINE k == [i \in 1..(Len(u) + 1) |-> IF i <= Len(t) THEN h[i] ELSE 0]
<1>2. Len(t) \in Nat /\ Len(u) \in Nat
  OBVIOUS
<1>3. k \in [1..(Len(u) + 1) -> Nat]
  BY <1>2
<1>4. \A i \in 1..(Len(u) + 1) : k[i] = IF i <= Len(t) THEN h[i] ELSE 0
  OBVIOUS
<1> HIDE DEF k
<1>5. /\ h[1] = Len(c) /\ h[Len(t) + 1] = 0
      /\ \A i, j \in 1..(Len(t) + 1) : i <= j => h[j] <= h[i]
      /\ \A i \in 1..Len(t) :
           /\ h[i] = h[i + 1] + Weight(t[i])
           /\ t[i].cmd = "auth_ok" => <<t[i], c[Len(c) + 1 - h[i]]>> \in Q
  BY <1>1 DEF Counts
<1>6. k[1] = Len(c) /\ k[Len(u) + 1] = 0
  BY <1>2, <1>4, <1>5
<1>7. ASSUME NEW i \in 1..(Len(u) + 1), NEW j \in 1..(Len(u) + 1), i <= j
      PROVE  k[j] <= k[i]
  <2>1. k[i] \in Nat
    BY <1>3
  <2>2. CASE j <= Len(t)
    <3>1. i \in 1..(Len(t) + 1) /\ j \in 1..(Len(t) + 1) /\ i <= Len(t)
      BY <1>2, <1>7, <2>2
    <3> QED
      BY <1>4, <1>5, <1>7, <2>2, <3>1
  <2>3. CASE ~(j <= Len(t))
    BY <1>4, <2>1, <2>3
  <2> QED
    BY <2>2, <2>3
<1>8. ASSUME NEW i \in 1..Len(u)
      PROVE  /\ k[i] = k[i + 1] + Weight(u[i])
             /\ u[i].cmd = "auth_ok" => <<u[i], c[Len(c) + 1 - k[i]]>> \in Q
  <2>1. CASE i <= Len(t)
    <3>1. /\ i \in 1..Len(t) /\ i \in 1..(Len(u) + 1) /\ i + 1 \in 1..(Len(u) + 1)
          /\ i + 1 <= Len(t) \/ i = Len(t)
      BY <1>2, <2>1
    <3>2. k[i] = h[i] /\ k[i + 1] = h[i + 1] /\ u[i] = t[i]
      BY <1>4, <1>5, <2>1, <3>1
    <3> QED
      BY <1>5, <3>1, <3>2
  <2>2. CASE i > Len(t)
    <3>1. k[i] = 0 /\ k[i + 1] = 0 /\ Weight(u[i]) = 0 /\ u[i].cmd # "auth_ok"
      BY <1>2, <1>4, <2>2 DEF Weight
    <3> QED
      BY <3>1
  <2> QED
    BY <1>2, <2>1, <2>2
<1>9. Counts(k, u, c, Q)
  BY <1>6, <1>7, <1>8 DEF Counts
<1> QED
  BY <1>3, <1>9 DEF Carries

LEMMA Shifted ==
  ASSUME NEW x \in Int, NEW y \in Int
  PROVE  (x + 1) + 1 - (y + 1) = x + 1 - y
  OBVIOUS

LEMMA CarriesAppend ==
  ASSUME NEW T, NEW t \in Seq(T), NEW D, NEW c \in Seq(D), NEW p \in T, NEW d \in D,
         NEW Q, p.cmd = "auth_ok", <<p, d>> \in Q, Carries(t, c, Q)
  PROVE  Carries(Append(t, p), Append(c, d), Q)
<1>1. PICK h \in [1..(Len(t) + 1) -> Nat] : Counts(h, t, c, Q)
  BY DEF Carries
<1> DEFINE u == Append(t, p)
           e == Append(c, d)
           n == Len(t)
           k == [i \in 1..(n + 2) |-> IF i <= n + 1 THEN h[i] + 1 ELSE 0]
<1>2. /\ n \in Nat /\ Len(u) = n + 1 /\ Len(u) + 1 = n + 2
      /\ \A i \in 1..(n + 1) : u[i] = IF i <= n THEN t[i] ELSE p
      /\ Len(c) \in Nat /\ Len(e) = Len(c) + 1
      /\ \A i \in 1..(Len(c) + 1) : e[i] = IF i <= Len(c) THEN c[i] ELSE d
  OBVIOUS
<1>3. \A i \in 1..(n + 1) : h[i] \in Nat
  OBVIOUS
<1> HIDE DEF u, e
<1>4. \A i \in 1..(n + 2) : k[i] = IF i <= n + 1 THEN h[i] + 1 ELSE 0
  OBVIOUS
<1>5. k \in [1..(n + 2) -> Nat]
  <2> HIDE DEF n
  <2> QED
    BY <1>2, <1>3
<1>6. /\ h[1] = Len(c) /\ h[n + 1] = 0
      /\ \A i, j \in 1..(n + 1) : i <= j => h[j] <= h[i]
  BY <1>1 DEF Counts
<1>7. \A i \in 1..n :
        /\ h[i] = h[i + 1] + Weight(t[i])
        /\ t[i].cmd = "auth_ok" => <<t[i], c[Len(c) + 1 - h[i]]>> \in Q
  BY <1>1 DEF Counts
<1> HIDE DEF k, n
<1>8. k[1] = Len(e) /\ k[n + 2] = 0
  BY <1>2, <1>4, <1>6
<1>9. ASSUME NEW i \in 1..(n + 2), NEW j \in 1..(n + 2), i <= j
      PROVE  k[j] <= k[i]
  <2>1. k[i] \in Nat
    BY <1>5
  <2>2. CASE j <= n + 1
    <3>1. i \in 1..(n + 1) /\ j \in 1..(n + 1) /\ i <= n + 1
      BY <1>2, <1>9, <2>2
    <3>2. h[j] <= h[i] /\ h[i] \in Nat /\ h[j] \in Nat
      BY <1>3, <1>6, <1>9, <3>1
    <3>3. k[i] = h[i] + 1 /\ k[j] = h[j] + 1
      BY <1>4, <2>2, <3>1
    <3> QED
      BY <3>2, <3>3
  <2>3. CASE ~(j <= n + 1)
    BY <1>4, <2>1, <2>3
  <2> QED
    BY <2>2, <2>3
<1>10. ASSUME NEW i \in 1..(n + 1)
       PROVE  /\ k[i] = k[i + 1] + Weight(u[i])
              /\ u[i].cmd = "auth_ok" => <<u[i], e[Len(e) + 1 - k[i]]>> \in Q
  <2>1. CASE i <= n
    <3>0. /\ i \in 1..n /\ i \in 1..(n + 2) /\ i <= n + 1 /\ 1 <= i /\ 1 \in 1..(n + 1)
          /\ i \in 1..(n + 1)
          /\ i + 1 \in 1..(n + 1) /\ i + 1 \in 1..(n + 2) /\ i + 1 <= n + 1
      BY <1>2, <2>1
    <3>1. /\ i \in 1..n /\ k[i] = h[i] + 1 /\ k[i + 1] = h[i + 1] + 1
          /\ u[i] = t[i] /\ h[i + 1] \in Nat /\ h[i] \in Nat
      BY <1>2, <1>3, <1>4, <2>1, <3>0
    <3>2. h[i] = h[i + 1] + Weight(t[i]) /\ h[i] <= Len(c)
      BY <1>6, <1>7, <3>0, <3>1
    <3>3. Weight(t[i]) \in Nat
      BY DEF Weight
    <3>4. k[i] = k[i + 1] + Weight(u[i])
      <4> HIDE DEF Weight
      <4> QED
        BY <3>1, <3>2, <3>3
    <3>5. ASSUME u[i].cmd = "auth_ok"
          PROVE  <<u[i], e[Len(e) + 1 - k[i]]>> \in Q
      <4>1. Weight(t[i]) = 1
        BY <3>1, <3>5 DEF Weight
      <4>2. /\ Len(e) + 1 - k[i] = Len(c) + 1 - h[i]
            /\ Len(c) + 1 - h[i] \in 1..Len(c)
        <5>1. Len(e) = Len(c) + 1 /\ Len(c) \in Nat /\ h[i] \in 1..Len(c)
          BY <1>2, <3>1, <3>2, <4>1
        <5>2. k[i] = h[i] + 1 /\ h[i] \in Nat
          BY <3>1
        <5>3. Len(e) + 1 - k[i] = Len(c) + 1 - h[i]
          <6>1. Len(e) + 1 - k[i] = (Len(c) + 1) + 1 - (h[i] + 1)
            BY <5>1, <5>2
          <6>2. Len(c) \in Int /\ h[i] \in Int
            BY <5>1, <5>2
          <6> QED
            BY <6>1, <6>2, Shifted
        <5>4. Len(c) + 1 - h[i] \in 1..Len(c)
          BY <5>1
        <5> QED
          BY <5>3, <5>4
      <4>3. e[Len(c) + 1 - h[i]] = c[Len(c) + 1 - h[i]]
        BY <1>2, <4>2
      <4> QED
        BY <1>7, <3>0, <3>1, <3>5, <4>2, <4>3
    <3> QED
      BY <3>4, <3>5
  <2>2. CASE i = n + 1
    <3>0. i \in 1..(n + 2) /\ i + 1 \in 1..(n + 2) /\ ~(i + 1 <= n + 1) /\ ~(i <= n)
      BY <1>2, <2>2
    <3>1. k[i] = 1 /\ k[i + 1] = 0 /\ u[i] = p /\ Weight(u[i]) = 1
      BY <1>2, <1>4, <1>6, <2>2, <3>0 DEF Weight
    <3>2. e[Len(e) + 1 - k[i]] = d
      <4>1. Len(e) = Len(c) + 1 /\ Len(c) \in Nat /\ e[Len(c) + 1] = d
        BY <1>2
      <4>2. Len(e) + 1 - k[i] = Len(c) + 1
        BY <3>1, <4>1
      <4> QED
        BY <4>1, <4>2
    <3> QED
      BY <3>1, <3>2
  <2> QED
    BY <1>2, <2>1, <2>2
<1>11. Counts(k, u, e, Q)
  BY <1>2, <1>8, <1>9, <1>10 DEF Counts
<1> QED
  BY <1>2, <1>5, <1>11 DEF Carries, u, e

LEMMA CarriesTail ==
  ASSUME NEW T, NEW t \in Seq(T), NEW D, NEW c \in Seq(D), NEW Q, t # <<>>,
         Carries(t, c, Q)
  PROVE  IF Head(t).cmd = "auth_ok"
         THEN c # <<>> /\ Carries(Tail(t), Tail(c), Q) /\ <<Head(t), Head(c)>> \in Q
         ELSE Carries(Tail(t), c, Q)
<1>1. PICK h \in [1..(Len(t) + 1) -> Nat] : Counts(h, t, c, Q)
  BY DEF Carries
<1> DEFINE u == Tail(t)
           k == [i \in 1..(Len(u) + 1) |-> h[i + 1]]
<1>2. /\ Len(t) \in Nat /\ Len(t) > 0 /\ Len(u) = Len(t) - 1 /\ Head(t) = t[1]
      /\ \A i \in 1..Len(u) : u[i] = t[i + 1]
  BY HeadTailProperties
<1> HIDE DEF u
<1>3. /\ h[1] = Len(c) /\ h[Len(t) + 1] = 0
      /\ \A i, j \in 1..(Len(t) + 1) : i <= j => h[j] <= h[i]
      /\ \A i \in 1..Len(t) :
           /\ h[i] = h[i + 1] + Weight(t[i])
           /\ t[i].cmd = "auth_ok" => <<t[i], c[Len(c) + 1 - h[i]]>> \in Q
  BY <1>1 DEF Counts
<1>4. k \in [1..(Len(u) + 1) -> Nat] /\ \A i \in 1..(Len(u) + 1) : k[i] = h[i + 1]
  BY <1>2
<1> HIDE DEF k
<1>5. k[1] = h[2] /\ k[Len(u) + 1] = 0
  BY <1>2, <1>3, <1>4
<1>6. ASSUME NEW i \in 1..(Len(u) + 1), NEW j \in 1..(Len(u) + 1), i <= j
      PROVE  k[j] <= k[i]
  <2>1. /\ i + 1 \in 1..(Len(t) + 1) /\ j + 1 \in 1..(Len(t) + 1) /\ i + 1 <= j + 1
        /\ k[i] = h[i + 1] /\ k[j] = h[j + 1]
    BY <1>2, <1>4, <1>6
  <2> QED
    BY <1>3, <2>1
<1>7. h[2] \in Nat /\ Len(c) \in Nat /\ Len(c) = h[2] + Weight(Head(t))
  <2>1. 1 \in 1..Len(t) /\ 2 \in 1..(Len(t) + 1) /\ 1 + 1 = 2
    BY <1>2
  <2>2. h[1] = h[1 + 1] + Weight(t[1])
    BY <1>3, <2>1
  <2> QED
    BY <1>2, <1>3, <2>1, <2>2
<1>8. ASSUME NEW i \in 1..Len(u)
      PROVE  /\ i + 1 \in 1..Len(t) /\ u[i] = t[i + 1] /\ k[i] = h[i + 1]
             /\ k[i] = k[i + 1] + Weight(u[i]) /\ k[i + 1] \in Nat /\ k[i] <= h[2]
             /\ u[i].cmd = "auth_ok" => <<u[i], c[Len(c) + 1 - k[i]]>> \in Q
  <2>1. /\ i + 1 \in 1..Len(t) /\ u[i] = t[i + 1] /\ k[i] = h[i + 1]
        /\ k[i + 1] = h[(i + 1) + 1] /\ k[i + 1] \in Nat
    <3>1. i + 1 \in 1..Len(t) /\ i \in 1..(Len(u) + 1) /\ i + 1 \in 1..(Len(u) + 1)
      BY <1>2
    <3>2. u[i] = t[i + 1]
      BY <1>2
    <3>3. k[i] = h[i + 1]
      BY <1>4, <3>1
    <3>4. k[i + 1] = h[(i + 1) + 1]
      BY <1>4, <3>1
    <3>5. k[i + 1] \in Nat
      BY <1>4, <3>1
    <3> QED
      BY <3>1, <3>2, <3>3, <3>4, <3>5
  <2>2. k[i] <= h[2]
    <3>1. 2 \in 1..(Len(t) + 1) /\ 2 <= i + 1 /\ i + 1 \in 1..(Len(t) + 1)
      BY <1>2
    <3> QED
      BY <1>3, <2>1, <3>1
  <2> QED
    BY <1>3, <2>1, <2>2
<1>9. CASE Head(t).cmd = "auth_ok"
  <2>1. Len(c) = h[2] + 1
    BY <1>7, <1>9 DEF Weight
  <2>2. /\ c # <<>> /\ Len(Tail(c)) = h[2] /\ Head(c) = c[1]
        /\ \A i \in 1..Len(Tail(c)) : Tail(c)[i] = c[i + 1]
    BY <1>7, <2>1, HeadTailProperties
  <2>3. ASSUME NEW i \in 1..Len(u), u[i].cmd = "auth_ok"
        PROVE  <<u[i], Tail(c)[Len(Tail(c)) + 1 - k[i]]>> \in Q
    <3>1. k[i] \in 1..h[2]
      <4>1. Weight(u[i]) = 1
        BY <2>3 DEF Weight
      <4>2. k[i] = k[i + 1] + 1 /\ k[i + 1] \in Nat /\ k[i] <= h[2]
        BY <1>8, <4>1
      <4> QED
        BY <1>7, <4>2
    <3>2. /\ Len(Tail(c)) + 1 - k[i] \in 1..Len(Tail(c))
          /\ Len(Tail(c)) + 1 - k[i] + 1 = Len(c) + 1 - k[i]
      <4>1. k[i] \in Int /\ 1 <= k[i] /\ k[i] <= h[2] /\ Len(Tail(c)) = h[2]
        BY <1>7, <2>2, <3>1
      <4>2. Len(Tail(c)) + 1 - k[i] \in 1..Len(Tail(c))
        BY <1>7, <4>1
      <4>3. Len(Tail(c)) + 1 - k[i] + 1 = h[2] + 1 + 1 - k[i]
        BY <1>7, <4>1
      <4>4. Len(c) + 1 - k[i] = h[2] + 1 + 1 - k[i]
        BY <2>1
      <4> QED
        BY <4>2, <4>3, <4>4
    <3>3. Tail(c)[Len(Tail(c)) + 1 - k[i]] = c[Len(c) + 1 - k[i]]
      BY <2>2, <3>2
    <3> QED
      BY <1>8, <2>3, <3>3
  <2>4. Counts(k, u, Tail(c), Q)
    BY <1>5, <1>6, <1>8, <2>2, <2>3 DEF Counts
  <2>5. <<Head(t), Head(c)>> \in Q
    <3>1. 1 \in 1..Len(t) /\ Len(c) + 1 - h[1] = 1
      BY <1>2, <1>3, <1>7
    <3> QED
      BY <1>2, <1>3, <1>9, <2>2, <3>1
  <2> QED
    BY <1>4, <1>9, <2>2, <2>4, <2>5 DEF Carries, u
<1>10. CASE Head(t).cmd # "auth_ok"
  <2>1. Len(c) = h[2]
    BY <1>7, <1>10 DEF Weight
  <2>2. Counts(k, u, c, Q)
    BY <1>5, <1>6, <1>8, <2>1 DEF Counts
  <2> QED
    BY <1>4, <1>10, <2>2 DEF Carries, u
<1> QED
  BY <1>9, <1>10

\* What is right about the packets that are there may be said in other words.
LEMMA CarriesOther ==
  ASSUME NEW t, NEW c, NEW Q, NEW R, Carries(t, c, Q),
         \A i \in 1..Len(t) : \A d :
           t[i].cmd = "auth_ok" /\ <<t[i], d>> \in Q => <<t[i], d>> \in R
  PROVE  Carries(t, c, R)
<1>1. PICK h \in [1..(Len(t) + 1) -> Nat] : Counts(h, t, c, Q)
  BY DEF Carries
<1>2. Counts(h, t, c, R)
  BY <1>1 DEF Counts
<1> QED
  BY <1>2 DEF Carries

----------------------------------------------------------------------------
(* The invariant *)

\* Packets a map server writes: about its accounts and their own characters.
FromPacket ==
  [cmd : {"auth_req"}, aid : Accounts, char_id : Chars, login_id : LoginIds]
    \cup [cmd : {"registry", "offline"}, aid : Accounts, char_id : Chars]
    \cup [cmd : {"save"}, aid : Accounts, char_id : Chars, final : BOOLEAN,
          data : SUBSET (1..MaxEdits)]
    \cup [cmd : {"users"}, who : UNION {[S -> Chars] : S \in SUBSET Accounts}]
    \cup [cmd : {"select"}, aid : Accounts, login_id : LoginIds]
OwnPacket(p) ==
  /\ p.cmd \in {"auth_req", "registry", "offline", "save"} =>
       p.char_id \in CharsOf[p.aid]
  /\ p.cmd = "users" => \A a \in DOMAIN p.who : p.who[a] \in CharsOf[a]
MapsPacket == {p \in FromPacket : OwnPacket(p)}

Player == [st : Stages, ch : {NoChar} \cup Chars, id : {0} \cup LoginIds,
           client : {"on", "eof", "gone"}, auto : BOOLEAN,
           data : SUBSET (1..MaxEdits)]
PlayerOK(a, r) ==
  /\ r \in Player
  /\ r.st = "none" => r = Gone
  /\ r.st # "none" => r.ch \in CharsOf[a] /\ r.id \in LoginIds
  /\ r.st = "logout" => r.client = "gone"
  /\ r.st \in {"login", "loaded"} => r.client # "gone"

Place == [m : {-1} \cup Maps, ch : {NoChar} \cup Chars, id : {0} \cup LoginIds,
          tries : Nat]

PlayersOK == /\ pl \in [Maps -> [Accounts -> Player]]
             /\ \A m \in Maps, a \in Accounts : PlayerOK(a, pl[m][a])
DupOK     == dup \in [Maps -> [Accounts -> {NoChar} \cup Chars]]
SentOK    == /\ told \in [Accounts -> Place]
             /\ \A a \in Accounts : told[a].m \in Maps =>
                  told[a].ch \in CharsOf[a] /\ told[a].id \in LoginIds
StoreOK   == /\ db \in [Chars -> SUBSET (1..MaxEdits)]
             /\ written \in [Chars -> SUBSET (1..MaxEdits)]
CountsOK  == logins \in Nat /\ edits \in 0..MaxEdits
LetInOK   == \A fd \in Fds : sess[fd].auth => sess[fd].login_id \in LoginIds
BoxesOK   == /\ fromMap \in [Maps -> Seq(MapsPacket)]
             /\ \A m \in Maps : ~map_fd[m] => fromMap[m] = <<>>
\* All that is asked of the data here.
Anything  == MapPacket \X SUBSET (1..MaxEdits)
CargoOK   == /\ cargo \in [Maps -> Seq(SUBSET (1..MaxEdits))]
             /\ \A m \in Maps : IF map_fd[m] THEN Carries(toMap[m], cargo[m], Anything)
                                              ELSE cargo[m] = <<>>

\* What the map server will still read: nothing, over a link that is down.
Coming(m) == IF map_fd[m] THEN toMap[m] ELSE <<>>
OrderOK   == \A m \in Maps, a \in Accounts :
               Orderly(fromMap[m], Coming(m), a, pl[m][a], written)

TablesInv == CharInv /\ QueuesOK /\ LetInOK
CharMapInv == /\ TablesInv
              /\ PlayersOK /\ DupOK /\ SentOK /\ StoreOK /\ CountsOK
              /\ BoxesOK /\ CargoOK /\ OrderOK

\* What a step may do to a session: a last save is forgotten when it was written,
\* the world is entered by who was loaded.
Honest(r, q, w) ==
  /\ r.st = "logout" /\ q.st # "logout" => r.data \subseteq w[r.ch]
  /\ Patient /\ r.st # "world" /\ q.st = "world" => r.st = "loaded"
AllHonest == \A m \in Maps, a \in Accounts : Honest(pl[m][a], pl'[m][a], written)

LEMMA InvTypes ==
  ASSUME CharMapInv
  PROVE  /\ map_fd \in [Maps -> BOOLEAN]
         /\ \A m \in Maps : /\ fromMap[m] \in Seq(MapsPacket)
                            /\ toMap[m] \in Seq(MapPacket)
                            /\ Coming(m) \in Seq(MapPacket)
                            /\ cargo[m] \in Seq(SUBSET (1..MaxEdits))
         /\ \A m \in Maps, a \in Accounts :
              pl[m][a] \in Player /\ PlayerOK(a, pl[m][a])
<1>1. <<>> \in Seq(MapPacket)
  OBVIOUS
<1> QED
  BY <1>1 DEF CharMapInv, TablesInv, CharInv, QueuesOK, BoxesOK, CargoOK, PlayersOK, Coming

\* One session changes.
LEMMA OnePlayer ==
  ASSUME PlayersOK, NEW m \in Maps, NEW a \in Accounts, NEW q, Becomes(m, a, q),
         PlayerOK(a, q), Honest(pl[m][a], q, written)
  PROVE  /\ PlayersOK'
         /\ AllHonest
         /\ pl'[m][a] = q
         /\ \A n \in Maps, b \in Accounts : <<n, b>> # <<m, a>> => pl'[n][b] = pl[n][b]
<1>1. q \in Player
  BY DEF PlayerOK
<1>2. /\ pl'[m][a] = q
      /\ \A n \in Maps, b \in Accounts : <<n, b>> # <<m, a>> => pl'[n][b] = pl[n][b]
  BY DEF PlayersOK, Becomes
<1>3. pl' \in [Maps -> [Accounts -> Player]]
  BY <1>1 DEF PlayersOK, Becomes
<1>4. PlayersOK'
  <2> SUFFICES ASSUME NEW n \in Maps, NEW b \in Accounts PROVE PlayerOK(b, pl'[n][b])
    BY <1>3 DEF PlayersOK, PlayerOK
  <2> QED
    BY <1>2 DEF PlayersOK
<1>5. AllHonest
  BY <1>2 DEF AllHonest, Honest
<1> QED
  BY <1>2, <1>4, <1>5

\* One session changes, with the boxes between its server and the char server.
LEMMA OrderStep ==
  ASSUME CharMapInv, NEW m \in Maps, NEW a \in Accounts, NEW q,
         NEW g, NEW u,
         \A n \in Maps \ {m} : fromMap'[n] = fromMap[n] /\ Coming(n)' = Coming(n),
         fromMap'[m] = g, Coming(m)' = u, UNCHANGED written,
         pl'[m][a] = q,
         \A n \in Maps, b \in Accounts : <<n, b>> # <<m, a>> => pl'[n][b] = pl[n][b],
         Orderly(g, u, a, q, written),
         \A b \in Accounts \ {a} : Orderly(g, u, b, pl[m][b], written)
  PROVE  OrderOK'
<1> SUFFICES ASSUME NEW n \in Maps, NEW b \in Accounts
             PROVE  Orderly(fromMap'[n], Coming(n)', b, pl'[n][b], written')
  BY DEF OrderOK
<1>1. CASE n # m
  BY <1>1 DEF CharMapInv, OrderOK
<1>2. CASE n = m /\ b # a
  BY <1>2
<1>3. CASE n = m /\ b = a
  BY <1>3
<1> QED
  BY <1>1, <1>2, <1>3

\* What nobody touches stays right.
LEMMA SameTablesInv ==
  ASSUME CharMapInv, UNCHANGED char_vars
  PROVE  TablesInv' /\ \A n : Coming(n)' = Coming(n)
<1>1. CharInv'
  BY CharStepOK DEF CharMapInv, TablesInv, char_vars, record_vars
<1>2. QueuesOK'
  BY QueuesStep DEF CharMapInv, TablesInv
<1>3. LetInOK'
  BY DEF CharMapInv, TablesInv, LetInOK, char_vars
<1> QED
  BY <1>1, <1>2, <1>3 DEF TablesInv, Coming, char_vars

\* Packet p is about account a, or about nobody.
About(a, p) == \A b \in Accounts \ {a} : Kind(p, b) = "quiet"

\* A map server writes packet p, or nothing without a link.
LEMMA SendsOK ==
  ASSUME CharMapInv, NEW m \in Maps, NEW p \in MapsPacket, Sends(m, p),
         UNCHANGED map_fd
  PROVE  /\ BoxesOK'
         /\ \A n \in Maps \ {m} : fromMap'[n] = fromMap[n]
         /\ fromMap'[m] = IF Linked(m) THEN Append(fromMap[m], p) ELSE <<>>
<1>1. BoxesOK /\ map_fd \in [Maps -> BOOLEAN] /\ fromMap[m] \in Seq(MapsPacket)
  BY InvTypes DEF CharMapInv
<1>2. Append(fromMap[m], p) \in Seq(MapsPacket)
  BY <1>1
<1> QED
  BY <1>1, <1>2 DEF BoxesOK, Sends, Linked

\* What a client or the server's own timers make a map server do: session a of m
\* becomes q, and one packet may be written.
LEMMA MapSide ==
  ASSUME CharMapInv, NEW m \in Maps, NEW a \in Accounts, NEW q,
         Becomes(m, a, q), PlayerOK(a, q), Honest(pl[m][a], q, written),
         MapSideOnly, DupOK', SentOK', CountsOK',
         \/ /\ UNCHANGED fromMap
            /\ Linked(m) => Orderly(fromMap[m], toMap[m], a, q, written)
         \/ \E p \in MapsPacket :
              /\ Sends(m, p) /\ About(a, p)
              /\ Linked(m) => Orderly(Append(fromMap[m], p), toMap[m], a, q, written)
  PROVE  CharMapInv' /\ AllHonest
<1> USE DEF MapSideOnly
<1>1. TablesInv' /\ \A n : Coming(n)' = Coming(n)
  BY SameTablesInv
<1>2. /\ PlayersOK' /\ AllHonest /\ pl'[m][a] = q
      /\ \A n \in Maps, b \in Accounts : <<n, b>> # <<m, a>> => pl'[n][b] = pl[n][b]
  BY OnePlayer DEF CharMapInv
<1>3. StoreOK' /\ CargoOK'
  BY DEF CharMapInv, StoreOK, CargoOK, char_vars
<1>4. UNCHANGED <<map_fd, written>>
  BY DEF char_vars
<1>5. \A b \in Accounts : Orderly(fromMap[m], Coming(m), b, pl[m][b], written)
  BY DEF CharMapInv, OrderOK
<1>6. Linked(m) => Coming(m) = toMap[m]
  BY DEF Coming, Linked
<1>7. ~Linked(m) => Coming(m) = <<>> /\ fromMap[m] = <<>>
  BY DEF Coming, Linked, CharMapInv, BoxesOK
<1>8. CASE /\ UNCHANGED fromMap
           /\ Linked(m) => Orderly(fromMap[m], toMap[m], a, q, written)
  <2>1. Orderly(fromMap[m], Coming(m), a, q, written)
    BY <1>6, <1>7, <1>8, OrderlyEmpty
  <2>2. OrderOK'
    BY <1>1, <1>2, <1>4, <1>5, <1>8, <2>1, OrderStep
  <2>3. BoxesOK'
    BY <1>4, <1>8 DEF CharMapInv, BoxesOK
  <2> QED
    BY <1>1, <1>2, <1>3, <2>2, <2>3 DEF CharMapInv
<1>9. CASE \E p \in MapsPacket :
              /\ Sends(m, p) /\ About(a, p)
              /\ Linked(m) => Orderly(Append(fromMap[m], p), toMap[m], a, q, written)
  <2> PICK p \in MapsPacket :
              /\ Sends(m, p) /\ About(a, p)
              /\ Linked(m) => Orderly(Append(fromMap[m], p), toMap[m], a, q, written)
    BY <1>9
  <2>1. /\ BoxesOK'
        /\ \A n \in Maps \ {m} : fromMap'[n] = fromMap[n]
        /\ fromMap'[m] = IF Linked(m) THEN Append(fromMap[m], p) ELSE <<>>
    BY <1>4, SendsOK
  <2>2. Orderly(fromMap'[m], Coming(m), a, q, written)
    BY <1>6, <1>7, <2>1, OrderlyEmpty
  <2>3. ASSUME NEW b \in Accounts \ {a}
        PROVE  Orderly(fromMap'[m], Coming(m), b, pl[m][b], written)
    <3>1. CASE Linked(m)
      <4>1. fromMap[m] \in Seq(MapsPacket) /\ Coming(m) \in Seq(MapPacket)
        BY InvTypes
      <4>2. Append(fromMap[m], p) \in Seq(MapsPacket)
        BY <4>1
      <4>3. Extended(fromMap[m], Append(fromMap[m], p), b)
        BY <4>1, <2>3, ExtendedAppend DEF About
      <4>4. Extended(Coming(m), Coming(m), b)
        BY <4>1, ExtendedSame
      <4> QED
        BY <1>5, <2>1, <3>1, <4>1, <4>2, <4>3, <4>4, OrderlyExtended
    <3>2. CASE ~Linked(m)
      BY <1>7, <2>1, <3>2, OrderlyEmpty
    <3> QED
      BY <3>1, <3>2
  <2>4. OrderOK'
    BY <1>1, <1>2, <1>4, <2>1, <2>2, <2>3, OrderStep
  <2> QED
    BY <1>1, <1>2, <1>3, <2>1, <2>4 DEF CharMapInv
<1> QED
  BY <1>8, <1>9

----------------------------------------------------------------------------
(* Map servers on their own: one lemma per action *)

LEMMA Written ==
  ASSUME PlayersOK, NEW m \in Maps, NEW a \in Accounts, pl[m][a].st # "none"
  PROVE  /\ OfflineOf(m, a) \in MapsPacket
         /\ \A b : Kind(OfflineOf(m, a), b) = "quiet"
         /\ \A final \in BOOLEAN : /\ SaveOf(m, a, final) \in MapsPacket
                                   /\ About(a, SaveOf(m, a, final))
         /\ \A b : Kind(SaveOf(m, a, FALSE), b) = "quiet"
         /\ Kind(SaveOf(m, a, TRUE), a) = "leaving"
         /\ SaveOf(m, a, TRUE).char_id = pl[m][a].ch
         /\ SaveOf(m, a, TRUE).data = pl[m][a].data
<1>1. /\ pl[m][a].ch \in CharsOf[a] /\ pl[m][a].ch \in Chars
      /\ pl[m][a].data \in SUBSET (1..MaxEdits)
  BY CharCodes DEF PlayersOK, PlayerOK, Player
<1>2. OfflineOf(m, a) \in MapsPacket
  BY <1>1 DEF OfflineOf, MapsPacket, FromPacket, OwnPacket
<1>3. \A final \in BOOLEAN : SaveOf(m, a, final) \in MapsPacket
  BY <1>1 DEF SaveOf, MapsPacket, FromPacket, OwnPacket
<1>4. /\ \A b : Kind(OfflineOf(m, a), b) = "quiet"
      /\ \A final \in BOOLEAN : About(a, SaveOf(m, a, final))
      /\ \A b : Kind(SaveOf(m, a, FALSE), b) = "quiet"
      /\ Kind(SaveOf(m, a, TRUE), a) = "leaving"
      /\ SaveOf(m, a, TRUE).char_id = pl[m][a].ch
      /\ SaveOf(m, a, TRUE).data = pl[m][a].data
  BY DEF OfflineOf, SaveOf, Kind, About
<1> QED
  BY <1>2, <1>3, <1>4

\* Facts every handler of a map server starts from.
LEMMA MapFacts ==
  ASSUME CharMapInv, NEW m \in Maps, NEW a \in Accounts
  PROVE  /\ PlayerOK(a, pl[m][a]) /\ pl[m][a] \in Player
         /\ fromMap[m] \in Seq(MapsPacket) /\ toMap[m] \in Seq(MapPacket)
         /\ Linked(m) => Orderly(fromMap[m], toMap[m], a, pl[m][a], written)
         /\ UNCHANGED pl => Becomes(m, a, pl[m][a])
         /\ Honest(pl[m][a], pl[m][a], written)
         /\ Gone \in Player /\ PlayerOK(a, Gone) /\ Gone.st = "none"
<1>1. /\ PlayerOK(a, pl[m][a]) /\ pl[m][a] \in Player
      /\ fromMap[m] \in Seq(MapsPacket) /\ toMap[m] \in Seq(MapPacket)
  BY InvTypes
<1>2. Linked(m) => Orderly(fromMap[m], toMap[m], a, pl[m][a], written)
  BY DEF CharMapInv, OrderOK, Coming, Linked
<1>3. UNCHANGED pl => Becomes(m, a, pl[m][a])
  BY DEF CharMapInv, PlayersOK, Becomes
<1>4. Gone \in Player /\ PlayerOK(a, Gone) /\ Gone.st = "none"
  BY DEF Gone, Player, PlayerOK, Stages
<1>5. Honest(pl[m][a], pl[m][a], written)
  BY DEF Honest
<1> QED
  BY <1>1, <1>2, <1>3, <1>4, <1>5

\* A session that is not in the world yet is given up.
LEMMA Deleted ==
  ASSUME CharMapInv, NEW m \in Maps, NEW a \in Accounts, LoggingIn(m, a)
  PROVE  /\ Honest(pl[m][a], Gone, written)
         /\ \A f, t : Orderly(f, t, a, pl[m][a], written)
                        => Orderly(f, t, a, Gone, written)
<1>1. Gone.st = "none"
  BY MapFacts
<1>2. pl[m][a].st \in {"login", "loaded"}
  BY DEF LoggingIn
<1> QED
  BY <1>1, <1>2, SessionDropped DEF Honest

LEMMA DupClosesOK ==
  ASSUME CharMapInv, NEW m \in Maps, NEW a \in Accounts, DupCloses(m, a)
  PROVE  CharMapInv' /\ AllHonest
<1>1. /\ MapSideOnly /\ UNCHANGED <<fromMap, told, edits, split>>
      /\ dup' = [dup EXCEPT ![m][a] = NoChar]
  BY DEF DupCloses
<1>2. \/ UNCHANGED pl
      \/ LoggingIn(m, a) /\ Becomes(m, a, Gone)
  BY DEF DupCloses, AuthDelete
<1>3. DupOK'
  BY <1>1 DEF CharMapInv, DupOK
<1>4. SentOK' /\ CountsOK'
  BY <1>1 DEF CharMapInv, SentOK, CountsOK, MapSideOnly
<1>5. CASE UNCHANGED pl
  BY <1>1, <1>3, <1>4, <1>5, MapFacts, MapSide
<1>6. CASE LoggingIn(m, a) /\ Becomes(m, a, Gone)
  BY <1>1, <1>3, <1>4, <1>6, MapFacts, Deleted, MapSide
<1> QED
  BY <1>2, <1>5, <1>6

LEMMA EditOK ==
  ASSUME CharMapInv, NEW m \in Maps, NEW a \in Accounts, Edit(m, a)
  PROVE  CharMapInv' /\ AllHonest
<1> DEFINE r == pl[m][a]
           q == [r EXCEPT !.data = @ \cup {edits + 1}]
<1>1. /\ MapSideOnly /\ UNCHANGED <<fromMap, dup, told>> /\ Becomes(m, a, q)
      /\ edits' = edits + 1 /\ edits < MaxEdits /\ r.st = "world"
  BY DEF Edit
<1>2. edits + 1 \in 1..MaxEdits /\ edits + 1 \in 0..MaxEdits
  BY <1>1, BoundAssumption DEF CharMapInv, CountsOK
<1>3. DupOK' /\ SentOK' /\ CountsOK'
  BY <1>1, <1>2 DEF CharMapInv, DupOK, SentOK, CountsOK, MapSideOnly
<1>4. PlayerOK(a, r) /\ r \in Player
  BY MapFacts
<1>5. q \in Player /\ q.st = "world" /\ q.ch = r.ch /\ q.id = r.id
  BY <1>1, <1>2, <1>4 DEF Player
<1> HIDE DEF q
<1>6. PlayerOK(a, q)
  BY <1>1, <1>4, <1>5 DEF PlayerOK
<1>7. Honest(r, q, written)
  BY <1>1, <1>5 DEF Honest
<1>8. Linked(m) => Orderly(fromMap[m], toMap[m], a, q, written)
  BY <1>1, <1>5, MapFacts, SessionGoesOn
<1> QED
  BY <1>1, <1>3, <1>6, <1>7, <1>8, MapSide

\* The client of a session in the world comes and goes.
LEMMA ClientChanges ==
  ASSUME CharMapInv, NEW m \in Maps, NEW a \in Accounts, pl[m][a].st = "world",
         NEW q, q \in {[pl[m][a] EXCEPT !.client = "eof"],
                       [pl[m][a] EXCEPT !.client = "gone"],
                       [pl[m][a] EXCEPT !.auto = TRUE, !.client = "eof"]}
  PROVE  /\ PlayerOK(a, q) /\ Honest(pl[m][a], q, written)
         /\ \A f, t : Orderly(f, t, a, pl[m][a], written) => Orderly(f, t, a, q, written)
<1>1. PlayerOK(a, pl[m][a]) /\ pl[m][a] \in Player
  BY MapFacts
<1>2. q \in Player /\ q.st = "world" /\ q.ch = pl[m][a].ch /\ q.id = pl[m][a].id
  BY <1>1 DEF Player
<1>3. PlayerOK(a, q)
  BY <1>1, <1>2 DEF PlayerOK
<1> QED
  BY <1>2, <1>3, SessionGoesOn DEF Honest

LEMMA PlayerAloneFacts ==
  ASSUME CharMapInv, PlayerAlone
  PROVE  MapSideOnly /\ DupOK' /\ SentOK' /\ CountsOK'
  BY DEF PlayerAlone, MapSideOnly, CharMapInv, DupOK, SentOK, CountsOK

LEMMA AutotradeOK ==
  ASSUME CharMapInv, NEW m \in Maps, NEW a \in Accounts, Autotrade(m, a)
  PROVE  CharMapInv' /\ AllHonest
<1> DEFINE q == [pl[m][a] EXCEPT !.auto = TRUE, !.client = "eof"]
<1>1. PlayerAlone /\ UNCHANGED fromMap /\ Becomes(m, a, q) /\ pl[m][a].st = "world"
  BY DEF Autotrade
<1>2. /\ PlayerOK(a, q) /\ Honest(pl[m][a], q, written)
      /\ Linked(m) => Orderly(fromMap[m], toMap[m], a, q, written)
  BY <1>1, ClientChanges, MapFacts
<1> HIDE DEF q
<1> QED
  BY <1>1, <1>2, PlayerAloneFacts, MapSide

\* Session a goes on and writes a packet that is nothing to anybody.
LEMMA QuietSend ==
  ASSUME CharMapInv, NEW m \in Maps, NEW a \in Accounts, PlayerAlone, UNCHANGED pl,
         NEW p \in MapsPacket, Sends(m, p), \A b : Kind(p, b) = "quiet"
  PROVE  CharMapInv' /\ AllHonest
<1>1. fromMap[m] \in Seq(MapsPacket) /\ toMap[m] \in Seq(MapPacket)
  BY MapFacts
<1>2. /\ Append(fromMap[m], p) \in Seq(MapsPacket)
      /\ Extended(fromMap[m], Append(fromMap[m], p), a)
      /\ Extended(toMap[m], toMap[m], a)
  BY <1>1, ExtendedAppend, ExtendedSame
<1>3. Linked(m) => Orderly(Append(fromMap[m], p), toMap[m], a, pl[m][a], written)
  BY <1>1, <1>2, MapFacts, OrderlyExtended
<1>4. About(a, p)
  BY DEF About
<1> QED
  BY <1>3, <1>4, MapFacts, PlayerAloneFacts, MapSide

LEMMA RestartOK ==
  ASSUME CharMapInv, NEW m \in Maps, NEW a \in Accounts, Restart(m, a)
  PROVE  CharMapInv' /\ AllHonest
<1> DEFINE p == [cmd |-> "select", aid |-> a, login_id |-> pl[m][a].id]
<1>1. Sends(m, p) /\ PlayerAlone /\ UNCHANGED pl /\ pl[m][a].st = "world"
  BY DEF Restart
<1>2. pl[m][a].id \in LoginIds
  BY <1>1, MapFacts DEF PlayerOK
<1>3. p \in MapsPacket /\ \A b : Kind(p, b) = "quiet"
  BY <1>2 DEF MapsPacket, FromPacket, OwnPacket, Kind
<1> HIDE DEF p
<1> QED
  BY <1>1, <1>3, QuietSend

LEMMA AutoSaveOK ==
  ASSUME CharMapInv, NEW m \in Maps, NEW a \in Accounts, AutoSave(m, a)
  PROVE  CharMapInv' /\ AllHonest
<1>1. Sends(m, SaveOf(m, a, FALSE)) /\ PlayerAlone /\ UNCHANGED pl
  BY DEF AutoSave
<1>2. pl[m][a].st # "none"
  BY DEF AutoSave
<1>3. /\ SaveOf(m, a, FALSE) \in MapsPacket
      /\ \A b : Kind(SaveOf(m, a, FALSE), b) = "quiet"
  BY <1>2, Written DEF CharMapInv
<1> QED
  BY <1>1, <1>3, QuietSend

\* map_quit: what is left behind is PlayerOK, and the save is behind the box.
LEMMA QuitFacts ==
  ASSUME CharMapInv, NEW m \in Maps, NEW a \in Accounts, pl[m][a].st = "world"
  PROVE  \E q : /\ Quit(m, a) => Becomes(m, a, q) /\ Sends(m, SaveOf(m, a, TRUE))
                /\ PlayerOK(a, q) /\ Honest(pl[m][a], q, written)
                /\ q.st = "logout" /\ q.ch = pl[m][a].ch /\ q.data = pl[m][a].data
<1> DEFINE r == pl[m][a]
           q == [r EXCEPT !.st = "logout", !.client = "gone", !.auto = FALSE]
<1>1. Quit(m, a) => Becomes(m, a, q) /\ Sends(m, SaveOf(m, a, TRUE))
  BY DEF Quit
<1>2. PlayerOK(a, r) /\ r \in Player
  BY MapFacts
<1>3. /\ q \in Player /\ q.st = "logout" /\ q.ch = r.ch /\ q.id = r.id
      /\ q.client = "gone" /\ q.data = r.data
  BY <1>2 DEF Player, Stages
<1> HIDE DEF q
<1>4. PlayerOK(a, q) /\ Honest(r, q, written)
  BY <1>2, <1>3 DEF PlayerOK, Honest
<1> QED
  BY <1>1, <1>3, <1>4

LEMMA QuitOK ==
  ASSUME CharMapInv, NEW m \in Maps, NEW a \in Accounts, pl[m][a].st = "world",
         Quit(m, a), PlayerAlone
  PROVE  CharMapInv' /\ AllHonest
<1>1. PICK q : /\ Becomes(m, a, q) /\ Sends(m, SaveOf(m, a, TRUE))
               /\ PlayerOK(a, q) /\ Honest(pl[m][a], q, written)
               /\ q.st = "logout" /\ q.ch = pl[m][a].ch /\ q.data = pl[m][a].data
  BY QuitFacts
<1> DEFINE p == SaveOf(m, a, TRUE)
<1>2. /\ p \in MapsPacket /\ About(a, p) /\ Kind(p, a) = "leaving"
      /\ p.char_id = q.ch /\ p.data = q.data
  BY <1>1, Written DEF CharMapInv
<1> HIDE DEF p
<1>3. Linked(m) => Orderly(Append(fromMap[m], p), toMap[m], a, q, written)
  BY <1>1, <1>2, MapFacts, SessionQuits
<1> QED
  BY <1>1, <1>2, <1>3, PlayerAloneFacts, MapSide DEF p

\* A session that was not in the world is deleted, and nothing is written.
LEMMA DeleteOK ==
  ASSUME CharMapInv, NEW m \in Maps, NEW a \in Accounts, LoggingIn(m, a),
         AuthDelete(m, a), UNCHANGED fromMap, PlayerAlone
  PROVE  CharMapInv' /\ AllHonest
  BY MapFacts, Deleted, PlayerAloneFacts, MapSide DEF AuthDelete

LEMMA ParseEofOK ==
  ASSUME CharMapInv, NEW m \in Maps, NEW a \in Accounts, ParseEof(m, a)
  PROVE  CharMapInv' /\ AllHonest
<1>1. PlayerAlone
  BY DEF ParseEof
<1>2. CASE LoggingIn(m, a) /\ AuthDelete(m, a) /\ UNCHANGED fromMap
  BY <1>1, <1>2, DeleteOK
<1>3. CASE pl[m][a].st = "world" /\ Quit(m, a)
  BY <1>1, <1>3, QuitOK
<1>4. CASE /\ pl[m][a].st = "world"
           /\ Becomes(m, a, [pl[m][a] EXCEPT !.client = "gone"])
           /\ UNCHANGED fromMap
  <2> DEFINE q == [pl[m][a] EXCEPT !.client = "gone"]
  <2>1. /\ PlayerOK(a, q) /\ Honest(pl[m][a], q, written)
        /\ Linked(m) => Orderly(fromMap[m], toMap[m], a, q, written)
    BY <1>4, ClientChanges, MapFacts
  <2>2. Becomes(m, a, q) /\ UNCHANGED fromMap
    BY <1>4
  <2> HIDE DEF q
  <2> QED
    BY <1>1, <2>1, <2>2, PlayerAloneFacts, MapSide
<1> QED
  BY <1>2, <1>3, <1>4 DEF ParseEof

LEMMA DelayQuitOK ==
  ASSUME CharMapInv, NEW m \in Maps, NEW a \in Accounts, DelayQuit(m, a)
  PROVE  CharMapInv' /\ AllHonest
  BY QuitOK DEF DelayQuit

LEMMA AuthDbCleanupOK ==
  ASSUME CharMapInv, NEW m \in Maps, NEW a \in Accounts, AuthDbCleanup(m, a)
  PROVE  CharMapInv' /\ AllHonest
<1>1. PlayerAlone
  BY DEF AuthDbCleanup
<1>2. CASE /\ pl[m][a].st = "logout"
           /\ Sends(m, SaveOf(m, a, TRUE))
           /\ UNCHANGED pl
  <2> DEFINE p == SaveOf(m, a, TRUE)
  <2>1. /\ p \in MapsPacket /\ About(a, p) /\ Kind(p, a) = "leaving"
        /\ p.char_id = pl[m][a].ch /\ p.data = pl[m][a].data
    BY <1>2, Written DEF CharMapInv
  <2>2. Sends(m, p)
    BY <1>2
  <2> HIDE DEF p
  <2>3. Linked(m) => Orderly(Append(fromMap[m], p), toMap[m], a, pl[m][a], written)
    BY <1>2, <2>1, MapFacts, SessionSavedAgain
  <2> QED
    BY <1>1, <1>2, <2>1, <2>2, <2>3, MapFacts, PlayerAloneFacts, MapSide
<1>3. CASE /\ LoggingIn(m, a)
           /\ Sends(m, OfflineOf(m, a))
           /\ AuthDelete(m, a)
  <2> DEFINE p == OfflineOf(m, a)
  <2>1. p \in MapsPacket /\ \A b : Kind(p, b) = "quiet"
    BY <1>3, Written DEF CharMapInv, LoggingIn
  <2>2. Sends(m, p) /\ Becomes(m, a, Gone)
    BY <1>3 DEF AuthDelete
  <2> HIDE DEF p
  <2>3. fromMap[m] \in Seq(MapsPacket) /\ toMap[m] \in Seq(MapPacket)
    BY MapFacts
  <2>4. /\ Append(fromMap[m], p) \in Seq(MapsPacket)
        /\ Extended(fromMap[m], Append(fromMap[m], p), a)
        /\ Extended(toMap[m], toMap[m], a)
    BY <2>1, <2>3, ExtendedAppend, ExtendedSame
  <2>5. Linked(m) => Orderly(Append(fromMap[m], p), toMap[m], a, pl[m][a], written)
    BY <2>3, <2>4, MapFacts, OrderlyExtended
  <2>6. Linked(m) => Orderly(Append(fromMap[m], p), toMap[m], a, Gone, written)
    BY <1>3, <2>5, Deleted
  <2>7. About(a, p) /\ Honest(pl[m][a], Gone, written) /\ PlayerOK(a, Gone)
    BY <1>3, <2>1, Deleted, MapFacts DEF About
  <2> QED
    BY <1>1, <2>1, <2>2, <2>6, <2>7, PlayerAloneFacts, MapSide
<1> QED
  BY <1>2, <1>3 DEF AuthDbCleanup

LEMMA WantToConnectionOK ==
  ASSUME CharMapInv, NEW m \in Maps, NEW a \in Accounts, WantToConnection(m, a)
  PROVE  CharMapInv' /\ AllHonest
<1> DEFINE ch == told[a].ch
           id == told[a].id
           p  == [cmd |-> "auth_req", aid |-> a, char_id |-> ch, login_id |-> id]
           q  == [Gone EXCEPT !.st = "login", !.ch = ch, !.id = id, !.client = "on"]
<1>1. /\ MapSideOnly /\ UNCHANGED <<edits, split>>
      /\ told' = [told EXCEPT ![a].tries = @ - 1]
      /\ told[a].m = m /\ told[a].tries > 0
      /\ Patient => ~Registries(m, a)
  BY DEF WantToConnection, MayConnect
<1>2. \/ UNCHANGED <<pl, fromMap, dup>>
      \/ dup' = [dup EXCEPT ![m][a] = ch] /\ UNCHANGED <<pl, fromMap>>
      \/ /\ pl[m][a].st = "none" /\ UNCHANGED dup
         /\ IF Linked(m) THEN Becomes(m, a, q) ELSE UNCHANGED pl
         /\ Sends(m, p)
  BY DEF WantToConnection
<1>3. /\ told \in [Accounts -> Place] /\ told[a] \in Place
      /\ ch \in CharsOf[a] /\ ch \in Chars /\ id \in LoginIds
  BY <1>1, CharCodes DEF CharMapInv, SentOK
<1>4. [told[a] EXCEPT !.tries = @ - 1] \in Place
  BY <1>1, <1>3 DEF Place
<1>5. SentOK'
  <2>1. told' = [told EXCEPT ![a] = [told[a] EXCEPT !.tries = @ - 1]]
    BY <1>1, <1>3
  <2>2. told' \in [Accounts -> Place]
    BY <1>3, <1>4, <2>1
  <2>3. \A b \in Accounts : /\ told'[b].m = told[b].m /\ told'[b].ch = told[b].ch
                            /\ told'[b].id = told[b].id
    BY <1>3, <2>1 DEF Place
  <2> QED
    BY <2>2, <2>3 DEF CharMapInv, SentOK
<1>6. CountsOK'
  BY <1>1 DEF CharMapInv, CountsOK, MapSideOnly
<1>7. DupOK'
  BY <1>2, <1>3 DEF CharMapInv, DupOK
<1>8. CASE UNCHANGED <<pl, fromMap>>
  BY <1>1, <1>5, <1>6, <1>7, <1>8, MapFacts, MapSide
<1>9. CASE /\ pl[m][a].st = "none"
           /\ IF Linked(m) THEN Becomes(m, a, q) ELSE UNCHANGED pl
           /\ Sends(m, p)
  <2>1. p \in MapsPacket /\ About(a, p) /\ Kind(p, a) = "auth"
    BY <1>3 DEF MapsPacket, FromPacket, OwnPacket, About, Kind
  <2> HIDE DEF p
  <2>2. CASE Linked(m)
    <3>1. /\ q \in Player /\ q.st = "login" /\ q.ch = ch /\ q.id = id
          /\ q.client = "on"
      BY <1>3 DEF Gone, Player, Stages
    <3> HIDE DEF q
    <3>2. PlayerOK(a, q) /\ Honest(pl[m][a], q, written)
      BY <1>3, <1>9, <3>1 DEF PlayerOK, Honest
    <3>3. Patient => Silent({"registry"}, fromMap[m], toMap[m], a)
      <4>1. fromMap[m] \in Seq(MapsPacket) /\ toMap[m] \in Seq(MapPacket)
        BY MapFacts
      <4>2. /\ DOMAIN fromMap[m] = 1..Len(fromMap[m])
            /\ DOMAIN toMap[m] = 1..Len(toMap[m])
        BY <4>1
      <4>3. \A x : Kind(x, a) = "registry" => x.cmd = "registry" /\ x.aid = a
        BY DEF Kind
      <4> QED
        BY <1>1, <4>2, <4>3 DEF Registries, Silent
    <3>4. Orderly(Append(fromMap[m], p), toMap[m], a, q, written)
      BY <1>9, <2>1, <2>2, <3>1, <3>3, MapFacts, SessionBegins
    <3> QED
      BY <1>1, <1>5, <1>6, <1>7, <1>9, <2>1, <2>2, <3>2, <3>4, MapSide
  <2>3. CASE ~Linked(m)
    BY <1>1, <1>5, <1>6, <1>7, <1>9, <2>1, <2>3, MapFacts, MapSide
  <2> QED
    BY <2>2, <2>3
<1> QED
  BY <1>2, <1>8, <1>9

LEMMA MapAlone ==
  ASSUME CharMapInv, NEW m \in Maps, NEW a \in Accounts,
         PlayerStep(m, a) \/ ServerStep(m, a)
  PROVE  CharMapInv' /\ AllHonest
  BY WantToConnectionOK, DupClosesOK, EditOK, AutotradeOK, RestartOK, ParseEofOK,
     DelayQuitOK, AutoSaveOK, AuthDbCleanupOK DEF PlayerStep, ServerStep

----------------------------------------------------------------------------
(* A map server reads what the char server wrote: one lemma per packet *)

\* The unprimed rest of MapReads.
ReadsAnswer(m) ==
  /\ Linked(m) /\ toMap[m] # <<>>
  /\ toMap' = [toMap EXCEPT ![m] = Tail(@)]
  /\ cargo' = IF Head(toMap[m]).cmd = "auth_ok" THEN [cargo EXCEPT ![m] = Tail(@)]
                                                ELSE cargo
  /\ UNCHANGED <<char_online, char_auth, char_timers, sess, login_fd, map_fd,
                 toLogin, dup, told, db, written, logins, breaks,
                 edits, split>>

LEMMA ReadsAnswerOK ==
  ASSUME CharMapInv, NEW m \in Maps, ReadsAnswer(m)
  PROVE  /\ TablesInv' /\ DupOK' /\ SentOK' /\ StoreOK' /\ CountsOK' /\ CargoOK'
         /\ UNCHANGED <<map_fd, written>>
         /\ Coming(m) = toMap[m] /\ Coming(m)' = Tail(toMap[m])
         /\ \A n \in Maps \ {m} : Coming(n)' = Coming(n)
         /\ toMap[m] \in Seq(MapPacket) /\ Tail(toMap[m]) \in Seq(MapPacket)
         /\ Head(toMap[m]) \in MapPacket /\ Head(toMap[m]).aid \in Accounts
         /\ Head(toMap[m]).cmd = "auth_ok" =>
              Head(cargo[m]) \in SUBSET (1..MaxEdits)
<1> USE DEF ReadsAnswer
<1>1. /\ toMap \in [Maps -> Seq(MapPacket)] /\ toMap[m] # <<>>
      /\ map_fd \in [Maps -> BOOLEAN] /\ map_fd[m]
  BY DEF CharMapInv, TablesInv, QueuesOK, CharInv, Linked
<1>2. Tail(toMap[m]) \in Seq(MapPacket) /\ Head(toMap[m]) \in MapPacket
  BY <1>1, HeadTailProperties
<1>3. toMap' \in [Maps -> Seq(MapPacket)]
  BY <1>1, <1>2
<1>4. Head(toMap[m]).aid \in Accounts
  BY <1>2 DEF MapPacket
<1>5. TablesInv'
  <2>1. CharInv'
    BY CharStepOK DEF CharMapInv, TablesInv, record_vars
  <2> QED
    BY <1>3, <2>1 DEF CharMapInv, TablesInv, QueuesOK, LetInOK
<1>6. /\ Coming(m) = toMap[m] /\ Coming(m)' = Tail(toMap[m])
      /\ \A n \in Maps \ {m} : Coming(n)' = Coming(n)
  BY <1>1 DEF Coming
<1>7. cargo[m] \in Seq(SUBSET (1..MaxEdits)) /\ Carries(toMap[m], cargo[m], Anything)
  BY <1>1 DEF CharMapInv, CargoOK
<1>8. IF Head(toMap[m]).cmd = "auth_ok"
      THEN cargo[m] # <<>> /\ Carries(Tail(toMap[m]), Tail(cargo[m]), Anything)
      ELSE Carries(Tail(toMap[m]), cargo[m], Anything)
  BY <1>1, <1>7, CarriesTail
<1>9. /\ cargo' \in [Maps -> Seq(SUBSET (1..MaxEdits))]
      /\ Carries(toMap'[m], cargo'[m], Anything)
      /\ \A n \in Maps \ {m} : toMap'[n] = toMap[n] /\ cargo'[n] = cargo[n]
      /\ Head(toMap[m]).cmd = "auth_ok" => Head(cargo[m]) \in SUBSET (1..MaxEdits)
  <2>0. cargo \in [Maps -> Seq(SUBSET (1..MaxEdits))]
    BY DEF CharMapInv, CargoOK
  <2>1. CASE Head(toMap[m]).cmd = "auth_ok"
    <3>1. Tail(cargo[m]) \in Seq(SUBSET (1..MaxEdits))
          /\ Head(cargo[m]) \in SUBSET (1..MaxEdits)
      BY <1>7, <1>8, <2>1, HeadTailProperties
    <3>2. cargo' = [cargo EXCEPT ![m] = Tail(cargo[m])]
      BY <2>1
    <3> QED
      BY <1>1, <1>8, <2>0, <2>1, <3>1, <3>2
  <2>2. CASE Head(toMap[m]).cmd # "auth_ok"
    BY <1>1, <1>8, <2>0, <2>2
  <2> QED
    BY <2>1, <2>2
<1>10. CargoOK'
  BY <1>9 DEF CharMapInv, CargoOK
<1>11. DupOK' /\ SentOK' /\ StoreOK' /\ CountsOK' /\ UNCHANGED <<map_fd, written>>
  BY DEF CharMapInv, DupOK, SentOK, StoreOK, CountsOK
<1> QED
  BY <1>1, <1>2, <1>4, <1>5, <1>6, <1>9, <1>10, <1>11

\* The packet is about session a of m, which becomes q.
LEMMA MapReadSide ==
  ASSUME CharMapInv, NEW m \in Maps, ReadsAnswer(m), NEW a \in Accounts, NEW q,
         Becomes(m, a, q), PlayerOK(a, q), Honest(pl[m][a], q, written),
         \/ /\ UNCHANGED fromMap
            /\ Orderly(fromMap[m], Tail(toMap[m]), a, q, written)
         \/ \E p \in MapsPacket :
              /\ Sends(m, p) /\ About(a, p)
              /\ Orderly(Append(fromMap[m], p), Tail(toMap[m]), a, q, written)
  PROVE  CharMapInv' /\ AllHonest
<1> DEFINE t == Tail(toMap[m])
<1>1. /\ TablesInv' /\ DupOK' /\ SentOK' /\ StoreOK' /\ CountsOK' /\ CargoOK'
      /\ UNCHANGED <<map_fd, written>>
      /\ Coming(m) = toMap[m] /\ Coming(m)' = t
      /\ \A n \in Maps \ {m} : Coming(n)' = Coming(n)
      /\ toMap[m] \in Seq(MapPacket) /\ t \in Seq(MapPacket)
  BY ReadsAnswerOK
<1>2. /\ PlayersOK' /\ AllHonest /\ pl'[m][a] = q
      /\ \A n \in Maps, b \in Accounts : <<n, b>> # <<m, a>> => pl'[n][b] = pl[n][b]
  BY OnePlayer DEF CharMapInv
<1>3. fromMap[m] \in Seq(MapsPacket) /\ Linked(m) /\ toMap[m] # <<>>
  BY InvTypes DEF ReadsAnswer
<1>4. \A b \in Accounts : Orderly(fromMap[m], t, b, pl[m][b], written)
  <2>1. \A b \in Accounts : Orderly(fromMap[m], toMap[m], b, pl[m][b], written)
    BY <1>1 DEF CharMapInv, OrderOK
  <2> QED
    BY <1>1, <1>3, <2>1, OrderlyTail
<1> HIDE DEF t
<1>5. CASE /\ UNCHANGED fromMap
           /\ Orderly(fromMap[m], Tail(toMap[m]), a, q, written)
  <2>1. Orderly(fromMap[m], t, a, q, written)
    BY <1>5 DEF t
  <2>2. OrderOK'
    BY <1>1, <1>2, <1>4, <1>5, <2>1, OrderStep
  <2>3. BoxesOK'
    BY <1>1, <1>5 DEF CharMapInv, BoxesOK
  <2> QED
    BY <1>1, <1>2, <2>2, <2>3 DEF CharMapInv
<1>6. CASE \E p \in MapsPacket :
              /\ Sends(m, p) /\ About(a, p)
              /\ Orderly(Append(fromMap[m], p), Tail(toMap[m]), a, q, written)
  <2> PICK p \in MapsPacket :
              /\ Sends(m, p) /\ About(a, p)
              /\ Orderly(Append(fromMap[m], p), Tail(toMap[m]), a, q, written)
    BY <1>6
  <2>1. /\ BoxesOK'
        /\ \A n \in Maps \ {m} : fromMap'[n] = fromMap[n]
        /\ fromMap'[m] = Append(fromMap[m], p)
    BY <1>1, <1>3, SendsOK
  <2>2. Orderly(Append(fromMap[m], p), t, a, q, written)
    BY DEF t
  <2>3. ASSUME NEW b \in Accounts \ {a}
        PROVE  Orderly(Append(fromMap[m], p), t, b, pl[m][b], written)
    <3>1. Append(fromMap[m], p) \in Seq(MapsPacket)
      BY <1>3
    <3>2. Extended(fromMap[m], Append(fromMap[m], p), b) /\ Extended(t, t, b)
      BY <1>1, <1>3, <2>3, ExtendedAppend, ExtendedSame DEF About
    <3> QED
      BY <1>1, <1>3, <1>4, <3>1, <3>2, OrderlyExtended
  <2>4. OrderOK'
    BY <1>1, <1>2, <2>1, <2>2, <2>3, OrderStep
  <2> QED
    BY <1>1, <1>2, <2>1, <2>4 DEF CharMapInv
<1> QED
  BY <1>5, <1>6

\* Facts every handler of a packet starts from.
LEMMA ReadFacts ==
  ASSUME CharMapInv, NEW m \in Maps, NEW a \in Accounts, ReadsAnswer(m)
  PROVE  /\ Linked(m) /\ toMap[m] # <<>>
         /\ Tail(toMap[m]) \in Seq(MapPacket)
         /\ Orderly(fromMap[m], toMap[m], a, pl[m][a], written)
         /\ Orderly(fromMap[m], Tail(toMap[m]), a, pl[m][a], written)
<1>1. Linked(m) /\ toMap[m] # <<>> /\ Tail(toMap[m]) \in Seq(MapPacket)
  BY ReadsAnswerOK DEF ReadsAnswer
<1>2. Orderly(fromMap[m], toMap[m], a, pl[m][a], written)
  BY <1>1, MapFacts
<1>3. Orderly(fromMap[m], Tail(toMap[m]), a, pl[m][a], written)
  BY <1>1, <1>2, MapFacts, OrderlyTail
<1> QED
  BY <1>1, <1>2, <1>3

\* The packet says nothing that changes the session; or it ends a login.
LEMMA ReadForNobody ==
  ASSUME CharMapInv, NEW m \in Maps, NEW a \in Accounts, ReadsAnswer(m),
         UNCHANGED <<pl, fromMap>>
  PROVE  CharMapInv' /\ AllHonest
  BY ReadFacts, MapFacts, MapReadSide

LEMMA ReadDeletes ==
  ASSUME CharMapInv, NEW m \in Maps, NEW a \in Accounts, ReadsAnswer(m),
         LoggingIn(m, a), AuthDelete(m, a), UNCHANGED fromMap
  PROVE  CharMapInv' /\ AllHonest
  BY ReadFacts, MapFacts, Deleted, MapReadSide DEF AuthDelete

LEMMA ReadCloses ==
  ASSUME CharMapInv, NEW m \in Maps, NEW a \in Accounts, ReadsAnswer(m),
         pl[m][a].st = "world",
         Becomes(m, a, [pl[m][a] EXCEPT !.client = "eof"]), UNCHANGED fromMap
  PROVE  CharMapInv' /\ AllHonest
<1> DEFINE q == [pl[m][a] EXCEPT !.client = "eof"]
<1>1. /\ PlayerOK(a, q) /\ Honest(pl[m][a], q, written)
      /\ Orderly(fromMap[m], Tail(toMap[m]), a, q, written)
  BY ReadFacts, ClientChanges
<1> HIDE DEF q
<1>2. Becomes(m, a, q)
  BY DEF q
<1> QED
  BY <1>1, <1>2, MapReadSide

LEMMA ReadKickOK ==
  ASSUME CharMapInv, NEW m \in Maps, NEW a \in Accounts, ReadsAnswer(m), ReadKick(m, a)
  PROVE  CharMapInv' /\ AllHonest
<1>1. CASE LoggingIn(m, a) /\ AuthDelete(m, a) /\ UNCHANGED fromMap
  BY <1>1, ReadDeletes
<1>2. CASE pl[m][a].st = "world" /\ Quit(m, a)
  <2>1. PICK q : /\ Becomes(m, a, q) /\ Sends(m, SaveOf(m, a, TRUE))
                 /\ PlayerOK(a, q) /\ Honest(pl[m][a], q, written)
                 /\ q.st = "logout" /\ q.ch = pl[m][a].ch /\ q.data = pl[m][a].data
    BY <1>2, QuitFacts
  <2> DEFINE p == SaveOf(m, a, TRUE)
  <2>2. /\ p \in MapsPacket /\ About(a, p) /\ Kind(p, a) = "leaving"
        /\ p.char_id = q.ch /\ p.data = q.data
    BY <1>2, <2>1, Written DEF CharMapInv
  <2>3. Sends(m, p)
    BY <2>1
  <2> HIDE DEF p
  <2>4. Orderly(Append(fromMap[m], p), Tail(toMap[m]), a, q, written)
    BY <1>2, <2>1, <2>2, MapFacts, ReadFacts, SessionQuits
  <2> QED
    BY <2>1, <2>2, <2>3, <2>4, MapReadSide
<1>3. CASE /\ pl[m][a].st = "world"
           /\ Becomes(m, a, [pl[m][a] EXCEPT !.client = "eof"])
           /\ UNCHANGED fromMap
  BY <1>3, ReadCloses
<1>4. CASE UNCHANGED <<pl, fromMap>>
  BY <1>4, ReadForNobody
<1> QED
  BY <1>1, <1>2, <1>3, <1>4 DEF ReadKick

LEMMA RefusalWritten ==
  ASSUME CharMapInv, NEW m \in Maps, NEW a \in Accounts, LoggingIn(m, a)
  PROVE  OfflineOf(m, a) \in MapsPacket /\ \A b : Kind(OfflineOf(m, a), b) = "quiet"
<1>1. pl[m][a].st # "none" /\ PlayersOK
  BY DEF LoggingIn, CharMapInv
<1> QED
  BY <1>1, Written

LEMMA ReadAuthOkOK ==
  ASSUME CharMapInv, NEW m \in Maps, NEW a \in Accounts, ReadsAnswer(m),
         Head(toMap[m]).cmd = "auth_ok", Head(toMap[m]).aid = a,
         ReadAuthOk(m, a, Head(toMap[m]), Head(cargo[m]))
  PROVE  CharMapInv' /\ AllHonest
<1> DEFINE r == pl[m][a]
           x == Head(toMap[m])
           data == Head(cargo[m])
<1>1. data \in SUBSET (1..MaxEdits) /\ Kind(x, a) = "auth"
  BY ReadsAnswerOK DEF Kind
<1>2. CASE UNCHANGED <<pl, fromMap>>
  BY <1>2, ReadForNobody
<1>3. CASE /\ LoggingIn(m, a)
           /\ Becomes(m, a, [r EXCEPT !.st = "loaded", !.data = data])
           /\ Sends(m, [cmd |-> "registry", aid |-> a, char_id |-> r.ch])
  <2> DEFINE q == [r EXCEPT !.st = "loaded", !.data = data]
             p == [cmd |-> "registry", aid |-> a, char_id |-> r.ch]
  <2>1. /\ PlayerOK(a, r) /\ r \in Player /\ r.st \in {"login", "loaded"}
    BY <1>3, MapFacts DEF LoggingIn
  <2>2. /\ q \in Player /\ q.st = "loaded" /\ q.ch = r.ch /\ q.id = r.id
        /\ q.client = r.client
    BY <1>1, <2>1 DEF Player, Stages
  <2>3. p \in MapsPacket /\ About(a, p) /\ Kind(p, a) = "registry"
    <3>1. r.ch \in CharsOf[a] /\ r.ch \in Chars
      BY <2>1, CharCodes DEF PlayerOK
    <3> QED
      BY <3>1 DEF MapsPacket, FromPacket, OwnPacket, About, Kind
  <2>4. Becomes(m, a, q) /\ Sends(m, p)
    BY <1>3
  <2> HIDE DEF p, q
  <2>5. PlayerOK(a, q) /\ Honest(r, q, written)
    BY <2>1, <2>2 DEF PlayerOK, Honest
  <2>6. Orderly(Append(fromMap[m], p), Tail(toMap[m]), a, q, written)
    BY <1>1, <2>1, <2>2, <2>3, MapFacts, ReadFacts, SessionLoaded
  <2> QED
    BY <2>3, <2>4, <2>5, <2>6, MapReadSide
<1>4. CASE /\ LoggingIn(m, a)
           /\ \/ AuthDelete(m, a)
              \/ Becomes(m, a, [r EXCEPT !.client = "eof"])
           /\ Sends(m, OfflineOf(m, a))
  <2> DEFINE p == OfflineOf(m, a)
             e == [r EXCEPT !.client = "eof"]
  <2>1. /\ PlayerOK(a, r) /\ r \in Player /\ r.st \in {"login", "loaded"}
    BY <1>4, MapFacts DEF LoggingIn
  <2>2. p \in MapsPacket /\ \A b : Kind(p, b) = "quiet"
    BY <1>4, RefusalWritten
  <2>3. Sends(m, p) /\ About(a, p)
    BY <1>4, <2>2 DEF About
  <2> HIDE DEF p
  <2>4. Orderly(Append(fromMap[m], p), Tail(toMap[m]), a, r, written)
    <3>1. fromMap[m] \in Seq(MapsPacket) /\ Tail(toMap[m]) \in Seq(MapPacket)
      BY MapFacts, ReadFacts
    <3>2. /\ Append(fromMap[m], p) \in Seq(MapsPacket)
          /\ Extended(fromMap[m], Append(fromMap[m], p), a)
      BY <2>2, <3>1, ExtendedAppend
    <3>3. Extended(Tail(toMap[m]), Tail(toMap[m]), a)
      BY <3>1, ExtendedSame
    <3> QED
      BY <3>1, <3>2, <3>3, ReadFacts, OrderlyExtended
  <2>5. CASE AuthDelete(m, a)
    <3>1. /\ Honest(r, Gone, written) /\ PlayerOK(a, Gone)
          /\ Orderly(Append(fromMap[m], p), Tail(toMap[m]), a, Gone, written)
      BY <1>4, <2>4, Deleted, MapFacts
    <3> QED
      BY <2>2, <2>3, <2>5, <3>1, MapReadSide DEF AuthDelete
  <2>6. CASE Becomes(m, a, e)
    <3>1. e \in Player /\ e.st = r.st /\ e.ch = r.ch /\ e.id = r.id /\ e.client = "eof"
      BY <2>1 DEF Player
    <3> HIDE DEF e
    <3>2. PlayerOK(a, e) /\ Honest(r, e, written)
      BY <2>1, <3>1 DEF PlayerOK, Honest
    <3>3. Orderly(Append(fromMap[m], p), Tail(toMap[m]), a, e, written)
      BY <2>1, <2>4, <3>1, SessionGoesOn
    <3> QED
      BY <2>2, <2>3, <2>6, <3>2, <3>3, MapReadSide
  <2> QED
    BY <1>4, <2>5, <2>6
<1> QED
  BY <1>2, <1>3, <1>4 DEF ReadAuthOk

LEMMA ReadAuthFailOK ==
  ASSUME CharMapInv, NEW m \in Maps, NEW a \in Accounts, ReadsAnswer(m),
         NEW x, ReadAuthFail(m, a, x)
  PROVE  CharMapInv' /\ AllHonest
<1>1. /\ UNCHANGED fromMap
      /\ \/ UNCHANGED pl
         \/ LoggingIn(m, a) /\ AuthDelete(m, a)
  BY DEF ReadAuthFail
<1> QED
  BY <1>1, ReadForNobody, ReadDeletes

LEMMA ReadSaveAckOK ==
  ASSUME CharMapInv, NEW m \in Maps, NEW a \in Accounts, ReadsAnswer(m),
         Head(toMap[m]).cmd = "save_ack", Head(toMap[m]).aid = a,
         ReadSaveAck(m, a, Head(toMap[m]))
  PROVE  CharMapInv' /\ AllHonest
<1>1. UNCHANGED fromMap /\ Kind(Head(toMap[m]), a) = "leaving"
  BY DEF ReadSaveAck, Kind
<1>2. CASE UNCHANGED pl
  BY <1>1, <1>2, ReadForNobody
<1>3. CASE pl[m][a].st = "logout" /\ AuthDelete(m, a)
  <2>1. /\ pl[m][a].data \subseteq written[pl[m][a].ch]
        /\ Orderly(fromMap[m], Tail(toMap[m]), a, Gone, written)
    BY <1>1, <1>3, MapFacts, ReadFacts, SessionEnds
  <2>2. Honest(pl[m][a], Gone, written)
    BY <2>1, MapFacts DEF Honest
  <2> QED
    BY <1>1, <1>3, <2>1, <2>2, MapFacts, MapReadSide DEF AuthDelete
<1> QED
  BY <1>2, <1>3 DEF ReadSaveAck

LEMMA ReadRegistryOK ==
  ASSUME CharMapInv, NEW m \in Maps, NEW a \in Accounts, ReadsAnswer(m),
         Head(toMap[m]).cmd = "registry", Head(toMap[m]).aid = a,
         ReadRegistry(m, a, Head(toMap[m]))
  PROVE  CharMapInv' /\ AllHonest
<1> DEFINE r == pl[m][a]
           q == [r EXCEPT !.st = "world"]
<1>1. UNCHANGED fromMap /\ Kind(Head(toMap[m]), a) = "registry"
  BY DEF ReadRegistry, Kind
<1>2. CASE UNCHANGED pl
  BY <1>1, <1>2, ReadForNobody
<1>3. CASE LoggingIn(m, a) /\ Becomes(m, a, q)
  <2>1. /\ PlayerOK(a, r) /\ r \in Player /\ r.st \in {"login", "loaded"}
    BY <1>3, MapFacts DEF LoggingIn
  <2>2. q \in Player /\ q.st = "world" /\ q.ch = r.ch /\ q.id = r.id
    BY <2>1 DEF Player, Stages
  <2>3. Becomes(m, a, q)
    BY <1>3
  <2> HIDE DEF q
  <2>4. PlayerOK(a, q)
    BY <2>1, <2>2 DEF PlayerOK
  <2>5. Patient => r.st # "login"
    <3>1. Head(toMap[m]) = toMap[m][1] /\ 1 \in 1..Len(toMap[m])
      BY MapFacts, ReadFacts
    <3> QED
      BY <1>1, <3>1, ReadFacts DEF Orderly, Silent
  <2>6. Honest(r, q, written)
    BY <2>1, <2>2, <2>5 DEF Honest
  <2>7. Orderly(fromMap[m], Tail(toMap[m]), a, q, written)
    BY <1>1, <2>1, <2>2, MapFacts, ReadFacts, SessionEnters
  <2> QED
    BY <1>1, <2>3, <2>4, <2>6, <2>7, MapReadSide
<1> QED
  BY <1>2, <1>3 DEF ReadRegistry

LEMMA ReadSelectAckOK ==
  ASSUME CharMapInv, NEW m \in Maps, NEW a \in Accounts, ReadsAnswer(m),
         ReadSelectAck(m, a)
  PROVE  CharMapInv' /\ AllHonest
  BY ReadForNobody, ReadCloses DEF ReadSelectAck

LEMMA MapReadsOK ==
  ASSUME CharMapInv, NEW m \in Maps, MapReads(m)
  PROVE  CharMapInv' /\ AllHonest
<1> DEFINE x == Head(toMap[m])
           a == x.aid
<1>1. ReadsAnswer(m)
  BY DEF MapReads, ReadsAnswer
<1>2. a \in Accounts
  BY <1>1, ReadsAnswerOK
<1>3. \/ x.cmd = "kick" /\ ReadKick(m, a)
      \/ x.cmd = "auth_ok" /\ ReadAuthOk(m, a, x, Head(cargo[m]))
      \/ x.cmd = "auth_fail" /\ ReadAuthFail(m, a, x)
      \/ x.cmd = "save_ack" /\ ReadSaveAck(m, a, x)
      \/ x.cmd = "registry" /\ ReadRegistry(m, a, x)
      \/ x.cmd = "select_ack" /\ ReadSelectAck(m, a)
  BY DEF MapReads
<1> QED
  BY <1>1, <1>2, <1>3, ReadKickOK, ReadAuthOkOK, ReadAuthFailOK, ReadSaveAckOK,
     ReadRegistryOK, ReadSelectAckOK

----------------------------------------------------------------------------
(* The char server on its own: clients, the login server, timers *)

\* Box u of packets for a map server is box s with some behind it that are
\* nothing to anybody.
Calmer(s, u) == \A b : Extended(s, u, b)

LEMMA CalmSame ==
  ASSUME NEW s \in Seq(MapPacket)
  PROVE  Calmer(s, s)
  BY ExtendedSame DEF Calmer

LEMMA CalmAppend ==
  ASSUME NEW s \in Seq(MapPacket), NEW p \in MapPacket,
         p.cmd \in {"kick", "auth_fail", "select_ack"}
  PROVE  Calmer(s, Append(s, p))
<1>1. \A b : Kind(p, b) = "quiet"
  BY DEF Kind
<1> QED
  BY <1>1, ExtendedAppend DEF Calmer

\* mapif_disconnectplayer
LEMMA KicksCalm ==
  ASSUME QueuesOK, NEW a \in Accounts, NEW n \in Maps
  PROVE  /\ toMap[n] \in Seq(MapPacket)
         /\ Calmer(toMap[n], KickedFrom(a)[n])
         /\ \A m : Calmer(toMap[n], KickOther(a, m)[n])
<1> DEFINE m == char_online[a].server
<1>1. toMap \in [Maps -> Seq(MapPacket)] /\ Kick(a) \in MapPacket
  BY PacketsOK DEF QueuesOK, Kick
<1>2. Kick(a).cmd = "kick" /\ toMap[n] \in Seq(MapPacket)
  BY <1>1 DEF Kick, Say
<1>3. KickedFrom(a)[n] \in {toMap[n], Append(toMap[n], Kick(a))}
  BY <1>1 DEF KickedFrom
<1>4. Calmer(toMap[n], KickedFrom(a)[n])
  BY <1>1, <1>2, <1>3, CalmSame, CalmAppend
<1> QED
  BY <1>2, <1>4, CalmSame DEF KickOther

LEMMA KickAllCalm ==
  ASSUME QueuesOK, NEW S \in SUBSET Accounts, KickAll(S), NEW n \in Maps
  PROVE  Calmer(toMap[n], toMap'[n])
<1> DEFINE q == SayEach("kick", {a \in S : char_online[a].server = n})
<1>1. q \in Seq(MapPacket) /\ toMap[n] \in Seq(MapPacket)
  BY SayEachOK DEF QueuesOK
<1>2. \A i \in 1..Len(q) : q[i].cmd = "kick"
  <2> DEFINE T == {a \in S : char_online[a].server = n}
  <2>1. Cardinality(T) \in Nat
    BY ListedOK
  <2>2. q = [i \in 1..Cardinality(T) |-> Say("kick", Listed(T)[i])]
    BY DEF SayEach
  <2> HIDE DEF q, T
  <2>3. DOMAIN q = 1..Cardinality(T) /\ DOMAIN q = 1..Len(q)
    BY <1>1, <2>1, <2>2
  <2> QED
    BY <2>2, <2>3 DEF Say
<1>3. toMap'[n] \in {toMap[n], toMap[n] \o q}
  BY DEF KickAll, QueuesOK
<1> HIDE DEF q
<1>4. \A b : \A i \in 1..Len(q) : Kind(q[i], b) = "quiet"
  BY <1>2 DEF Kind
<1>5. Calmer(toMap[n], toMap[n] \o q)
  BY <1>1, <1>4, ExtendedConcat DEF Calmer
<1> QED
  BY <1>1, <1>3, <1>5, CalmSame

\* What nobody is answered with carries no data.
LEMMA CalmCarries ==
  ASSUME NEW t \in Seq(MapPacket), NEW u \in Seq(MapPacket), NEW c, NEW Q,
         Calmer(t, u), Carries(t, c, Q)
  PROVE  Carries(u, c, Q)
<1>1. Len(t) <= Len(u) /\ \A i \in 1..Len(t) : u[i] = t[i]
  <2>1. Extended(t, u, NoAccount)
    BY DEF Calmer
  <2> QED
    BY <2>1 DEF Extended
<1>2. ASSUME NEW i \in (Len(t) + 1)..Len(u) PROVE u[i].cmd # "auth_ok"
  <2>1. Kind(u[i], u[i].aid) = "quiet"
    BY DEF Calmer, Extended
  <2> QED
    BY <2>1 DEF Kind
<1> QED
  BY <1>1, <1>2, CarriesExtended

\* The boxes to the map servers get longer, nothing else that they share changes.
OnlyKicks == /\ UNCHANGED map_fd /\ CharSideOnly
             /\ \A n \in Maps : Calmer(toMap[n], toMap'[n])

LEMMA CharSide ==
  ASSUME CharMapInv, TablesInv', SentOK', CountsOK', OnlyKicks
  PROVE  CharMapInv' /\ AllHonest /\ OnlyKicks
<1> USE DEF CharSideOnly, OnlyKicks
<1>1. /\ PlayersOK' /\ DupOK' /\ StoreOK' /\ BoxesOK'
  BY DEF CharMapInv, PlayersOK, DupOK, StoreOK, BoxesOK
<1>2. AllHonest
  BY DEF AllHonest, Honest
<1>3. \A n \in Maps : toMap[n] \in Seq(MapPacket) /\ toMap'[n] \in Seq(MapPacket)
  BY DEF CharMapInv, TablesInv, QueuesOK
<1>4. CargoOK'
  BY <1>3, CalmCarries DEF CharMapInv, CargoOK
<1>5. ASSUME NEW n \in Maps, NEW b \in Accounts
      PROVE  Orderly(fromMap'[n], Coming(n)', b, pl'[n][b], written')
  <2>1. /\ Orderly(fromMap[n], Coming(n), b, pl[n][b], written)
        /\ fromMap[n] \in Seq(MapsPacket)
    BY InvTypes DEF CharMapInv, OrderOK
  <2>2. CASE map_fd[n]
    <3>1. Coming(n) = toMap[n] /\ Coming(n)' = toMap'[n]
      BY <2>2 DEF Coming
    <3>2. Extended(toMap[n], toMap'[n], b) /\ Extended(fromMap[n], fromMap[n], b)
      BY <2>1, ExtendedSame DEF Calmer
    <3> QED
      BY <1>3, <2>1, <3>1, <3>2, OrderlyExtended
  <2>3. CASE ~map_fd[n]
    <3>1. Coming(n) = <<>> /\ Coming(n)' = <<>>
      BY <2>3 DEF Coming
    <3> QED
      BY <2>1, <3>1
  <2> QED
    BY <2>2, <2>3
<1>6. OrderOK'
  BY <1>5 DEF OrderOK
<1> QED
  BY <1>1, <1>2, <1>4, <1>6 DEF CharMapInv

\* Two unchanged facts every step of the char server needs.
LEMMA SentCountsKept ==
  ASSUME CharMapInv
  PROVE  /\ UNCHANGED told => SentOK'
         /\ UNCHANGED logins /\ UNCHANGED edits => CountsOK'
         /\ \A a \in Accounts : told' = [told EXCEPT ![a] = Nowhere] => SentOK'
         /\ logins' = logins + 1 /\ UNCHANGED edits => CountsOK'
         /\ UNCHANGED toMap => \A n \in Maps : Calmer(toMap[n], toMap'[n])
<1>1. /\ told \in [Accounts -> Place]
      /\ \A a \in Accounts : told[a].m \in Maps =>
           told[a].ch \in CharsOf[a] /\ told[a].id \in LoginIds
  BY DEF CharMapInv, SentOK
<1>2. Nowhere \in Place /\ Nowhere.m \notin Maps
  BY MapsAssumption DEF Nowhere, Place
<1>3. UNCHANGED told => SentOK'
  BY <1>1 DEF SentOK
<1>4. ASSUME NEW a \in Accounts, told' = [told EXCEPT ![a] = Nowhere]
      PROVE  SentOK'
  <2>1. told' \in [Accounts -> Place]
    BY <1>1, <1>2, <1>4
  <2>2. \A b \in Accounts : told'[b] = IF b = a THEN Nowhere ELSE told[b]
    BY <1>1, <1>4
  <2> QED
    BY <1>1, <1>2, <2>1, <2>2 DEF SentOK
<1>5. /\ UNCHANGED logins /\ UNCHANGED edits => CountsOK'
      /\ logins' = logins + 1 /\ UNCHANGED edits => CountsOK'
  BY DEF CharMapInv, CountsOK
<1>6. UNCHANGED toMap => \A n \in Maps : Calmer(toMap[n], toMap'[n])
  BY CalmSame DEF CharMapInv, TablesInv, QueuesOK
<1> QED
  BY <1>3, <1>4, <1>5, <1>6

\* char_auth_ok, for a ticket there is.
LEMMA AuthOkCalm ==
  ASSUME CharMapInv, NEW fd \in Fds, NEW a \in Accounts, NEW id \in LoginIds,
         AuthOk(fd, a, Claim(a, id))
  PROVE  LetInOK' /\ \A n \in Maps : Calmer(toMap[n], toMap'[n])
<1> DEFINE s == Claim(a, id)
<1>1. /\ s \in Session /\ s.login_id = id
      /\ [s EXCEPT !.auth = TRUE].login_id = id
  BY DEF Claim, Session
<1>2. sess \in [Fds -> Session]
  BY DEF CharMapInv, TablesInv, CharInv, SessOK
<1>3. /\ \/ sess' = [sess EXCEPT ![fd] = s]
         \/ sess' = [sess EXCEPT ![fd] = [s EXCEPT !.auth = TRUE]]
      /\ UNCHANGED toMap \/ toMap' = KickedFrom(a)
  BY DEF AuthOk, AuthInGame, AuthTaken, AuthGranted
<1> HIDE DEF s
<1>4. LetInOK'
  BY <1>1, <1>2, <1>3 DEF CharMapInv, TablesInv, LetInOK
<1>5. \A n \in Maps : Calmer(toMap[n], toMap'[n])
  BY <1>3, SentCountsKept, KicksCalm DEF CharMapInv, TablesInv
<1> QED
  BY <1>4, <1>5

LEMMA NewLoginOK ==
  ASSUME CharMapInv, NEW fd \in Fds, NEW a \in Accounts, NewLogin(fd, a)
  PROVE  CharMapInv' /\ AllHonest /\ OnlyKicks
<1> DEFINE s == Claim(a, logins + 1)
<1>1. /\ logins < MaxLogins /\ sess[fd] = Closed /\ AuthOk(fd, a, s)
      /\ logins' = logins + 1 /\ told' = [told EXCEPT ![a] = Nowhere]
      /\ CharSideOnly /\ UNCHANGED <<char_auth, login_fd, map_fd>>
  BY DEF NewLogin
<1>2. logins + 1 \in LoginIds
  <2>1. logins + 1 \in 1..MaxLogins
    BY <1>1, BoundAssumption DEF CharMapInv, CountsOK
  <2> QED
    BY <2>1, LoginsAssumption
<1>3. s \in Session /\ s.aid = a /\ ~s.auth /\ ~sess[fd].auth
  BY <1>1, <1>2 DEF Claim, Session, Closed
<1>4. LetInOK' /\ \A n \in Maps : Calmer(toMap[n], toMap'[n])
  BY <1>1, <1>2, AuthOkCalm
<1> HIDE DEF s
<1>5. CharInv'
  <2>1. TablesOK' /\ SessOK'
    BY <1>1, <1>3, AuthOkOK DEF CharMapInv, TablesInv
  <2>2. RestOK'
    BY <1>1 DEF CharMapInv, TablesInv, CharInv, RestOK
  <2> QED
    BY <2>1, <2>2, CharInvParts
<1>6. QueuesOK'
  BY <1>1, AuthOkQueues DEF CharMapInv, TablesInv
<1>7. SentOK' /\ CountsOK'
  BY <1>1, SentCountsKept DEF CharSideOnly
<1> QED
  BY <1>1, <1>4, <1>5, <1>6, <1>7, CharSide DEF TablesInv, OnlyKicks

LEMMA ReturnsOK ==
  ASSUME CharMapInv, NEW fd \in Fds, NEW a \in Accounts, Returns(fd, a)
  PROVE  CharMapInv' /\ AllHonest /\ OnlyKicks
<1> DEFINE id == char_auth[a].login_id
<1>1. /\ id \in LoginIds /\ ConnectWithTicket(fd, a, id)
      /\ logins' = logins + 1 /\ told' = [told EXCEPT ![a] = Nowhere]
      /\ CharSideOnly
  BY DEF Returns
<1> HIDE DEF id
<1>2. ClientStep
  BY <1>1 DEF ClientStep, CharConnect
<1>3. CharInv' /\ QueuesOK'
  BY <1>2, ClientStepOK, ClientStepQueues DEF CharMapInv, TablesInv
<1>4. AuthOk(fd, a, Claim(a, id)) /\ UNCHANGED map_fd
  BY <1>1 DEF ConnectWithTicket
<1>5. LetInOK' /\ \A n \in Maps : Calmer(toMap[n], toMap'[n])
  BY <1>1, <1>4, AuthOkCalm
<1>6. SentOK' /\ CountsOK'
  BY <1>1, SentCountsKept DEF CharSideOnly
<1> QED
  BY <1>1, <1>3, <1>4, <1>5, <1>6, CharSide DEF TablesInv, OnlyKicks

LEMMA SelectsOK ==
  ASSUME CharMapInv, NEW fd \in Fds, NEW ch \in Chars, Selects(fd, ch)
  PROVE  CharMapInv' /\ AllHonest /\ OnlyKicks
<1> DEFINE a == sess[fd].aid
<1> PICK m \in Maps : SentTo(fd, ch, m)
  BY DEF Selects
<1>1. /\ SelectOk(fd, ch) /\ CharSideOnly /\ UNCHANGED logins
      /\ told' = [told EXCEPT ![a] = [m |-> m, ch |-> ch, id |-> sess[fd].login_id,
                                      tries |-> MaxTries]]
  BY DEF SentTo
<1>2. /\ a \in Accounts /\ ch \in CharsOf[a] /\ sess[fd].login_id \in LoginIds
  <2>1. sess[fd].auth /\ ch \in CharsOf[a]
    BY <1>1 DEF SelectOk, Playable
  <2> QED
    BY <2>1 DEF CharMapInv, TablesInv, LetInOK, CharInv, SessOK
<1>3. CharInv' /\ QueuesOK'
  <2>1. ClientStep
    BY <1>1 DEF ClientStep, CharSelect
  <2> QED
    BY <2>1, ClientStepOK, ClientStepQueues DEF CharMapInv, TablesInv
<1>4. toMap' = KickOther(a, Elsewhere) /\ UNCHANGED <<sess, map_fd>>
  BY <1>1 DEF SelectOk
<1>5. LetInOK'
  BY <1>4 DEF CharMapInv, TablesInv, LetInOK
<1>6. SentOK'
  <2> DEFINE x == [m |-> m, ch |-> ch, id |-> sess[fd].login_id, tries |-> MaxTries]
  <2>1. x \in Place /\ x.m = m /\ x.ch = ch /\ x.id = sess[fd].login_id
    BY <1>2, BoundAssumption DEF Place
  <2>2. told' = [told EXCEPT ![a] = x]
    BY <1>1
  <2> HIDE DEF x, a
  <2>3. told \in [Accounts -> Place]
    BY DEF CharMapInv, SentOK
  <2>4. /\ told' \in [Accounts -> Place]
        /\ \A b \in Accounts : told'[b] = IF b = a THEN x ELSE told[b]
    BY <2>1, <2>2, <2>3
  <2> QED
    BY <1>2, <2>1, <2>4 DEF CharMapInv, SentOK, a
<1>7. CountsOK'
  BY <1>1, SentCountsKept DEF CharSideOnly
<1> HIDE DEF a
<1>8. \A n \in Maps : Calmer(toMap[n], toMap'[n])
  BY <1>2, <1>4, KicksCalm DEF CharMapInv, TablesInv
<1> QED
  BY <1>1, <1>3, <1>4, <1>5, <1>6, <1>7, <1>8, CharSide DEF TablesInv, OnlyKicks

LEMMA LeavesListOK ==
  ASSUME CharMapInv, NEW fd \in Fds, LeavesList(fd)
  PROVE  CharMapInv' /\ AllHonest /\ OnlyKicks
<1>1. CloseSession(fd) /\ CharSideOnly /\ UNCHANGED <<told, logins>>
  BY DEF LeavesList
<1>2. CharInv' /\ QueuesOK'
  <2>1. ClientStep
    BY <1>1 DEF ClientStep
  <2> QED
    BY <2>1, ClientStepOK, ClientStepQueues DEF CharMapInv, TablesInv
<1>3. UNCHANGED <<toMap, map_fd>> /\ sess' = [sess EXCEPT ![fd] = Closed]
  BY <1>1 DEF CloseSession
<1>4. LetInOK'
  BY <1>3 DEF CharMapInv, TablesInv, LetInOK, CharInv, SessOK, Closed
<1>5. SentOK' /\ CountsOK' /\ \A n \in Maps : Calmer(toMap[n], toMap'[n])
  BY <1>1, <1>3, SentCountsKept DEF CharSideOnly
<1> QED
  BY <1>1, <1>2, <1>3, <1>4, <1>5, CharSide DEF TablesInv, OnlyKicks

LEMMA KickedByLoginOK ==
  ASSUME CharMapInv, NEW a \in Accounts, KickedByLogin(a)
  PROVE  CharMapInv' /\ AllHonest /\ OnlyKicks
<1>1. /\ LoginKick(a) /\ logins' = logins + 1 /\ CharSideOnly /\ UNCHANGED told
  BY DEF KickedByLogin
<1>2. CharInv' /\ QueuesOK'
  <2>1. LoginStep
    BY <1>1 DEF LoginStep
  <2> QED
    BY <2>1, LoginStepOK, LoginStepQueues DEF CharMapInv, TablesInv
<1>3. /\ UNCHANGED map_fd
      /\ UNCHANGED toMap \/ toMap' = KickedFrom(a)
      /\ UNCHANGED sess \/ \E fd \in Claims(a) : sess' = [sess EXCEPT ![fd].eof = TRUE]
  BY <1>1 DEF LoginKick
<1>4. LetInOK'
  <2>1. \A fd \in Fds : sess'[fd].auth = sess[fd].auth
                        /\ sess'[fd].login_id = sess[fd].login_id
    BY <1>3 DEF CharMapInv, TablesInv, CharInv, SessOK, Session, Claims
  <2> QED
    BY <2>1 DEF CharMapInv, TablesInv, LetInOK
<1>5. \A n \in Maps : Calmer(toMap[n], toMap'[n])
  BY <1>3, SentCountsKept, KicksCalm DEF CharMapInv, TablesInv
<1>6. SentOK' /\ CountsOK'
  BY <1>1, SentCountsKept DEF CharSideOnly
<1> QED
  BY <1>1, <1>2, <1>3, <1>4, <1>5, <1>6, CharSide DEF TablesInv, OnlyKicks

LEMMA CharTimersOK ==
  ASSUME CharMapInv, CharTimerStep, UNCHANGED <<sess, map_fd, toMap>>,
         CharSideOnly, UNCHANGED <<told, logins>>
  PROVE  CharMapInv' /\ AllHonest /\ OnlyKicks
<1>1. CharInv' /\ QueuesOK'
  BY CharTimerStepOK, CharTimerStepQueues DEF CharMapInv, TablesInv
<1>2. LetInOK'
  BY DEF CharMapInv, TablesInv, LetInOK
<1>3. SentOK' /\ CountsOK' /\ \A n \in Maps : Calmer(toMap[n], toMap'[n])
  BY SentCountsKept DEF CharSideOnly
<1> QED
  BY <1>1, <1>2, <1>3, CharSide DEF TablesInv, OnlyKicks

LEMMA CharAlone ==
  ASSUME CharMapInv,
         \/ \E fd \in Fds : \/ \E a \in Accounts : NewLogin(fd, a) \/ Returns(fd, a)
                            \/ \E ch \in Chars : Selects(fd, ch)
                            \/ LeavesList(fd)
         \/ \E a \in Accounts : KickedByLogin(a)
         \/ \E t \in CharTids : WaitingDisconnects(t)
         \/ CleansUp
  PROVE  CharMapInv' /\ AllHonest /\ OnlyKicks
<1>1. ASSUME NEW t \in CharTids, WaitingDisconnects(t)
      PROVE  CharMapInv' /\ AllHonest /\ OnlyKicks
  BY <1>1, CharTimersOK DEF WaitingDisconnects, CharTimerStep, CharWaitingDisconnect
<1>2. ASSUME CleansUp
      PROVE  CharMapInv' /\ AllHonest /\ OnlyKicks
  BY <1>2, CharTimersOK DEF CleansUp, CharTimerStep, CharCleanup
<1> QED
  BY <1>1, <1>2, NewLoginOK, ReturnsOK, SelectsOK, LeavesListOK, KickedByLoginOK

----------------------------------------------------------------------------
(* The char server reads what a map server wrote *)

\* Answer p lets in who asked for it with x.
LoadOf(x, p) == /\ x.cmd = "auth_req" /\ p.char_id = x.char_id
                /\ p.char_id \in CharsOf[p.aid]

\* What the handlers make of packet x: the boxes of the other map servers, the
\* answer, the data that goes with it.
Handled(m, x) ==
  /\ \A n \in Maps \ {m} : Calmer(toMap[n], toMap'[n])
  /\ \/ Calmer(toMap[m], toMap'[m]) /\ UNCHANGED cargo
     \/ \E s \in Seq(MapPacket), p \in MapPacket :
          /\ Calmer(toMap[m], s) /\ toMap'[m] = Append(s, p)
          /\ \A b : Kind(p, b) \in {"quiet", Kind(x, b)}
          /\ IF p.cmd = "auth_ok"
             THEN /\ cargo' = [cargo EXCEPT ![m] = Append(@, db[x.char_id])]
                  /\ x.char_id \in Chars /\ LoadOf(x, p)
             ELSE UNCHANGED cargo

\* An answer is put behind box, which is as toMap with kicks.
LEMMA AnswerHandled ==
  ASSUME CharMapInv, NEW m \in Maps, NEW x, NEW box \in [Maps -> Seq(MapPacket)],
         \A n \in Maps : Calmer(toMap[n], box[n]),
         NEW p \in MapPacket, Answer(box, m, p),
         \A b : Kind(p, b) \in {"quiet", Kind(x, b)},
         IF p.cmd = "auth_ok"
         THEN /\ cargo' = [cargo EXCEPT ![m] = Append(@, db[x.char_id])]
              /\ x.char_id \in Chars /\ LoadOf(x, p)
         ELSE UNCHANGED cargo
  PROVE  Handled(m, x)
<1>1. /\ toMap'[m] = Append(box[m], p) /\ box[m] \in Seq(MapPacket)
      /\ \A n \in Maps \ {m} : toMap'[n] = box[n]
  BY DEF Answer
<1> QED
  BY <1>1 DEF Handled

\* Nobody is answered.
LEMMA CalmHandled ==
  ASSUME CharMapInv, NEW m \in Maps, NEW x, UNCHANGED cargo,
         \A n \in Maps : Calmer(toMap[n], toMap'[n])
  PROVE  Handled(m, x)
  BY DEF Handled

LEMMA BoxesCalm ==
  ASSUME CharMapInv, NEW a \in Accounts
  PROVE  /\ toMap \in [Maps -> Seq(MapPacket)]
         /\ \A n \in Maps : Calmer(toMap[n], toMap[n])
         /\ \A m : /\ KickOther(a, m) \in [Maps -> Seq(MapPacket)]
                   /\ \A n \in Maps : Calmer(toMap[n], KickOther(a, m)[n])
  BY KicksOK, KicksCalm, CalmSame DEF CharMapInv, TablesInv, QueuesOK

\* Data goes only with the answer to who asks to be let in.
LEMMA CargoStays ==
  ASSUME CharMapInv, NEW m \in Maps, CharReads(m), Head(fromMap[m]).cmd # "auth_req"
  PROVE  UNCHANGED cargo
  BY DEF CharReads

LEMMA ReadsRequest ==
  ASSUME CharMapInv, NEW m \in Maps, CharReads(m)
  PROVE  /\ map_fd[m] /\ fromMap[m] # <<>>
         /\ fromMap[m] \in Seq(MapsPacket) /\ Tail(fromMap[m]) \in Seq(MapsPacket)
         /\ Head(fromMap[m]) \in MapsPacket
         /\ fromMap' = [fromMap EXCEPT ![m] = Tail(@)]
         /\ UNCHANGED <<pl, dup, told, logins, breaks, edits>>
<1>1. fromMap[m] \in Seq(MapsPacket)
  BY InvTypes
<1> QED
  BY <1>1, HeadTailProperties DEF CharReads

LEMMA RequestFields ==
  ASSUME NEW x \in MapsPacket
  PROVE  /\ x.cmd \in {"auth_req", "registry", "offline", "save", "users", "select"}
         /\ x.cmd # "users" => x.aid \in Accounts
         /\ x.cmd \in {"auth_req", "registry", "offline", "save"} =>
              x.char_id \in CharsOf[x.aid] /\ x.char_id \in Chars
         /\ x.cmd \in {"auth_req", "select"} => x.login_id \in LoginIds
         /\ x.cmd = "save" => x.final \in BOOLEAN /\ x.data \in SUBSET (1..MaxEdits)
         /\ x.cmd = "users" =>
              \E S \in SUBSET Accounts : x.who \in [S -> Chars]
                                         /\ \A a \in S : x.who[a] \in CharsOf[a]
<1>1. x \in FromPacket /\ OwnPacket(x)
  BY DEF MapsPacket
<1> QED
  BY <1>1 DEF FromPacket, OwnPacket

LEMMA AuthReqHandled ==
  ASSUME CharMapInv, NEW m \in Maps, CharReads(m), NEW x, x = Head(fromMap[m]),
         x.cmd = "auth_req", LetsIn(m, x) \/ (Refuses(m, x) /\ UNCHANGED cargo)
  PROVE  Handled(m, x) /\ MapStep
<1> DEFINE a == x.aid
           ch == x.char_id
           id == x.login_id
<1>1. a \in Accounts /\ ch \in CharsOf[a] /\ ch \in Chars /\ id \in LoginIds
  BY ReadsRequest, RequestFields
<1>2. MapAuth(m, a, ch, id)
  BY DEF LetsIn, Refuses, MapAuth
<1>3. MapStep
  BY <1>1, <1>2 DEF MapStep
<1>4. CASE LetsIn(m, x)
  <2> DEFINE p == AuthReply("auth_ok", a, ch, id)
             box == KickOther(a, m)
  <2>1. p \in MapPacket /\ p.cmd = "auth_ok" /\ \A b : Kind(p, b) \in {"quiet", Kind(x, b)}
    BY <1>1 DEF AuthReply, MapPacket, Kind
  <2>2. Answer(box, m, p)
    BY <1>4 DEF LetsIn, MapAuthOk
  <2>3. /\ box \in [Maps -> Seq(MapPacket)]
        /\ \A n \in Maps : Calmer(toMap[n], box[n])
    BY <1>1, BoxesCalm
  <2>4. LoadOf(x, p)
    BY <1>1 DEF LoadOf, AuthReply
  <2>5. cargo' = [cargo EXCEPT ![m] = Append(@, db[ch])]
    BY <1>4 DEF LetsIn
  <2> HIDE DEF p, box
  <2>6. Handled(m, x)
    BY <1>1, <2>1, <2>2, <2>3, <2>4, <2>5, AnswerHandled
  <2> QED
    BY <1>3, <2>6
<1>5. CASE Refuses(m, x) /\ UNCHANGED cargo
  <2> DEFINE p == AuthReply("auth_fail", a, ch, id)
  <2>1. p \in MapPacket /\ p.cmd = "auth_fail" /\ \A b : Kind(p, b) = "quiet"
    BY <1>1 DEF AuthReply, MapPacket, Kind
  <2>2. Answer(toMap, m, p)
    BY <1>5 DEF Refuses, MapAuthFailed, MapAuthNotLoaded
  <2> HIDE DEF p
  <2>3. Handled(m, x)
    BY <1>1, <1>5, <2>1, <2>2, BoxesCalm, AnswerHandled
  <2> QED
    BY <1>3, <2>3
<1> QED
  BY <1>4, <1>5

LEMMA RegistryHandled ==
  ASSUME CharMapInv, NEW m \in Maps, CharReads(m), NEW x, x = Head(fromMap[m]),
         x.cmd = "registry", MapRegistry(m, x.aid, x.char_id)
  PROVE  Handled(m, x) /\ MapStep
<1> DEFINE p == [cmd |-> "registry", aid |-> x.aid, char_id |-> x.char_id]
<1>1. /\ x.aid \in Accounts /\ x.char_id \in CharsOf[x.aid] /\ x.char_id \in Chars
  BY ReadsRequest, RequestFields
<1>2. MapStep
  BY <1>1 DEF MapStep
<1>3. UNCHANGED cargo
  BY CargoStays
<1>4. p \in MapPacket /\ p.cmd = "registry" /\ \A b : Kind(p, b) \in {"quiet", Kind(x, b)}
  BY <1>1 DEF MapPacket, Kind
<1>5. Answer(toMap, m, p)
  BY DEF MapRegistry
<1> HIDE DEF p
<1>6. Handled(m, x)
  BY <1>1, <1>3, <1>4, <1>5, BoxesCalm, AnswerHandled
<1> QED
  BY <1>2, <1>6

LEMMA FinalSaveHandled ==
  ASSUME CharMapInv, NEW m \in Maps, CharReads(m), NEW x, x = Head(fromMap[m]),
         x.cmd = "save", x.final, MapFinalSave(m, x.aid, x.char_id)
  PROVE  Handled(m, x) /\ MapStep
<1> DEFINE p == [cmd |-> "save_ack", aid |-> x.aid, char_id |-> x.char_id]
<1>1. /\ x.aid \in Accounts /\ x.char_id \in CharsOf[x.aid] /\ x.char_id \in Chars
  BY ReadsRequest, RequestFields
<1>2. MapStep
  BY <1>1 DEF MapStep
<1>3. UNCHANGED cargo
  BY CargoStays
<1>4. p \in MapPacket /\ p.cmd = "save_ack" /\ \A b : Kind(p, b) \in {"quiet", Kind(x, b)}
  BY <1>1 DEF MapPacket, Kind
<1>5. Answer(toMap, m, p)
  BY DEF MapFinalSave
<1> HIDE DEF p
<1>6. Handled(m, x)
  BY <1>1, <1>3, <1>4, <1>5, BoxesCalm, AnswerHandled
<1> QED
  BY <1>2, <1>6

LEMMA SelectHandled ==
  ASSUME CharMapInv, NEW m \in Maps, CharReads(m), NEW x, x = Head(fromMap[m]),
         x.cmd = "select", MapCharSelect(m, x.aid, x.login_id)
  PROVE  Handled(m, x) /\ MapStep
<1> DEFINE p == [cmd |-> "select_ack", aid |-> x.aid, ok |-> TRUE]
<1>1. x.aid \in Accounts /\ x.login_id \in LoginIds
  BY ReadsRequest, RequestFields
<1>2. MapStep
  BY <1>1 DEF MapStep
<1>3. UNCHANGED cargo
  BY CargoStays
<1>4. p \in MapPacket /\ p.cmd = "select_ack" /\ \A b : Kind(p, b) = "quiet"
  BY <1>1 DEF MapPacket, Kind
<1>5. Answer(toMap, m, p)
  BY DEF MapCharSelect
<1> HIDE DEF p
<1>6. Handled(m, x)
  BY <1>1, <1>3, <1>4, <1>5, BoxesCalm, AnswerHandled
<1> QED
  BY <1>2, <1>6

\* Saves that are not the last, announcements: nobody is answered.
LEMMA SaveHandled ==
  ASSUME CharMapInv, NEW m \in Maps, CharReads(m), NEW x, x = Head(fromMap[m]),
         x.cmd = "save", MapSave(m, x.aid, x.char_id)
  PROVE  Handled(m, x) /\ MapStep
<1>1. x.aid \in Accounts /\ x.char_id \in Chars
  BY ReadsRequest, RequestFields
<1>2. MapStep
  BY <1>1 DEF MapStep
<1>3. UNCHANGED cargo
  BY CargoStays
<1>4. toMap' \in {toMap, KickOther(x.aid, m)}
  BY DEF MapSave
<1> QED
  BY <1>1, <1>2, <1>3, <1>4, BoxesCalm, CalmHandled

LEMMA OfflineHandled ==
  ASSUME CharMapInv, NEW m \in Maps, CharReads(m), NEW x, x = Head(fromMap[m]),
         x.cmd = "offline", MapSetOffline(m, x.aid, x.char_id)
  PROVE  Handled(m, x) /\ MapStep
<1>1. x.aid \in Accounts /\ x.char_id \in Chars
  BY ReadsRequest, RequestFields
<1>2. MapStep
  BY <1>1 DEF MapStep
<1>3. UNCHANGED cargo
  BY CargoStays
<1>4. UNCHANGED toMap
  BY DEF MapSetOffline
<1> QED
  BY <1>1, <1>2, <1>3, <1>4, BoxesCalm, CalmHandled

LEMMA UsersHandled ==
  ASSUME CharMapInv, NEW m \in Maps, CharReads(m), NEW x, x = Head(fromMap[m]),
         x.cmd = "users", MapUsers(m, x.who)
  PROVE  Handled(m, x) /\ MapStep
<1>1. PICK S \in SUBSET Accounts :
        x.who \in [S -> Chars] /\ \A a \in S : x.who[a] \in CharsOf[a]
  BY ReadsRequest, RequestFields
<1>2. MapStep
  BY <1>1 DEF MapStep
<1>3. UNCHANGED cargo
  BY CargoStays
<1>4. \A n \in Maps : Calmer(toMap[n], toMap'[n])
  <2> DEFINE K == {a \in DOMAIN x.who : InGame(a) /\ char_online[a].server # m}
  <2>1. K \in SUBSET Accounts
    BY <1>1
  <2>2. KickAll(K)
    BY DEF MapUsers
  <2> HIDE DEF K
  <2> QED
    BY <2>1, <2>2, KickAllCalm DEF CharMapInv, TablesInv
<1> QED
  BY <1>2, <1>3, <1>4, CalmHandled

LEMMA RequestHandled ==
  ASSUME CharMapInv, NEW m \in Maps, CharReads(m)
  PROVE  /\ Handled(m, Head(fromMap[m])) /\ MapStep
         /\ UNCHANGED <<sess, map_fd>>
<1> DEFINE x == Head(fromMap[m])
<1>1. \/ x.cmd = "auth_req" /\ (LetsIn(m, x) \/ (Refuses(m, x) /\ UNCHANGED cargo))
      \/ x.cmd = "registry" /\ MapRegistry(m, x.aid, x.char_id)
      \/ x.cmd = "save" /\ x.final /\ MapFinalSave(m, x.aid, x.char_id)
      \/ x.cmd = "save" /\ ~x.final /\ MapSave(m, x.aid, x.char_id)
      \/ x.cmd = "offline" /\ MapSetOffline(m, x.aid, x.char_id)
      \/ x.cmd = "users" /\ MapUsers(m, x.who)
      \/ x.cmd = "select" /\ MapCharSelect(m, x.aid, x.login_id)
  BY DEF CharReads
<1>2. UNCHANGED <<sess, map_fd>>
  BY <1>1 DEF LetsIn, Refuses, MapAuthOk, MapAuthFailed, MapAuthNotLoaded, MapRegistry,
              MapFinalSave, MapSave, MapSetOffline, MapUsers, MapCharSelect, FromMap
<1> HIDE DEF x
<1>3. x = Head(fromMap[m])
  BY DEF x
<1>4. Handled(m, x) /\ MapStep
  BY <1>1, <1>3, AuthReqHandled, RegistryHandled, FinalSaveHandled, SaveHandled,
     OfflineHandled, UsersHandled, SelectHandled
<1> QED
  BY <1>2, <1>4 DEF x

\* What is saved is what was written, and a last save is always stored.
LEMMA Stored ==
  ASSUME CharMapInv, NEW m \in Maps, CharReads(m)
  PROVE  /\ StoreOK'
         /\ \A ch \in Chars : written[ch] \subseteq written'[ch]
         /\ \A b : Kind(Head(fromMap[m]), b) = "leaving" =>
              Head(fromMap[m]).data \subseteq written'[Head(fromMap[m]).char_id]
<1> DEFINE x == Head(fromMap[m])
<1>1. x \in MapsPacket
  BY ReadsRequest
<1>2. IF x.cmd = "save" /\ SaveCounts(x) THEN Stores(m, x)
                                         ELSE UNCHANGED <<db, written>>
  BY DEF CharReads
<1>3. \A b : Kind(x, b) = "leaving" => x.cmd = "save" /\ SaveCounts(x)
  BY <1>1, RequestFields DEF Kind, SaveCounts
<1>4. /\ db \in [Chars -> SUBSET (1..MaxEdits)]
      /\ written \in [Chars -> SUBSET (1..MaxEdits)]
  BY DEF CharMapInv, StoreOK
<1> HIDE DEF x
<1>5. CASE x.cmd = "save" /\ SaveCounts(x)
  <2>1. x.char_id \in Chars /\ x.data \in SUBSET (1..MaxEdits)
    BY <1>1, <1>5, RequestFields
  <2>2. /\ db' = [db EXCEPT ![x.char_id] = x.data]
        /\ written' = [written EXCEPT ![x.char_id] = @ \cup x.data]
    BY <1>2, <1>5 DEF Stores
  <2>3. StoreOK'
    BY <1>4, <2>1, <2>2 DEF StoreOK
  <2>4. /\ \A ch \in Chars : written[ch] \subseteq written'[ch]
        /\ x.data \subseteq written'[x.char_id]
    BY <1>4, <2>1, <2>2
  <2> QED
    BY <2>3, <2>4 DEF x
<1>6. CASE ~(x.cmd = "save" /\ SaveCounts(x))
  BY <1>2, <1>3, <1>4, <1>6 DEF StoreOK, x
<1> QED
  BY <1>5, <1>6

LEMMA CharReadsOK ==
  ASSUME CharMapInv, NEW m \in Maps, CharReads(m)
  PROVE  CharMapInv' /\ AllHonest
<1> DEFINE x == Head(fromMap[m])
           f == fromMap[m]
           t == toMap[m]
<1>1. /\ map_fd[m] /\ f # <<>> /\ f \in Seq(MapsPacket) /\ Tail(f) \in Seq(MapsPacket)
      /\ x \in MapsPacket /\ fromMap' = [fromMap EXCEPT ![m] = Tail(f)]
      /\ UNCHANGED <<pl, dup, told, logins, breaks, edits>>
  BY ReadsRequest
<1>2. Handled(m, x) /\ MapStep /\ UNCHANGED <<sess, map_fd>>
  BY RequestHandled
<1>3. /\ StoreOK' /\ \A ch \in Chars : written[ch] \subseteq written'[ch]
      /\ \A b : Kind(x, b) = "leaving" => x.data \subseteq written'[x.char_id]
  BY Stored
<1>4. TablesInv'
  <2>1. CharInv' /\ QueuesOK'
    BY <1>2, MapStepOK, MapStepQueues DEF CharMapInv, TablesInv
  <2>2. LetInOK'
    BY <1>2 DEF CharMapInv, TablesInv, LetInOK
  <2> QED
    BY <2>1, <2>2 DEF TablesInv
<1>5. PlayersOK' /\ DupOK' /\ SentOK' /\ CountsOK' /\ AllHonest
  BY <1>1 DEF CharMapInv, PlayersOK, DupOK, SentOK, CountsOK, AllHonest, Honest
<1>6. BoxesOK'
  BY <1>1, <1>2 DEF CharMapInv, BoxesOK
<1>7. \A n \in Maps : toMap[n] \in Seq(MapPacket) /\ toMap'[n] \in Seq(MapPacket)
  BY <1>4 DEF CharMapInv, TablesInv, QueuesOK
<1> DEFINE answered(s, p) ==
             /\ Calmer(t, s) /\ toMap'[m] = Append(s, p)
             /\ \A b : Kind(p, b) \in {"quiet", Kind(x, b)}
             /\ IF p.cmd = "auth_ok"
                THEN /\ cargo' = [cargo EXCEPT ![m] = Append(@, db[x.char_id])]
                     /\ x.char_id \in Chars
                ELSE UNCHANGED cargo
<1>8. /\ \A n \in Maps \ {m} : Calmer(toMap[n], toMap'[n])
      /\ \/ Calmer(t, toMap'[m]) /\ UNCHANGED cargo
         \/ \E s \in Seq(MapPacket), p \in MapPacket : answered(s, p)
  BY <1>2 DEF Handled
<1>9. CargoOK'
  <2>1. /\ cargo \in [Maps -> Seq(SUBSET (1..MaxEdits))]
        /\ \A n \in Maps : IF map_fd[n] THEN Carries(toMap[n], cargo[n], Anything)
                                        ELSE cargo[n] = <<>>
    BY DEF CharMapInv, CargoOK
  <2>2. /\ cargo' \in [Maps -> Seq(SUBSET (1..MaxEdits))]
        /\ \A n \in Maps \ {m} : cargo'[n] = cargo[n]
        /\ Carries(toMap'[m], cargo'[m], Anything)
    <3>1. CASE Calmer(t, toMap'[m]) /\ UNCHANGED cargo
      BY <1>1, <1>7, <2>1, <3>1, CalmCarries
    <3>2. ASSUME NEW s \in Seq(MapPacket), NEW p \in MapPacket, answered(s, p)
          PROVE  /\ cargo' \in [Maps -> Seq(SUBSET (1..MaxEdits))]
                 /\ \A n \in Maps \ {m} : cargo'[n] = cargo[n]
                 /\ Carries(toMap'[m], cargo'[m], Anything)
      <4>1. Carries(s, cargo[m], Anything) /\ toMap'[m] = Append(s, p)
        BY <1>1, <1>7, <2>1, <3>2, CalmCarries
      <4>2. CASE p.cmd = "auth_ok"
        <5> DEFINE d == db[x.char_id]
        <5>1. d \in SUBSET (1..MaxEdits) /\ cargo[m] \in Seq(SUBSET (1..MaxEdits))
          BY <2>1, <3>2, <4>2 DEF CharMapInv, StoreOK
        <5>2. cargo' = [cargo EXCEPT ![m] = Append(cargo[m], d)]
          BY <2>1, <3>2, <4>2
        <5> HIDE DEF d, answered, x, t, f
        <5>3. Append(cargo[m], d) \in Seq(SUBSET (1..MaxEdits))
          BY <5>1
        <5>4. Carries(Append(s, p), Append(cargo[m], d), Anything)
          <6>1. <<p, d>> \in Anything
            BY <5>1 DEF Anything
          <6> QED
            BY <4>1, <4>2, <5>1, <6>1, CarriesAppend
        <5> QED
          BY <2>1, <4>1, <5>2, <5>3, <5>4
      <4>3. CASE p.cmd # "auth_ok"
        <5>1. UNCHANGED cargo
          BY <3>2, <4>3
        <5>2. Append(s, p) \in Seq(MapPacket) /\ Len(s) <= Len(Append(s, p))
              /\ \A i \in 1..Len(s) : Append(s, p)[i] = s[i]
          OBVIOUS
        <5>3. \A i \in (Len(s) + 1)..Len(Append(s, p)) : Append(s, p)[i].cmd # "auth_ok"
          BY <4>3
        <5>4. Carries(Append(s, p), cargo[m], Anything)
          BY <4>1, <5>2, <5>3, CarriesExtended
        <5> QED
          BY <2>1, <4>1, <5>1, <5>4
      <4> QED
        BY <4>2, <4>3
    <3> HIDE DEF answered
    <3> QED
      BY <1>8, <3>1, <3>2
  <2>3. ASSUME NEW n \in Maps
        PROVE  IF map_fd'[n] THEN Carries(toMap'[n], cargo'[n], Anything)
                             ELSE cargo'[n] = <<>>
    BY <1>1, <1>2, <1>7, <1>8, <2>1, <2>2, CalmCarries
  <2> QED
    BY <2>2, <2>3 DEF CargoOK
<1>10. ASSUME NEW n \in Maps, NEW b \in Accounts
       PROVE  Orderly(fromMap'[n], Coming(n)', b, pl'[n][b], written')
  <2> DEFINE r == pl[n][b]
  <2>1. /\ Orderly(fromMap[n], Coming(n), b, r, written)
        /\ fromMap[n] \in Seq(MapsPacket) /\ Coming(n) \in Seq(MapPacket)
        /\ r.st = "logout" => r.ch \in Chars
    BY InvTypes, CharCodes DEF CharMapInv, OrderOK, PlayerOK
  <2>2. Orderly(fromMap[n], Coming(n), b, r, written')
    BY <1>3, <2>1, OrderlyWritten
  <2>3. pl'[n][b] = r
    BY <1>1
  <2> HIDE DEF r
  <2>4. CASE n # m
    <3>1. fromMap'[n] = fromMap[n]
      BY <1>1, <2>4 DEF CharMapInv, BoxesOK
    <3>2. Extended(fromMap[n], fromMap[n], b)
      BY <2>1, ExtendedSame
    <3>3. CASE map_fd[n]
      <4>1. Coming(n) = toMap[n] /\ Coming(n)' = toMap'[n]
        BY <1>2, <3>3 DEF Coming
      <4>2. Extended(toMap[n], toMap'[n], b)
        BY <1>8, <2>4 DEF Calmer
      <4> QED
        BY <1>7, <2>1, <2>2, <2>3, <3>1, <3>2, <4>1, <4>2, OrderlyExtended
    <3>4. CASE ~map_fd[n]
      <4>1. Coming(n)' = Coming(n)
        BY <1>2, <3>4 DEF Coming
      <4> QED
        BY <2>2, <2>3, <3>1, <4>1
    <3> QED
      BY <3>3, <3>4
  <2>5. CASE n = m
    <3>1. fromMap'[m] = Tail(f) /\ Coming(m) = t /\ Coming(m)' = toMap'[m]
      BY <1>1, <1>2 DEF Coming, CharMapInv, BoxesOK
    <3>2. Orderly(f, t, b, r, written') /\ t \in Seq(MapPacket)
      BY <1>7, <2>2, <2>5, <3>1
    <3>3. Extended(f, f, b)
      BY <1>1, ExtendedSame
    <3>4. CASE Calmer(t, toMap'[m])
      <4>1. Extended(t, toMap'[m], b)
        BY <3>4 DEF Calmer
      <4>2. Orderly(f, toMap'[m], b, r, written')
        BY <1>1, <1>7, <3>2, <3>3, <4>1, OrderlyExtended
      <4>3. Orderly(Tail(f), toMap'[m], b, r, written')
        BY <1>1, <1>7, <4>2, OrderlyTail
      <4> QED
        BY <2>3, <2>5, <3>1, <4>3
    <3>5. ASSUME NEW s \in Seq(MapPacket), NEW p \in MapPacket, answered(s, p)
          PROVE  Orderly(fromMap'[n], Coming(n)', b, pl'[n][b], written')
      <4>1. /\ Extended(t, s, b) /\ toMap'[m] = Append(s, p)
            /\ Kind(p, b) \in {"quiet", Kind(x, b)}
        BY <3>5 DEF Calmer
      <4>2. Orderly(f, s, b, r, written')
        BY <1>1, <3>2, <3>3, <4>1, OrderlyExtended
      <4>3. Kind(x, b) = "leaving" => x.data \subseteq written'[x.char_id]
        BY <1>3
      <4>4. Orderly(Tail(f), Append(s, p), b, r, written')
        BY <1>1, <4>1, <4>2, <4>3, OrderlyMove
      <4> QED
        BY <2>3, <2>5, <3>1, <4>1, <4>4
    <3> HIDE DEF answered
    <3> QED
      BY <1>8, <3>4, <3>5
  <2> QED
    BY <2>4, <2>5
<1>11. OrderOK'
  BY <1>10 DEF OrderOK
<1> QED
  BY <1>3, <1>4, <1>5, <1>6, <1>9, <1>11 DEF CharMapInv

----------------------------------------------------------------------------
(* Links *)

\* The link of m changes, and what was under way over it is gone: f is what m has
\* written since.
LEMMA LinkSide ==
  ASSUME CharMapInv, NEW m \in Maps, MapStep, UNCHANGED sess,
         NEW f \in Seq(MapsPacket),
         fromMap' = [fromMap EXCEPT ![m] = f], ~map_fd'[m] => f = <<>>,
         \A n \in Maps \ {m} : /\ map_fd'[n] = map_fd[n] /\ toMap'[n] = toMap[n]
                               /\ \A b \in Accounts : pl'[n][b] = pl[n][b],
         cargo' = [cargo EXCEPT ![m] = <<>>],
         map_fd'[m] => toMap'[m] = <<>>,
         PlayersOK', \A b \in Accounts : Honest(pl[m][b], pl'[m][b], written),
         UNCHANGED <<dup, told, db, written, logins, edits>>,
         \A b \in Accounts : Orderly(f, <<>>, b, pl'[m][b], written)
  PROVE  CharMapInv' /\ AllHonest
<1>1. TablesInv'
  <2>1. CharInv' /\ QueuesOK'
    BY MapStepOK, MapStepQueues DEF CharMapInv, TablesInv
  <2>2. LetInOK'
    BY DEF CharMapInv, TablesInv, LetInOK
  <2> QED
    BY <2>1, <2>2 DEF TablesInv
<1>2. DupOK' /\ SentOK' /\ StoreOK' /\ CountsOK'
  BY DEF CharMapInv, DupOK, SentOK, StoreOK, CountsOK
<1>3. BoxesOK'
  BY DEF CharMapInv, BoxesOK
<1>4. CargoOK'
  <2>1. /\ cargo \in [Maps -> Seq(SUBSET (1..MaxEdits))]
        /\ \A n \in Maps : IF map_fd[n] THEN Carries(toMap[n], cargo[n], Anything)
                                         ELSE cargo[n] = <<>>
    BY DEF CharMapInv, CargoOK
  <2>2. <<>> \in Seq(SUBSET (1..MaxEdits))
    OBVIOUS
  <2>3. /\ cargo' \in [Maps -> Seq(SUBSET (1..MaxEdits))]
        /\ \A n \in Maps : cargo'[n] = IF n = m THEN <<>> ELSE cargo[n]
    BY <2>1, <2>2
  <2>4. ASSUME NEW n \in Maps
        PROVE  IF map_fd'[n] THEN Carries(toMap'[n], cargo'[n], Anything)
                             ELSE cargo'[n] = <<>>
    BY <2>1, <2>3, CarriesEmpty
  <2> QED
    BY <2>3, <2>4 DEF CargoOK
<1>5. ASSUME NEW n \in Maps, NEW b \in Accounts
      PROVE  Orderly(fromMap'[n], Coming(n)', b, pl'[n][b], written')
  <2>1. CASE n = m
    <3>1. Coming(m)' = <<>> /\ fromMap'[m] = f
      BY DEF Coming, CharMapInv, BoxesOK
    <3> QED
      BY <2>1, <3>1
  <2>2. CASE n # m
    <3>1. /\ Coming(n)' = Coming(n) /\ fromMap'[n] = fromMap[n]
          /\ pl'[n][b] = pl[n][b]
      BY <2>2 DEF Coming, CharMapInv, BoxesOK
    <3> QED
      BY <3>1 DEF CharMapInv, OrderOK
  <2> QED
    BY <2>1, <2>2
<1>6. OrderOK'
  BY <1>5 DEF OrderOK
<1>7. AllHonest
  BY DEF AllHonest, Honest
<1> QED
  BY <1>1, <1>2, <1>3, <1>4, <1>6, <1>7 DEF CharMapInv

LEMMA LinkBreaksOK ==
  ASSUME CharMapInv, NEW m \in Maps, LinkBreaks(m)
  PROVE  CharMapInv' /\ AllHonest
<1>1. /\ MapDisconnects(m)
      /\ fromMap' = [fromMap EXCEPT ![m] = <<>>]
      /\ cargo' = [cargo EXCEPT ![m] = <<>>]
      /\ UNCHANGED <<pl, dup, told, db, written, logins, edits>>
  BY DEF LinkBreaks
<1>2. /\ MapStep /\ UNCHANGED <<sess, toMap>>
      /\ map_fd' = [map_fd EXCEPT ![m] = FALSE]
  BY <1>1 DEF MapStep, MapDisconnects
<1>3. /\ ~map_fd'[m] /\ \A n \in Maps \ {m} : map_fd'[n] = map_fd[n]
  BY <1>2, InvTypes
<1>4. <<>> \in Seq(MapsPacket)
  OBVIOUS
<1>5. \A a \in Accounts : Honest(pl[m][a], pl'[m][a], written)
  BY <1>1 DEF Honest
<1>6. PlayersOK'
  BY <1>1 DEF CharMapInv, PlayersOK
<1>7. \A n \in Maps \ {m} : pl'[n] = pl[n]
  BY <1>1
<1>8. \A a \in Accounts : Orderly(<<>>, <<>>, a, pl'[m][a], written)
  BY OrderlyEmpty
<1> QED
  BY <1>1, <1>2, <1>3, <1>4, <1>5, <1>6, <1>7, <1>8, LinkSide

\* Whoever is in the world is announced as one of his own characters.
LEMMA UsersWritten ==
  ASSUME CharMapInv, NEW m \in Maps
  PROVE  LET u == [cmd |-> "users", who |-> [a \in InWorld(m) |-> pl[m][a].ch]] IN
         u \in MapsPacket /\ \A b : Kind(u, b) = "quiet"
<1> DEFINE who == [a \in InWorld(m) |-> pl[m][a].ch]
           u   == [cmd |-> "users", who |-> who]
<1>1. \A a \in InWorld(m) : pl[m][a].ch \in CharsOf[a] /\ pl[m][a].ch \in Chars
  BY InvTypes, CharCodes DEF InWorld, PlayerOK
<1>2. /\ who \in [InWorld(m) -> Chars] /\ InWorld(m) \in SUBSET Accounts
      /\ DOMAIN who = InWorld(m) /\ \A a \in InWorld(m) : who[a] \in CharsOf[a]
  BY <1>1 DEF InWorld
<1> HIDE DEF who
<1>3. who \in UNION {[S -> Chars] : S \in SUBSET Accounts}
  BY <1>2
<1>4. u \in FromPacket
  BY <1>3 DEF FromPacket
<1>5. OwnPacket(u)
  BY <1>2 DEF OwnPacket
<1>6. \A b : Kind(u, b) = "quiet"
  BY DEF Kind
<1> QED
  BY <1>4, <1>5, <1>6 DEF MapsPacket, who

\* What a map server writes about a node when the link is made again.
LEMMA NodeWritten ==
  ASSUME CharMapInv, NEW m \in Maps, NEW a \in Nodes(m)
  PROVE  /\ NodePacket(m, a) \in MapsPacket
         /\ \A b \in Accounts : Kind(NodePacket(m, a), b) # "quiet" =>
              /\ b = a /\ pl[m][a].st = "logout"
              /\ NodePacket(m, a) = SaveOf(m, a, TRUE)
              /\ Kind(NodePacket(m, a), b) = "leaving"
<1>1. a \in Accounts /\ pl[m][a].st \in {"login", "loaded", "logout"}
  BY DEF Nodes
<1>0. PlayersOK /\ pl[m][a].st # "none" /\ TRUE \in BOOLEAN
  BY <1>1 DEF CharMapInv
<1>2. /\ OfflineOf(m, a) \in MapsPacket /\ SaveOf(m, a, TRUE) \in MapsPacket
      /\ \A b : Kind(OfflineOf(m, a), b) = "quiet"
      /\ About(a, SaveOf(m, a, TRUE))
      /\ Kind(SaveOf(m, a, TRUE), a) = "leaving"
  BY <1>0, <1>1, Written
<1>3. CASE LoggingIn(m, a)
  BY <1>2, <1>3 DEF NodePacket, GivesUp
<1>4. CASE ~LoggingIn(m, a)
  <2>1. pl[m][a].st = "logout" /\ NodePacket(m, a) = SaveOf(m, a, TRUE)
    BY <1>1, <1>4 DEF LoggingIn, NodePacket, GivesUp
  <2> QED
    BY <1>2, <2>1 DEF About
<1> QED
  BY <1>3, <1>4

\* A new box in which only the last save of session q speaks of a.
LEMMA OrderlyAnew ==
  ASSUME NEW f, NEW a, NEW q, NEW w,
         \A i \in 1..Len(f) : Kind(f[i], a) # "quiet" =>
           /\ Kind(f[i], a) = "leaving" /\ q.st = "logout"
           /\ f[i].char_id = q.ch /\ f[i].data = q.data
  PROVE  Orderly(f, <<>>, a, q, w)
<1>1. 1..Len(<<>>) = {}
  OBVIOUS
<1>2. \A K \in {Entry, Leaving, {"registry"}} : "quiet" \notin K
  BY DEF Entry, Leaving
<1>3. "leaving" \notin Entry /\ "leaving" \notin {"registry"}
  BY DEF Entry
<1> QED
  BY <1>1, <1>2, <1>3 DEF Orderly, InOrder, Silent, Faithful

\* What m writes when its link is made again: who is in the world, then its nodes.
Announced(m) ==
  <<[cmd |-> "users", who |-> [a \in InWorld(m) |-> pl[m][a].ch]]>> \o
  [i \in 1..Cardinality(Nodes(m)) |-> NodePacket(m, Listed(Nodes(m))[i])]

LEMMA AnnouncedOK ==
  ASSUME CharMapInv, NEW m \in Maps
  PROVE  /\ Announced(m) \in Seq(MapsPacket)
         /\ \A i \in 1..Len(Announced(m)) :
              \/ /\ Announced(m)[i].cmd = "users"
                 /\ \A b : Kind(Announced(m)[i], b) = "quiet"
              \/ \E a \in Nodes(m) : Announced(m)[i] = NodePacket(m, a)
<1> DEFINE u == [cmd |-> "users", who |-> [a \in InWorld(m) |-> pl[m][a].ch]]
           N == Cardinality(Nodes(m))
           s == [i \in 1..N |-> NodePacket(m, Listed(Nodes(m))[i])]
           f == <<u>> \o s
<1>1. /\ N \in Nat /\ \A i \in 1..N : Listed(Nodes(m))[i] \in Nodes(m)
  <2>1. Nodes(m) \in SUBSET Accounts
    BY DEF Nodes
  <2> QED
    BY <2>1, ListedOK
<1>2. u \in MapsPacket /\ u.cmd = "users" /\ \A b : Kind(u, b) = "quiet"
  BY UsersWritten
<1>3. \A i \in 1..N : s[i] \in MapsPacket
  BY <1>1, NodeWritten
<1>4. \A i \in 1..N : \E a \in Nodes(m) : s[i] = NodePacket(m, a)
  BY <1>1
<1>5. s = [i \in 1..N |-> s[i]]
  OBVIOUS
<1>6. Announced(m) = f
  BY DEF Announced
<1> HIDE DEF s, u, N
<1>7. s \in Seq(MapsPacket) /\ Len(s) = N
  BY <1>1, <1>3, <1>5
<1>8. <<u>> \in Seq(MapsPacket) /\ Len(<<u>>) = 1 /\ <<u>>[1] = u
  BY <1>2
<1>9. /\ Len(f) = Len(<<u>>) + Len(s)
      /\ \A i \in 1..(Len(<<u>>) + Len(s)) :
           f[i] = IF i <= Len(<<u>>) THEN <<u>>[i] ELSE s[i - Len(<<u>>)]
  BY <1>7, <1>8, ConcatProperties
<1>10. f \in Seq(MapsPacket)
  BY <1>7, <1>8, ConcatProperties
<1> HIDE DEF f
<1>11. /\ Len(f) = N + 1
       /\ \A i \in 1..(N + 1) : f[i] = IF i = 1 THEN u ELSE s[i - 1]
  BY <1>1, <1>7, <1>8, <1>9
<1>12. ASSUME NEW i \in 1..Len(f)
       PROVE  \/ f[i].cmd = "users" /\ \A b : Kind(f[i], b) = "quiet"
              \/ \E a \in Nodes(m) : f[i] = NodePacket(m, a)
  <2>1. CASE i = 1
    BY <1>1, <1>2, <1>11, <2>1
  <2>2. CASE i # 1
    <3>1. i - 1 \in 1..N /\ f[i] = s[i - 1]
      BY <1>1, <1>11, <2>2
    <3> QED
      BY <1>4, <3>1
  <2> QED
    BY <2>1, <2>2
<1> QED
  BY <1>6, <1>10, <1>12

LEMMA ReconnectsOK ==
  ASSUME CharMapInv, NEW m \in Maps, Reconnects(m)
  PROVE  CharMapInv' /\ AllHonest
<1> DEFINE f == Announced(m)
<1>1. /\ MapConnects(m)
      /\ fromMap' = [fromMap EXCEPT ![m] = f]
      /\ pl' = [pl EXCEPT ![m] = [a \in Accounts |->
                  IF GivesUp(m, a) THEN Gone ELSE pl[m][a]]]
      /\ UNCHANGED <<cargo, dup, told, db, written, logins, edits>>
  BY DEF Reconnects, Announced
<1>2. /\ MapStep /\ UNCHANGED sess /\ ~map_fd[m]
      /\ map_fd' = [map_fd EXCEPT ![m] = TRUE]
      /\ toMap' = [toMap EXCEPT ![m] = <<>>]
  BY <1>1 DEF MapStep, MapConnects
<1>3. /\ map_fd'[m] /\ toMap'[m] = <<>>
      /\ \A n \in Maps \ {m} : map_fd'[n] = map_fd[n] /\ toMap'[n] = toMap[n]
  BY <1>2, InvTypes DEF CharMapInv, TablesInv, QueuesOK
<1>4. cargo' = [cargo EXCEPT ![m] = <<>>]
  BY <1>1, <1>2 DEF CharMapInv, CargoOK
<1>11. f \in Seq(MapsPacket)
  BY AnnouncedOK
<1>12. ASSUME NEW a \in Accounts
       PROVE  pl'[m][a] = IF LoggingIn(m, a) THEN Gone ELSE pl[m][a]
  BY <1>1 DEF GivesUp, CharMapInv, PlayersOK
<1>13. ASSUME NEW a \in Accounts
       PROVE  /\ PlayerOK(a, pl'[m][a]) /\ pl'[m][a] \in Player
              /\ Honest(pl[m][a], pl'[m][a], written)
  BY <1>12, MapFacts, Deleted
<1>14. /\ \A n \in Maps \ {m} : pl'[n] = pl[n]
       /\ pl' \in [Maps -> [Accounts -> Player]]
  <2> DEFINE row == [a \in Accounts |-> IF GivesUp(m, a) THEN Gone ELSE pl[m][a]]
  <2>1. pl' = [pl EXCEPT ![m] = row] /\ pl \in [Maps -> [Accounts -> Player]]
    BY <1>1 DEF CharMapInv, PlayersOK
  <2>2. pl'[m] = row
    BY <2>1
  <2>3. row \in [Accounts -> Player]
    BY <1>13, <2>2
  <2> HIDE DEF row
  <2> QED
    BY <2>1, <2>3
<1>15. PlayersOK'
  <2>1. ASSUME NEW n \in Maps, NEW a \in Accounts PROVE PlayerOK(a, pl'[n][a])
    BY <1>13, <1>14 DEF CharMapInv, PlayersOK
  <2>2. \A n \in Maps, a \in Accounts : PlayerOK(a, pl[n][a])'
    BY <2>1 DEF PlayerOK
  <2> QED
    BY <1>14, <2>2 DEF PlayersOK
<1>16. ASSUME NEW a \in Accounts
       PROVE  Orderly(f, <<>>, a, pl'[m][a], written)
  <2>1. ASSUME NEW i \in 1..Len(f), Kind(f[i], a) # "quiet"
        PROVE  /\ Kind(f[i], a) = "leaving" /\ pl'[m][a].st = "logout"
               /\ f[i].char_id = pl'[m][a].ch /\ f[i].data = pl'[m][a].data
    <3>1. PICK b \in Nodes(m) : f[i] = NodePacket(m, b)
      BY <2>1, AnnouncedOK
    <3>2. \A c \in Accounts : Kind(NodePacket(m, b), c) # "quiet" =>
            /\ c = b /\ pl[m][b].st = "logout"
            /\ NodePacket(m, b) = SaveOf(m, b, TRUE)
            /\ Kind(NodePacket(m, b), c) = "leaving"
      BY NodeWritten
    <3> HIDE DEF f
    <3>3. /\ pl[m][a].st = "logout" /\ f[i] = SaveOf(m, a, TRUE)
          /\ Kind(f[i], a) = "leaving"
      BY <2>1, <3>1, <3>2
    <3>4. pl'[m][a] = pl[m][a]
      BY <1>12, <3>3 DEF LoggingIn
    <3>5. f[i].char_id = pl[m][a].ch /\ f[i].data = pl[m][a].data
      BY <3>3 DEF SaveOf
    <3> QED
      BY <3>3, <3>4, <3>5
  <2> QED
    BY <2>1, OrderlyAnew
<1>17. f \in Seq(MapsPacket) /\ \A a \in Accounts : Honest(pl[m][a], pl'[m][a], written)
  BY <1>11, <1>13
<1>18. \A n \in Maps \ {m} : /\ map_fd'[n] = map_fd[n] /\ toMap'[n] = toMap[n]
                              /\ \A b \in Accounts : pl'[n][b] = pl[n][b]
  BY <1>3, <1>14
<1>19. \A b \in Accounts : Orderly(f, <<>>, b, pl'[m][b], written)
  BY <1>16
<1> QED
  BY <1>1, <1>2, <1>3, <1>4, <1>15, <1>17, <1>18, <1>19, LinkSide

----------------------------------------------------------------------------
(* The whole system *)

LEMMA CharMapInitOK == CharMapInit => CharMapInv
<1> SUFFICES ASSUME CharMapInit PROVE CharMapInv
  OBVIOUS
<1>1. Nobody \in OnlineRecord /\ Closed \in Session /\ NoNodeC \in CharTicket
  BY DEF Nobody, Closed, NoNodeC, OnlineRecord, Session, CharTicket
<1>2. TablesInv
  <2>1. RecordsOK
    BY <1>1, CharCodes DEF CharMapInit, RecordsOK, RecordOK, Nobody
  <2>2. SessOK /\ LetInOK
    BY <1>1 DEF CharMapInit, SessOK, LetInOK, Closed
  <2>3. CharTimersMatch /\ FdIsTheirs
    BY CharCodes, AccountsAssumption
       DEF CharMapInit, CharTimersMatch, FdIsTheirs, Nobody
  <2>4. CharInv
    BY <1>1, <2>1, <2>2, <2>3 DEF CharInv, CharMapInit
  <2>5. QueuesOK
    BY DEF CharMapInit, QueuesOK
  <2> QED
    BY <2>2, <2>4, <2>5 DEF TablesInv
<1>3. PlayersOK
  <2>1. Gone \in Player /\ \A a \in Accounts : PlayerOK(a, Gone)
    BY DEF Gone, Player, PlayerOK, Stages
  <2> QED
    BY <2>1 DEF CharMapInit, PlayersOK
<1>4. DupOK /\ StoreOK
  BY DEF CharMapInit, DupOK, StoreOK
<1>5. SentOK
  <2>1. Nowhere \in Place /\ Nowhere.m = -1
    BY DEF Nowhere, Place
  <2>2. -1 \notin Maps
    BY MapsAssumption
  <2> QED
    BY <2>1, <2>2 DEF CharMapInit, SentOK
<1>6. CountsOK
  BY BoundAssumption DEF CharMapInit, CountsOK
<1>7. <<>> \in Seq(MapsPacket) /\ <<>> \in Seq(SUBSET (1..MaxEdits))
  OBVIOUS
<1>8. BoxesOK /\ CargoOK
  BY <1>7, CarriesEmpty DEF CharMapInit, BoxesOK, CargoOK
<1>9. OrderOK
  BY OrderlyEmpty DEF CharMapInit, OrderOK, Coming
<1> QED
  BY <1>2, <1>3, <1>4, <1>5, <1>6, <1>8, <1>9 DEF CharMapInv

LEMMA CharMapStep ==
  CharMapInv /\ [CharMapNext]_cm_vars => CharMapInv' /\ AllHonest
<1> SUFFICES ASSUME CharMapInv, [CharMapNext]_cm_vars
             PROVE  CharMapInv' /\ AllHonest
  OBVIOUS
<1>1. CASE UNCHANGED cm_vars
  <2>1. UNCHANGED char_vars /\ UNCHANGED map_vars
    BY <1>1 DEF cm_vars
  <2>2. TablesInv' /\ \A n : Coming(n)' = Coming(n)
    BY <2>1, SameTablesInv
  <2>3. UNCHANGED <<toMap, map_fd, sess>>
    BY <2>1 DEF char_vars
  <2>4. UNCHANGED <<fromMap, cargo, pl, dup, told, db, written, logins, edits>>
    BY <2>1 DEF map_vars
  <2>5. /\ PlayersOK' /\ DupOK' /\ SentOK' /\ StoreOK' /\ CountsOK'
        /\ BoxesOK' /\ CargoOK'
    BY <2>3, <2>4
       DEF CharMapInv, PlayersOK, DupOK, SentOK, StoreOK, CountsOK, BoxesOK, CargoOK
  <2>6. OrderOK'
    BY <2>2, <2>4 DEF CharMapInv, OrderOK
  <2>7. AllHonest
    BY <2>4 DEF AllHonest, Honest
  <2> QED
    BY <2>2, <2>5, <2>6, <2>7 DEF CharMapInv
<1>2. ASSUME NEW m \in Maps, NEW a \in Accounts, PlayerStep(m, a) \/ ServerStep(m, a)
      PROVE  CharMapInv' /\ AllHonest
  BY <1>2, MapAlone
<1>3. ASSUME NEW m \in Maps,
             \/ MapReads(m) \/ CharReads(m)
             \/ LinkBreaks(m) \/ Reconnects(m)
      PROVE  CharMapInv' /\ AllHonest
  BY <1>3, MapReadsOK, CharReadsOK, LinkBreaksOK, ReconnectsOK
<1>4. ASSUME \/ \E fd \in Fds : \/ \E a \in Accounts : NewLogin(fd, a) \/ Returns(fd, a)
                                \/ \E ch \in Chars : Selects(fd, ch)
                                \/ LeavesList(fd)
             \/ \E a \in Accounts : KickedByLogin(a)
             \/ \E t \in CharTids : WaitingDisconnects(t)
             \/ CleansUp
      PROVE  CharMapInv' /\ AllHonest
  BY <1>4, CharAlone
<1> QED
  BY <1>1, <1>2, <1>3, <1>4 DEF CharMapNext

\* The tables of both servers keep their types: only a session whose last save is
\* under way has no client, and none without a client is logging in (map_quit,
\* chrif_auth_finished, clif_parse).
THEOREM CharMapTypes == CharMapSpec => []CharMapTypeOK
<1>1. CharMapInv => CharMapTypeOK
  <2> SUFFICES ASSUME CharMapInv PROVE CharMapTypeOK
    OBVIOUS
  <2>1. CharTypeOK
    BY DEF CharMapInv, TablesInv, CharInv, RecordsOK, SessOK, QueuesOK, CharTypeOK
  <2>2. pl \in [Maps -> [Accounts -> Player]]
    BY DEF CharMapInv, PlayersOK
  <2>3. dup \in [Maps -> [Accounts -> {NoChar} \cup Chars]]
    BY DEF CharMapInv, DupOK
  <2>4. db \in [Chars -> SUBSET (1..MaxEdits)]
    BY DEF CharMapInv, StoreOK
  <2>5. \A m \in Maps, a \in Accounts :
          /\ pl[m][a].st = "none" => pl[m][a] = Gone
          /\ pl[m][a].st = "logout" => pl[m][a].client = "gone"
          /\ pl[m][a].st \in {"login", "loaded"} => pl[m][a].client # "gone"
    BY DEF CharMapInv, PlayersOK, PlayerOK
  <2> QED
    BY <2>1, <2>2, <2>3, <2>4, <2>5 DEF CharMapTypeOK, Player
<1>2. CharMapInv /\ [CharMapNext]_cm_vars => CharMapInv'
  BY CharMapStep
<1> QED
  BY <1>1, <1>2, CharMapInitOK, PTL DEF CharMapSpec

\* A map server forgets a player who left only when the char server has what he
\* left with: chrif_save_ack acts on the acknowledgement of this very session's
\* last save, through repeated saves, kicks, broken links and new sessions.
THEOREM AckedSavesWritten == CharMapSpec => AckedIsSaved
<1>1. AllHonest =>
        \A m \in Maps, a \in Accounts :
          pl[m][a].st = "logout" /\ pl'[m][a].st # "logout"
            => pl[m][a].data \subseteq written[pl[m][a].ch]
  BY DEF AllHonest, Honest
<1>2. CharMapInv /\ [CharMapNext]_cm_vars =>
        /\ CharMapInv'
        /\ [\A m \in Maps, a \in Accounts :
              pl[m][a].st = "logout" /\ pl'[m][a].st # "logout"
                => pl[m][a].data \subseteq written[pl[m][a].ch]]_cm_vars
  BY <1>1, CharMapStep
<1> QED
  BY <1>2, CharMapInitOK, PTL DEF CharMapSpec, AckedIsSaved

\* While no client connects again before what was asked for it has come, nobody
\* enters the world without his data (pc_authok, intif_parse_Registers).
THEOREM PatientEntersLoaded == Patient => (CharMapSpec => EntersLoaded)
<1> SUFFICES ASSUME Patient PROVE CharMapSpec => EntersLoaded
  OBVIOUS
<1>1. AllHonest =>
        \A m \in Maps, a \in Accounts :
          pl[m][a].st # "world" /\ pl'[m][a].st = "world" => pl[m][a].st = "loaded"
  BY DEF AllHonest, Honest
<1>2. CharMapInv /\ [CharMapNext]_cm_vars =>
        /\ CharMapInv'
        /\ [\A m \in Maps, a \in Accounts :
              pl[m][a].st # "world" /\ pl'[m][a].st = "world"
                => pl[m][a].st = "loaded"]_cm_vars
  BY <1>1, CharMapStep
<1> QED
  BY <1>2, CharMapInitOK, PTL DEF CharMapSpec, EntersLoaded
=============================================================================
