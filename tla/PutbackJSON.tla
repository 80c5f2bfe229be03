----------------------------- MODULE PutbackJSON -----------------------------
(***************************************************************************)
(* The three-way JSON put-back of src/lib/putbackjson.go.  putbackJSON     *)
(* decodes three documents -- original (the server's current copy), base  *)
(* (the copy the user started from) and changed (the user's edit) -- and   *)
(* applies to original every difference between base and changed:         *)
(* applyChanges walks changed, writing created or changed values into the  *)
(* target, recursing into objects, and finally deletes from the target the *)
(* keys of base that changed no longer has.  same is the deep equality it  *)
(* uses to tell a changed scalar or array from an unchanged one.           *)
(*                                                                         *)
(* A JSON value is a leaf (a scalar, null, or an array) or an object, a    *)
(* function from a set of keys to values.  Arrays are records [items |->   *)
(* s] so that an empty array and an empty object differ.  Each of the      *)
(* three documents is chosen once; the one step is the call.  A panic of   *)
(* the Go code (a failed decode, a nil target, a failed type assertion)    *)
(* is a result with panic = TRUE.                                          *)
(***************************************************************************)
EXTENDS Integers, Sequences, FiniteSets

CONSTANTS Scalars,     \* JSON numbers, strings and booleans
          Null,        \* JSON null; also what a missing key reads as
          ArrayElems,  \* the elements of the one-element arrays
          TopKeys,     \* the keys of the documents
          SubKeys,     \* the keys of the objects nested in them
          Absent,      \* no value at a path
          Pending      \* putbackJSON not called yet

Arrays == {[items |-> s] : s \in {<<>>} \cup {<<x>> : x \in ArrayElems}}
Leaves == Scalars \cup {Null} \cup Arrays
ObjectsOver(K, V) == UNION {[D -> V] : D \in SUBSET K}
Objects == ObjectsOver(TopKeys, Leaves \cup ObjectsOver(SubKeys, Leaves))
\* What the three readers may hold: an object, the text null, or a bare
\* scalar (valid JSON that cannot decode into a jsonMap).
Docs == Objects \cup {Null} \cup Scalars

IsObject(v) == v \notin Leaves
IsArray(v) == v \in Arrays
EmptyObject == [k \in {} |-> Null]

\* The outcome of a call or of one key of the loop: a panic, or a value
\* (set = FALSE: the key is left as the target has it).
Panic == [panic |-> TRUE, set |-> FALSE, val |-> Null]
Write(v) == [panic |-> FALSE, set |-> TRUE, val |-> v]
Keep == [panic |-> FALSE, set |-> FALSE, val |-> Null]

VARIABLES original, base, changed, out
vars == <<original, base, changed, out>>

-----------------------------------------------------------------------------
(* same                                                                    *)

RECURSIVE Same(_, _)

\* Mutant: the second loop (keys only the right object has) dropped.
SameOneWay(left, right) ==
  CASE IsObject(left) ->
         /\ IsObject(right)
         /\ \A lk \in DOMAIN left : lk \in DOMAIN right /\ Same(left[lk], right[lk])
    [] IsArray(left) ->
         /\ IsArray(right)
         /\ Len(left.items) = Len(right.items)
         /\ \A n \in DOMAIN left.items : Same(left.items[n], right.items[n])
    [] OTHER -> left = right

\* Scalars by ==, objects key by key in both directions, arrays element by
\* element after comparing lengths.
Same(left, right) ==
  CASE IsObject(left) ->
         /\ IsObject(right)
         /\ \A lk \in DOMAIN left : lk \in DOMAIN right /\ Same(left[lk], right[lk])
         /\ \A rk \in DOMAIN right : rk \in DOMAIN left /\ Same(left[rk], right[rk])
    [] IsArray(left) ->
         /\ IsArray(right)
         /\ Len(left.items) = Len(right.items)
         /\ \A n \in DOMAIN left.items : Same(left.items[n], right.items[n])
    [] OTHER -> left = right

-----------------------------------------------------------------------------
(* applyChanges                                                            *)

\* Reading a nil map (a document that was the text null) finds no keys.
Entries(m) == IF m = Null THEN EmptyObject ELSE m

\* Mutant: target[k] used as it is, nil included.
TargetSubAsIs(target, k) == IF k \in DOMAIN target THEN target[k] ELSE Null

\* tsub := target[k], or a fresh object when that is nil (missing or null).
TargetSub(target, k) ==
  IF k \notin DOMAIN target \/ target[k] = Null THEN EmptyObject ELSE target[k]

\* Mutant: delete(base, k) forgotten in the object branch.
RemainingKeepsObjects(b, c) == DOMAIN b \ {k \in DOMAIN c : ~IsObject(c[k])}

\* The keys of base left after the loop deleted every key changed has.
Remaining(b, c) == DOMAIN b \ DOMAIN c

RECURSIVE ApplyChanges(_, _, _)
ApplyChanges(baseM, changedM, target) ==
  IF target = Null THEN Panic            \* "nil target for applyChanges"
  ELSE
  LET b == Entries(baseM)
      c == Entries(changedM)
      Step(k) ==
        CASE k \notin DOMAIN b -> Write(c[k])                  \* created
          [] ~IsObject(c[k]) -> IF Same(b[k], c[k]) THEN Keep ELSE Write(c[k])
          [] OTHER ->
               LET tsub == TargetSub(target, k)
                   sub == IF IsObject(b[k]) /\ IsObject(tsub)  \* the casts
                          THEN ApplyChanges(b[k], c[k], tsub) ELSE Panic
               IN  IF sub.panic THEN Panic ELSE Write(sub.val)
      written == {k \in DOMAIN c : Step(k).set}
      dom == (DOMAIN target \cup written) \ Remaining(b, c)
  IN  IF \E k \in DOMAIN c : Step(k).panic THEN Panic
      ELSE Write([k \in dom |-> IF k \in written THEN Step(k).val ELSE target[k]])

\* mapDecode into a jsonMap: an object, or null (a nil map); anything else
\* is a decode error, on which putbackJSON panics.
Decodes(d) == IsObject(d) \/ d = Null

\* Mutant: a decode error returns nothing instead of panicking.
PutbackJSONNoPanic(o, b, c) ==
  IF \E d \in {o, b, c} : ~Decodes(d) THEN Keep ELSE ApplyChanges(b, c, o)

PutbackJSON(o, b, c) ==
  IF \E d \in {o, b, c} : ~Decodes(d) THEN Panic ELSE ApplyChanges(b, c, o)

-----------------------------------------------------------------------------

Init ==
  /\ original \in Docs /\ base \in Docs /\ changed \in Docs
  /\ out = Pending

Putback ==
  /\ out = Pending
  /\ out' = PutbackJSON(original, base, changed)
  /\ UNCHANGED <<original, base, changed>>

\* The call has returned; the result stays.
Done == out # Pending /\ UNCHANGED vars

Next == Putback \/ Done

Spec == Init /\ [][Next]_vars

-----------------------------------------------------------------------------
(* Properties.                                                             *)

Results == {Panic} \cup {Write(v) : v \in Objects}
TypeOK ==
  /\ {original, base, changed} \subseteq Docs
  /\ out \in Results \cup {Pending}

\* The value at a path of one or two keys, or Absent.
Paths == {<<k>> : k \in TopKeys} \cup {<<k, j>> : k \in TopKeys, j \in SubKeys}
Lookup(v, k) == IF IsObject(v) /\ v # Absent /\ k \in DOMAIN v THEN v[k] ELSE Absent
At(d, p) == IF Len(p) = 1 THEN Lookup(d, p[1]) ELSE Lookup(Lookup(d, p[1]), p[2])

Returned == out # Pending /\ ~out.panic

\* same is JSON equality: two documents, and so every pair of nested
\* values, are same exactly when they are equal.
SameIsDeepEquality ==
  \A x, y \in {original, base, changed} : Same(x, y) = (x = y)

\* Every path the user set to a scalar, null or array, or deleted, holds
\* the user's value after the put-back, whatever the server did since.
LocalEditsApplied ==
  Returned =>
    \A p \in Paths :
      LET c == At(changed, p)
      IN  (c # At(base, p) /\ (c = Absent \/ ~IsObject(c))) => At(out.val, p) = c

\* The put-back panics (the unchecked casts of applyChanges) only when the
\* three documents disagree on whether the value at some path is an object.
KindsAgree ==
  \A p \in Paths :
    \A x, y \in {At(d, p) : d \in {original, base, changed}} \ {Absent} :
      IsObject(x) = IsObject(y)
NoPanicWhenKindsAgree ==
  (out # Pending /\ {original, base, changed} \subseteq Objects /\ KindsAgree)
    => ~out.panic

\* A put-back of an unedited document (changed = base) leaves the server's
\* copy as it is.
PutbackWithoutEditsKeepsServer ==
  (Returned /\ base = changed) => out.val = original

=============================================================================
