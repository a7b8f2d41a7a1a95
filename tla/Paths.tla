------------------------------- MODULE Paths -------------------------------
(* Path names: the two-ended iterator over the components of a path, the       *)
(* operations built from it (ov6_types/src/path/mod.rs) and the growable       *)
(* PathBuf (path_buf.rs).                                                      *)
(*                                                                             *)
(* A path is a sequence of characters: the properties are about how it is      *)
(* split, and the three characters "/", "." and one other tell apart all the   *)
(* code does.  A component is its text; the root is <<"/">>.                   *)
EXTENDS Integers, Sequences, FiniteSets, FiniteSetsExt, SequencesExt

CONSTANTS Chars,     \* "/", "." and ordinary characters
          MaxLen,    \* of the paths walked and grown
          MaxBase    \* of the paths compared and the paths pushed

VARIABLES job,       \* "walk", "strip", "ends" or "buffer"
          path, it,  \* the path, the iterator over it
          base, bit, \* the path it is compared with, its iterator
          front, back, \* what the iterator gave at either end
          res,       \* of strip_prefix and ends_with: "busy", "some" or "none"
          comps,     \* the components the buffer ought to have
          vague      \* a relative path was pushed on an empty buffer

vars == <<job, path, it, base, bit, front, back, res, comps, vague>>

Slash == "/"
Root == <<Slash>>
Dots == {<<".">>, <<".", ".">>}
PathsOf(n) == UNION {[1..k -> Chars] : k \in 0..n}
IsAbsolute(p) == p # <<>> /\ p[1] = Slash
Positions(p, c) == {i \in DOMAIN p : p[i] = c}
Nothing == <<>>
Item(c) == <<c>>

(* What a path denotes: the root if it starts with a slash, then the longest   *)
(* runs without one.                                                           *)
ComponentsOf(p) ==
  LET starts == SetToSortSeq({i \in DOMAIN p : p[i] # Slash /\ (i > 1 => p[i-1] = Slash)}, <)
      end(i) == Min({j \in i..Len(p) : j = Len(p) \/ p[j+1] = Slash})
  IN (IF IsAbsolute(p) THEN <<Root>> ELSE <<>>) \o
     [k \in DOMAIN starts |-> SubSeq(p, starts[k], end(starts[k]))]

-----------------------------------------------------------------------------
(* Components: what is left of the path, and has_root_dir. *)
TrimLeading(i) ==
  IF i.root THEN i
  ELSE [i EXCEPT !.path = SubSeq(@, Min({k \in 1..Len(@)+1 : k = Len(@)+1 \/ @[k] # Slash}), Len(@))]

(* Faulty variant: the slash of the root is trimmed.                           *)
KeepNone(i) == 0

KeepRoot(i) == IF i.root THEN 1 ELSE 0

TrimTrailing(i) ==
  LET keep == KeepRoot(i)
  IN [i EXCEPT !.path = SubSeq(@, 1, Max({k \in 0..Len(@) : k = keep \/ (k > keep /\ @[k] # Slash)}))]

Components(p) == TrimTrailing(TrimLeading([path |-> p, root |-> IsAbsolute(p)]))

(* Iterator::next and DoubleEndedIterator::next_back: the iterator after it,   *)
(* and the item.                                                               *)
NextOf(i) ==
  IF i.path = <<>> THEN <<i, Nothing>>
  ELSE IF i.root /\ i.path[1] = Slash THEN <<TrimLeading([i EXCEPT !.root = FALSE]), Item(Root)>>
  ELSE LET cut == Min(Positions(i.path, Slash) \cup {Len(i.path) + 1})
           comp == SubSeq(i.path, 1, cut - 1)
       IN <<TrimLeading([i EXCEPT !.path = SubSeq(@, cut + 1, Len(@))]),
            IF comp = <<>> THEN Nothing ELSE Item(comp)>>

NextBackOf(i) ==
  IF i.root /\ i.path = Root THEN <<[path |-> <<>>, root |-> FALSE], Item(Root)>>
  ELSE IF i.path = <<>> THEN <<i, Nothing>>
  ELSE LET cut == Max(Positions(i.path, Slash) \cup {0})
           comp == SubSeq(i.path, cut + 1, Len(i.path))
           keep == IF cut <= 1 /\ i.root THEN 1 ELSE cut - 1
       IN <<TrimTrailing([i EXCEPT !.path = SubSeq(@, 1, keep)]),
            IF comp = <<>> THEN Nothing ELSE Item(comp)>>

(* parent, file_name; rsplit_file_at_dot behind file_stem and extension,       *)
(* split_file_at_dot behind file_prefix.                                       *)
Parent(p) ==
  LET n == NextBackOf(Components(p))
  IN IF n[2] = Nothing \/ n[2] = Item(Root) THEN Nothing ELSE Item(n[1].path)

FileName(p) ==
  LET n == NextBackOf(Components(p))[2]
  IN IF n = Nothing \/ n[1] \in Dots \cup {Root} THEN Nothing ELSE n

NoInnerDot(dot) == dot <= 1

RSplitAtDot(f) ==
  LET dot == Max(Positions(f, ".") \cup {0})
  IN IF NoInnerDot(dot) THEN [stem |-> f, ext |-> Nothing]
     ELSE [stem |-> SubSeq(f, 1, dot - 1), ext |-> Item(SubSeq(f, dot + 1, Len(f)))]

SplitAtDot(f) ==
  LET dot == Min((Positions(f, ".") \ {1}) \cup {Len(f) + 1})
  IN [prefix |-> SubSeq(f, 1, dot - 1),
      rest |-> IF dot > Len(f) THEN Nothing ELSE Item(SubSeq(f, dot + 1, Len(f)))]

-----------------------------------------------------------------------------
Init ==
  /\ job \in {"walk", "strip", "ends", "buffer"}
  /\ path \in PathsOf(IF job = "walk" THEN MaxLen ELSE MaxBase)
  /\ base \in IF job \in {"strip", "ends"} THEN PathsOf(MaxBase) ELSE {<<>>}
  /\ it = Components(path) /\ bit = Components(base)
  /\ comps = ComponentsOf(path)
  /\ front = <<>> /\ back = <<>> /\ res = "busy" /\ vague = FALSE

TakeFront ==
  /\ job = "walk"
  /\ LET n == NextOf(it) IN n[2] # Nothing /\ it' = n[1] /\ front' = front \o n[2]
  /\ UNCHANGED <<job, path, base, bit, back, res, comps, vague>>

TakeBack ==
  /\ job = "walk"
  /\ LET n == NextBackOf(it) IN n[2] # Nothing /\ it' = n[1] /\ back' = n[2] \o back
  /\ UNCHANGED <<job, path, base, bit, front, res, comps, vague>>

(* One turn of iter_after, forwards for strip_prefix and starts_with,          *)
(* backwards for ends_with.                                                    *)
PrefixEnds(n, m) == m[2] = Nothing

IterAfter ==
  LET step(i) == IF job = "strip" THEN NextOf(i) ELSE NextBackOf(i)
      n == step(it)
      m == step(bit)
  IN
  /\ job \in {"strip", "ends"} /\ res = "busy"
  /\ \/ /\ n[2] # Nothing /\ n[2] = m[2]
        /\ it' = n[1] /\ bit' = m[1] /\ UNCHANGED res
     \/ /\ PrefixEnds(n, m)
        /\ res' = "some" /\ UNCHANGED <<it, bit>>
     \/ /\ ~PrefixEnds(n, m) /\ n[2] # m[2]
        /\ res' = "none" /\ UNCHANGED <<it, bit>>
  /\ UNCHANGED <<job, path, base, front, back, comps, vague>>

(* PathBuf.  The buffer's components follow what each operation is for. *)
Grow(p) == Len(p) <= MaxLen /\ path' = p

PushOn(buf, p) ==
  IF IsAbsolute(p) THEN p
  ELSE (IF buf # <<>> /\ Last(buf) = Slash THEN buf ELSE Append(buf, Slash)) \o p

Pushed(cs, p) == IF IsAbsolute(p) THEN ComponentsOf(p) ELSE cs \o ComponentsOf(p)
PopOf(buf) == IF Parent(buf) = Nothing THEN buf ELSE SubSeq(buf, 1, Len(Parent(buf)[1]))
Named == comps # <<>> /\ Last(comps) \notin Dots \cup {Root}
Blank(buf, p) == buf = <<>> /\ ~IsAbsolute(p)
buffer == job = "buffer" /\ UNCHANGED <<job, it, base, bit, front, back, res>>

Push(p) ==
  /\ buffer
  /\ Grow(PushOn(path, p))
  /\ comps' = Pushed(comps, p) /\ vague' = (vague \/ Blank(path, p))

Pop ==
  /\ buffer
  /\ path' = PopOf(path) /\ UNCHANGED vague
  /\ comps' = IF comps \in {<<>>, <<Root>>} THEN comps ELSE Front(comps)

SetFileName(p) ==
  LET popped == IF FileName(path) # Nothing THEN PopOf(path) ELSE path IN
  /\ buffer
  /\ Grow(PushOn(popped, p))
  /\ comps' = Pushed(IF Named THEN Front(comps) ELSE comps, p)
  /\ vague' = (vague \/ Blank(popped, p))

(* The end of the file name within the buffer: the trailing slashes go. *)
NameEnd(buf) == Max({k \in DOMAIN buf : buf[k] # Slash})

SetExtension(e) ==
  /\ buffer /\ FileName(path) # Nothing
  /\ LET f == FileName(path)[1]
         stem == RSplitAtDot(f).stem
         cut == SubSeq(path, 1, NameEnd(path) - Len(f) + Len(stem))
     IN Grow(IF e = <<>> THEN cut ELSE cut \o <<".">> \o e)
  /\ LET f == Last(comps)
         stem == SubSeq(f, 1, IF Positions(f, ".") \subseteq {1} THEN Len(f) ELSE Max(Positions(f, ".")) - 1)
     IN comps' = Append(Front(comps), IF e = <<>> THEN stem ELSE stem \o <<".">> \o e)
  /\ UNCHANGED vague

AddExtension(e) ==
  /\ buffer /\ FileName(path) # Nothing /\ e # <<>>
  /\ Grow(SubSeq(path, 1, NameEnd(path)) \o <<".">> \o e)
  /\ comps' = Append(Front(comps), Last(comps) \o <<".">> \o e)
  /\ UNCHANGED vague

Next ==
  \/ TakeFront \/ TakeBack \/ IterAfter \/ Pop
  \/ \E p \in PathsOf(2) : Push(p) \/ SetFileName(p)
  \/ \E e \in {<<>>, <<"a">>} : SetExtension(e) \/ AddExtension(e)

Spec == Init /\ [][Next]_vars

-----------------------------------------------------------------------------
(* However next and next_back are interleaved, what they gave and what is      *)
(* left, read as a path of its own (as_path), are together the components of   *)
(* the path: none is given twice, lost or cut, and the iterator ends when      *)
(* nothing is left.                                                            *)
WalkAgrees ==
  job = "walk" =>
    /\ front \o ComponentsOf(it.path) \o back = ComponentsOf(path)
    /\ NextOf(it)[2] = Nothing <=> ComponentsOf(it.path) = <<>>
    /\ NextBackOf(it)[2] = Nothing <=> ComponentsOf(it.path) = <<>>

(* strip_prefix and ends_with hold exactly for the paths whose components      *)
(* begin or end with those of the other; strip_prefix leaves the others.       *)
MatchAgrees ==
  /\ job = "strip" =>
       /\ res = "some" => ComponentsOf(base) \o ComponentsOf(it.path) = ComponentsOf(path)
       /\ res = "none" => ~IsPrefix(ComponentsOf(base), ComponentsOf(path))
  /\ job = "ends" =>
       /\ res = "some" => ComponentsOf(it.path) \o ComponentsOf(base) = ComponentsOf(path)
       /\ res = "none" => ~IsSuffix(ComponentsOf(base), ComponentsOf(path))

(* The text of a buffer and the components its operations should have given    *)
(* it agree, after any sequence of them that pushes no relative path on an     *)
(* empty buffer: push takes an empty buffer for one that lacks its slash, so   *)
(* that one becomes absolute.                                                  *)
BufferAgrees == job = "buffer" /\ ~vague => ComponentsOf(path) = comps

(* A file name is its stem and extension around the last dot, and its prefix   *)
(* and the rest around the first.                                              *)
NameSplits ==
  FileName(path) # Nothing =>
    LET f == FileName(path)[1]
        r == RSplitAtDot(f)
        l == SplitAtDot(f)
    IN /\ f = r.stem \o (IF r.ext = Nothing THEN <<>> ELSE <<".">> \o r.ext[1])
       /\ r.stem # <<>> /\ IsPrefix(l.prefix, r.stem)

(* What Path, PathBuf and Components promise: iteration from both ends,        *)
(* prefixes and suffixes, buffers and the parts of file names all agree with   *)
(* the components of the text.                                                 *)
PathInv == WalkAgrees /\ MatchAgrees /\ BufferAgrees /\ NameSplits
=============================================================================
