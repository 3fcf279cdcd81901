------------------------------- MODULE Paths -------------------------------
(***************************************************************************)
(* A path on the card as the library, the screens and the loader put it    *)
(* together (menu/path.c): one buffer of characters, the place in it where *)
(* the storage's root is, and how long a text the buffer can hold.         *)
(*                                                                         *)
(* root counts from 1.  A buffer that grew may have moved, and root is not *)
(* moved with it: lost says that it still names a place in the old one.    *)
(***************************************************************************)
EXTENDS Integers, Sequences, SequencesExt

CONSTANTS Smallest,   \* PATH_CAPACITY_INITIAL, 255
          Aligned     \* PATH_CAPACITY_ALIGNMENT, 32

\* path_resize()
Capacity(n) ==
    LET least == IF n > Smallest THEN n ELSE Smallest
    IN  IF least % Aligned = Aligned - 1 THEN least ELSE least + Aligned - (least % Aligned)

Path(s) == [buf |-> s, root |-> 1, capacity |-> Capacity(Len(s)), lost |-> FALSE]

Extended(p, s) ==
    LET long == Len(p.buf) + Len(s)
    IN  IF long <= p.capacity THEN [p EXCEPT !.buf = @ \o s]
        ELSE [p EXCEPT !.buf = @ \o s, !.capacity = Capacity(long), !.lost = TRUE]

\* The characters from root on, and where in the buffer the last of one kind is.
Rooted(p) == SubSeq(p.buf, p.root, Len(p.buf))
LastAt(p, c) ==
    IF c \in Range(Rooted(p))
    THEN CHOOSE i \in p.root .. Len(p.buf) : p.buf[i] = c /\ \A j \in i + 1 .. Len(p.buf) : p.buf[j] # c
    ELSE 0
Shortened(p, n) == [p EXCEPT !.buf = SubSeq(@, 1, n)]

IsRoot(p) == Rooted(p) = <<"/">>
LastName(p) == IF LastAt(p, "/") = 0 THEN Rooted(p) ELSE SubSeq(p.buf, LastAt(p, "/") + 1, Len(p.buf))

\* path_push(): one slash between the two, however many they bring.
Push(p, s) ==
    LET slashed == IF Last(p.buf) = "/" THEN p ELSE Extended(p, <<"/">>)
    IN  Extended(slashed, IF s # <<>> /\ Head(s) = "/" THEN Tail(s) ELSE s)

\* path_init(): the root is the slash that ends the prefix.
Opened(prefix, s) ==
    LET ends == prefix # <<>> /\ Last(prefix) = "/"
        p == [Path(prefix) EXCEPT !.root = IF ends THEN Len(prefix) ELSE Len(prefix) + 1]
    IN  Push(IF ends THEN p ELSE Extended(p, <<"/">>), s)

\* path_clone(): a new buffer with the root at its place.
Clone(p) == [Path(p.buf) EXCEPT !.root = p.root]

\* path_pop(): up one directory, at most to the root.
Pop(p) ==
    LET at == LastAt(p, "/")
    IN  IF IsRoot(p) \/ at = 0 THEN p ELSE Shortened(p, IF at = p.root THEN at ELSE at - 1)

\* path_push_subdir(): the file moves into a directory beside it.
PushSubdir(p, s) == Push(Push(Pop(p), s), LastName(p))

\* path_ext_get(), path_ext_remove(), path_ext_replace(): what is behind the
\* last dot of the last name.
Dot(p) == LET i == LastAt(p, ".") IN IF i > LastAt(p, "/") THEN i ELSE 0
HasExt(p) == Dot(p) # 0
Ext(p) == SubSeq(p.buf, Dot(p) + 1, Len(p.buf))
ExtRemoved(p) == IF HasExt(p) THEN Shortened(p, Dot(p) - 1) ELSE p
ExtReplaced(p, ext) == Extended(Extended(ExtRemoved(p), <<".">>), ext)
=============================================================================
