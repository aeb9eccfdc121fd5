---------------------------- MODULE MCConfigure -----------------------------
(* Small trees: a library that only checks and a program that requires.    *)
EXTENDS Configure, ConfItems

Item(kind, name, with) == [kind |-> kind, name |-> name, with |-> with]

(* Results to share, one of them of a command that may fail; and a path    *)
(* and a package that are asked about only when the others are there.      *)
RunItems == {Item("funclib", "dlopen", <<"dl">>), Item("custom", "plain", <<>>),
             Item("pkg-config", "pkg-config", <<>>), Item("pkgconfig", "glib", <<>>)}

(* One for each fragment that deletes another result than the one it read. *)
(* The program pkg-config itself is there for all to see.                  *)
WrongItems == {Item("func1", "htobe32", <<"sys/endian.h">>), Item("custom", "mytest", <<>>),
               Item("type", "ino_t", <<"sys/types.h">>)}
WrongPackage == Item("pkgconfig", "glib", <<>>)
CheckedItem == Item("type", "ino_t", <<"sys/param.h", "sys/types.h">>)
WrongAndChecked == WrongItems \cup {WrongPackage, CheckedItem}

FilesAt(i) == Range(FilesOf(i).file)
MCVars == UNION {DOMAIN FilesOf(i).file : i \in Items}
MCCheckVars == [i \in Items |-> DOMAIN FilesOf(i).file]
MCResult == [i \in Items |-> FilesOf(i).file]
MCDeleteKeys == [i \in Items |-> FilesOf(i).deleted]
MCKeys == UNION {FilesAt(i) \cup FilesOf(i).deleted : i \in Items}
MCFragment == [i \in Items |-> FragmentOf(i)]
MCGuarded == {i \in Items : IsGuarded(i)}
MCInline == {i \in Items : IsInline(i)}
MCPaths == UNION {FilesAt(i) : i \in {j \in Items : IsPath(j)}}
MCMayFail == UNION {FilesAt(i) : i \in {j \in Items : IsCommand(j)}}
NoCustomCache == <<>>
MyCache == [c \in {"mytest"} |-> "mycache"]

(* Lists that differ: `lib' only checks what `prog' requires, but for the  *)
(* package.                                                                *)
LibChecks == [p \in Projects |-> IF p = "lib" THEN Items \ MCGuarded ELSE {}]
ProgRequires == [p \in Projects |-> IF p = "prog" THEN Items ELSE {}]

(* One project that checks a type and requires it with fewer headers, and  *)
(* one that requires a package.                                            *)
OneChecks == [p \in Projects |-> IF p = "prog" THEN {CheckedItem} ELSE {}]
BothRequire == [p \in Projects |-> IF p = "prog" THEN WrongItems ELSE {WrongPackage}]
NoPreset == [v \in Vars |-> None]
=============================================================================
