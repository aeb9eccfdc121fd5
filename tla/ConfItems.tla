----------------------------- MODULE ConfItems ------------------------------
(***************************************************************************)
(* What the fragments mk/mkc_imp.conf_*.mk and mk/mkc_imp.pkg-config.mk    *)
(* make of an item of their lists: the HAVE_* variables it sets, the file  *)
(* each value is in, and the files deleted when it is required and missing.*)
(* An item is a kind, a name and what is written with the name: headers,   *)
(* or the library of a function. Names that differ only in characters that *)
(* are turned into `_' are one name here.                                  *)
(***************************************************************************)
EXTENDS Naturals, SequencesExt

CONSTANTS
  OrDefine,         \* functions with MKC_FUNC_OR_DEFINE.f = yes
  CustomCache,      \* tests with MKC_CUSTOM_CACHE.c |-> its value
  OwnCacheDir       \* is MKC_CACHEDIR set in the makefile, not in the environment

Name(i) == <<i.kind, i.name>>

(* One variable; HAVE_HEADER.c_h for the header a.h,b.h,c.h, and           *)
(* mkc_check_header leaves a.h and b.h out of the name of the file too.    *)
ByName(i) == [file |-> Name(i) :> Name(i), deleted |-> {Name(i)}]

(* HAVE_TYPE.t.c_h for t:a.h,b.h,c.h, but mkc_check_decl has all headers   *)
(* in the name of the file.                                                *)
Declared(i) == Name(i) \o (IF i.with = <<>> THEN <<>> ELSE <<Last(i.with)>>)
ByHeaders(i) == [file |-> Declared(i) :> Name(i) \o i.with, deleted |-> {Name(i) \o i.with}]

conf_header_files(i) == ByName(i)
conf_headers(i) == ByName(i)
conf_defines(i) == ByHeaders(i)
conf_types(i) == ByHeaders(i)
conf_vars(i) == ByHeaders(i)
conf_members(i) == ByHeaders(i)

(* funcordefine1 is asked, func1 is deleted.                               *)
conf_funcs(i) ==
  [ByHeaders(i) EXCEPT !.file[Declared(i)] =
     IF i.name \in OrDefine THEN <<"or define">> \o @ ELSE @]

(* Mutant: only the file of the function in its library is deleted.        *)
OneDeleted(i) ==
  [file    |-> Name(i) \o i.with :> Name(i) \o i.with @@ Name(i) :> Name(i),
   deleted |-> {Name(i) \o i.with}]

(* The function in its library, and the function without.                  *)
conf_funclibs(i) ==
  [file    |-> Name(i) \o i.with :> Name(i) \o i.with @@ Name(i) :> Name(i),
   deleted |-> {Name(i) \o i.with, Name(i)}]

conf_custom(i) ==
  [file    |-> Name(i) :> IF i.name \in DOMAIN CustomCache THEN <<CustomCache[i.name]>> ELSE Name(i),
   deleted |-> {Name(i)}]

IsPath(i) == i.kind \in {"prog", "pkg-config"}

(* The name of a program is its MKC_PROG.id, that of a prototype stands    *)
(* for its MKC_PROTOTYPE_FUNC.                                             *)
conf_progs(i) == ByName(i)
conf_prototypes(i) == ByName(i)

(* The deletion does not have MKC_CACHEDIR in its environment.             *)
pkg_config(i) ==
  [file    |-> Name(i) :> Name(i),
   deleted |-> {IF OwnCacheDir THEN <<"current directory">> \o Name(i) ELSE Name(i)}]

(* The order of mkc.conf.mk; it is included again by pkg-config.mk, for the *)
(* program that this requires, and then comes the loop over MKC_*_PKGCONFIG. *)
Order == <<"header_file", "header", "funclib", "define", "type", "variable", "member",
           "func0", "func1", "func2", "func3", "func4", "func5", "func6", "func7", "func8", "func9",
           "custom", "prog", "prototype", "pkg-config", "pkgconfig">>
FragmentOf(i) == CHOOSE n \in DOMAIN Order : Order[n] = i.kind

FilesOf(i) ==
  CASE i.kind = "header_file" -> conf_header_files(i)
    [] i.kind = "header"      -> conf_headers(i)
    [] i.kind = "funclib"     -> conf_funclibs(i)
    [] i.kind = "define"      -> conf_defines(i)
    [] i.kind = "type"        -> conf_types(i)
    [] i.kind = "variable"    -> conf_vars(i)
    [] i.kind = "member"      -> conf_members(i)
    [] i.kind = "custom"      -> conf_custom(i)
    [] IsPath(i)              -> conf_progs(i)
    [] i.kind = "prototype"   -> conf_prototypes(i)
    [] i.kind = "pkgconfig"   -> pkg_config(i)
    [] OTHER                  -> conf_funcs(i)

(* The fragments that check and judge in one loop; what a command writes   *)
(* and may fail to.                                                        *)
IsInline(i) == i.kind \in {"prog", "prototype", "pkg-config", "pkgconfig"}
IsCommand(i) == i.kind = "custom"

(* What pkg-config.mk asks; a project with modules in Lua, which includes  *)
(* it whatever is missing, is not modelled.                                *)
IsGuarded(i) == i.kind \in {"pkg-config", "pkgconfig"}
=============================================================================
