------------------------------ MODULE Resolver ------------------------------
(***************************************************************************)
(* Include resolution (compiler/resolver.py): the files a program is made  *)
(* of, read depth first and merged into one list of definitions.           *)
(*                                                                         *)
(* A path is the sequence of its components.  A file is what is on the     *)
(* disk: source, of which its includes and the names it defines are kept,  *)
(* or bytes of something else.                                             *)
(***************************************************************************)
EXTENDS Integers, Sequences, SequencesExt, FiniteSets

CONSTANT StdPath        \* where the standard library is

Source(includes, structs, enums, functions) ==
    [kind |-> "source", why |-> "", includes |-> includes, structs |-> structs,
     enums |-> enums, functions |-> functions]
Unreadable(why) == [kind |-> "source", why |-> why]
Bytes(bytes)    == [kind |-> "bytes", bytes |-> bytes]

\* read_text, tokenize and parse; an empty file is an empty program.
Parsed(file) ==
    CASE file.kind = "source" -> file
      [] file.kind = "bytes" /\ file.bytes = <<>> -> Source(<<>>, <<>>, <<>>, <<>>)
      [] file.kind = "bytes" /\ file.bytes # <<>> -> Unreadable("not source text")

\* Path.resolve, of a path without symbolic links.
Canonical(path) ==
    FoldLeft(LAMBDA p, part : IF part # ".." THEN Append(p, part)
                              ELSE IF p = <<>> THEN p ELSE Front(p), <<>>, path)

ResolvePath(include, relative_to) ==
    Canonical(IF Head(include) = "std" /\ Len(include) > 1 THEN StdPath \o Tail(include)
              ELSE Front(relative_to) \o include)

NothingResolved ==
    [included |-> {}, source_files |-> <<>>, structs |-> <<>>, enums |-> <<>>,
     functions |-> <<>>, why |-> ""]
Resolves(r)     == r.why = ""
Failed(r, why)  == [r EXCEPT !.why = why]
NamesOf(defs)   == {defs[i].name : i \in DOMAIN defs}

\* The names a file defines join those of their kind, and clash with the other's.
Merge(r, kind, other, names, path) ==
    FoldLeft(LAMBDA acc, name :
                 IF ~Resolves(acc) THEN acc
                 ELSE IF name \in NamesOf(acc[kind]) THEN Failed(acc, "redefinition")
                 ELSE IF other # kind /\ name \in NamesOf(acc[other]) THEN Failed(acc, "clash")
                 ELSE [acc EXCEPT ![kind] = Append(@, [name |-> name, source_file |-> path])],
             r, names)

MergeFile(r, program, path) ==
    LET structs == Merge(r, "structs", "enums", program.structs, path)
        enums   == Merge(structs, "enums", "structs", program.enums, path)
    IN  Merge(enums, "functions", "functions", program.functions, path)

RECURSIVE ResolveFile(_, _, _), ResolveIncludes(_, _, _, _)

\* a mistake: see the README
ResolveBreadth(disk, path, r) ==
    IF ~Resolves(r) \/ path \in r.included THEN r
    ELSE LET seen == [r EXCEPT !.included = @ \cup {path},
                               !.source_files = Append(@, path)]
         IN  IF path \notin DOMAIN disk THEN Failed(seen, "no file")
             ELSE LET program == Parsed(disk[path])
                  IN  IF program.why # "" THEN Failed(seen, program.why)
                      ELSE ResolveIncludes(disk, path, program.includes,
                                           MergeFile(seen, program, path))

\* A file is taken in before it is known to exist, and once.
ResolveFile(disk, path, r) ==
    IF ~Resolves(r) \/ path \in r.included THEN r
    ELSE LET seen == [r EXCEPT !.included = @ \cup {path},
                               !.source_files = Append(@, path)]
         IN  IF path \notin DOMAIN disk THEN Failed(seen, "no file")
             ELSE LET program == Parsed(disk[path])
                  IN  IF program.why # "" THEN Failed(seen, program.why)
                      ELSE MergeFile(ResolveIncludes(disk, path, program.includes, seen),
                                     program, path)

ResolveIncludes(disk, path, includes, r) ==
    IF includes = <<>> THEN r
    ELSE ResolveIncludes(disk, path, Tail(includes),
                         ResolveFile(disk, ResolvePath(Head(includes), path), r))

Resolved(disk, entry) == ResolveFile(disk, entry, NothingResolved)

-----------------------------------------------------------------------------
(* What resolution is for, stated without the order of the walk.           *)

Includes(disk, path) ==
    IF path \in DOMAIN disk /\ Parsed(disk[path]).why = ""
    THEN {ResolvePath(include, path) : include \in Range(Parsed(disk[path]).includes)}
    ELSE {}

RECURSIVE Reached(_, _)
Reached(disk, paths) ==
    LET more == paths \cup UNION {Includes(disk, p) : p \in paths}
    IN  IF more = paths THEN paths ELSE Reached(disk, more)

\* Every file of the program can be read, and no name is defined twice in it.
WellFormed(disk, files) ==
    /\ \A p \in files : p \in DOMAIN disk /\ Parsed(disk[p]).why = ""
    /\ \A p, q \in files :
          LET a == Parsed(disk[p])   b == Parsed(disk[q])
          IN  /\ \A i \in DOMAIN a.functions, j \in DOMAIN b.functions :
                    a.functions[i] = b.functions[j] => p = q /\ i = j
              /\ \A i \in DOMAIN a.structs, j \in DOMAIN b.structs :
                    a.structs[i] = b.structs[j] => p = q /\ i = j
              /\ \A i \in DOMAIN a.enums, j \in DOMAIN b.enums :
                    a.enums[i] = b.enums[j] => p = q /\ i = j
              /\ Range(a.structs) \cap Range(b.enums) = {}

Defined(disk, files, kind) ==
    UNION {{[name |-> n, source_file |-> p] : n \in Range(Parsed(disk[p])[kind])} : p \in files}

\* An included file's definitions come first, unless it includes the other in turn.
DependedOnFirst(disk, defs) ==
    \A i, j \in DOMAIN defs :
        LET a == defs[i].source_file   b == defs[j].source_file
        IN  (b \in Includes(disk, a) /\ a \notin Reached(disk, {b})) => j < i

ResolvedAs(disk, entry, r) ==
    LET files == Reached(disk, {entry})
    IN  /\ Resolves(r) <=> WellFormed(disk, files)
        /\ Resolves(r) =>
              /\ Range(r.source_files) = files /\ Len(r.source_files) = Cardinality(files)
              /\ \A kind \in {"structs", "enums", "functions"} :
                    /\ Range(r[kind]) = Defined(disk, files, kind)
                    /\ Len(r[kind]) = Cardinality(Range(r[kind]))
                    /\ DependedOnFirst(disk, r[kind])
=============================================================================
