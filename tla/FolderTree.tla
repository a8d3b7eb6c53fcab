----------------------------- MODULE FolderTree -----------------------------
(***************************************************************************)
(* The folders below the storage root.  A path is a sequence of names, the *)
(* first of which is one of the three areas; a name is the sequence of a   *)
(* person's name and the counters that were added to it where a folder of  *)
(* that name existed.  A missionary's folder is an area and a name.        *)
(***************************************************************************)
EXTENDS Integers, SequencesExt, FiniteSetsExt

(* Path.relative_to: is the path below the folder, or the folder itself?   *)
Within(path, folder) == IsPrefix(folder, path)

(* The same path below another folder.                                     *)
Rebased(path, from, to) == to \o SubSeq(path, Len(from) + 1, Len(path))

(* The first of name, name_1, name_2, ... that is free in the area.        *)
FreeFolder(dirs, area, name) ==
  IF <<area, name>> \notin dirs
  THEN <<area, name>>
  ELSE <<area, Append(name, Min({k \in 1 .. Cardinality(dirs) + 1 :
                                   <<area, Append(name, k)>> \notin dirs}))>>

(* Where shutil.move puts a folder: inside the destination, if that exists *)
(* by then.                                                                *)
Landing(dirs, from, to) == IF to \in dirs THEN Append(to, Last(from)) ELSE to

(* The folders, and the places of a file, once a folder is renamed.        *)
Renamed(paths, from, to) ==
  {IF Within(p, from) THEN Rebased(p, from, to) ELSE p : p \in paths}

(* mkdir(parents=True)                                                     *)
WithoutParents(dirs, path) == dirs
WithParents(dirs, path) == dirs \cup {SubSeq(path, 1, n) : n \in 2 .. Len(path)}
=============================================================================
