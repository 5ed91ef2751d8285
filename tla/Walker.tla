------------------------------ MODULE Walker ------------------------------
(***************************************************************************)
(* Which files belong to an index: what the walk below the root finds, the *)
(* filters of the index on top of it, and what the watch loop lets in.     *)
(*                                                                         *)
(* A file is its directories below the root, its name and what the checks  *)
(* see of that name, and its extension. Of the long lists of names to skip *)
(* one stands for all. A pattern is a plain name or "*." and an extension. *)
(***************************************************************************)
EXTENDS Naturals, Sequences, SequencesExt

SOURCE_EXTS ==
    {"rs", "py", "ts", "tsx", "js", "jsx", "mjs", "cjs", "go", "java", "c", "cpp", "h", "hpp",
     "cs", "rb", "php", "swift", "kt", "kts", "scala", "groovy", "gradle", "sh", "md", "mdx",
     "yaml", "yml", "toml", "json", "xml", "txt", "log"}
SKIP_DIRS == {"target"}
SKIP_FILES == {"Cargo.lock"}
BINARY_EXTS == {"lock", "png"}

\* Shapes of a name: of a bundle (x.min.js), with a hash (x-ahKOasfG.js), any other.
Shape == {"bundle", "hashed", "plain"}

should_skip_path(f, big) ==
    \/ f.name \in SKIP_FILES \/ f.ext \in BINARY_EXTS
    \/ f.shape = "bundle"
    \/ f.shape = "hashed" /\ f.ext \in {"js", "css"}
    \/ big

\* All components of the path count, those above the root included.
path_in_skipped_dir(above, f) == (Range(above) \cup Range(f.dirs)) \cap SKIP_DIRS # {}

should_skip_content(f, minified) == f.ext \in {"js", "mjs", "cjs"} /\ minified

\* The directory a walk starts in may have any name; those below it may not.
walk_source_files(subtree, f, big) ==
    /\ IsPrefix(subtree, f.dirs)
    /\ \A i \in (Len(subtree) + 1)..Len(f.dirs) : f.dirs[i] \notin SKIP_DIRS
    /\ f.ext \in SOURCE_EXTS /\ ~should_skip_path(f, big)

-----------------------------------------------------------------------------
(* The filters an index is registered with.                                *)

\* Other names have no extensions.
language_to_exts(language) ==
    CASE language \in {"rust", "rs"}                -> {"rs"}
      [] language \in {"python", "py"}              -> {"py"}
      [] language \in {"typescript", "ts"}          -> {"ts", "tsx"}
      [] language \in {"javascript", "js"}          -> {"js", "jsx", "mjs", "cjs"}
      [] language \in {"go", "java"}                -> {language}
      [] language = "c"                             -> {"c", "h"}
      [] language \in {"cpp", "c++", "cxx"}         -> {"cpp", "cc", "cxx", "hpp", "hh", "hxx"}
      [] OTHER                                      -> {}

filters_from_index_config(cfg) ==
    [include_paths |-> cfg.paths, exclude_globs |-> cfg.exclude,
     extensions |-> UNION {language_to_exts(l) : l \in cfg.languages}]

\* A plain name matches a component anywhere in the absolute path.
path_matches_any_glob(above, f, globs) ==
    \E g \in globs : \/ g = <<"*", f.ext>>
                     \/ g[1] = "name" /\ g[2] \in Range(above) \cup Range(f.dirs) \cup {f.name}

\* The first component below the root, which for a file there is its name.
path_matches_filter(f, patterns) ==
    patterns = {} \/ (IF f.dirs = <<>> THEN f.name ELSE Head(f.dirs)) \in patterns

collect_files_to_index(handle, f, big) ==
    /\ \E subtree \in (IF handle.include_paths = {} THEN {<<>>} ELSE handle.include_paths) :
          walk_source_files(subtree, f, big)
    /\ ~path_matches_any_glob(handle.above, f, handle.exclude_globs)
    /\ handle.extensions # {} => f.ext \in handle.extensions
    /\ path_matches_filter(f, handle.path_filter)

\* What handle_modified lets in.
Watched(handle, f, big) == ~path_in_skipped_dir(handle.above, f) /\ ~should_skip_path(f, big)
=============================================================================
