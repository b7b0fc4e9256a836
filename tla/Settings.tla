------------------------------ MODULE Settings ------------------------------
(***************************************************************************)
(* How a command line becomes RocksDB options: main (working_version.cc)   *)
(* takes a DBEnv with its defaults (db_env.h), parse_arguments copies the  *)
(* flags that were given into it (parse_arguments.h), and configOptions    *)
(* translates it (config_options.h), the first thing runWorkload does.     *)
(*                                                                         *)
(* env and options are functions from the names of the source.  An env     *)
(* member named options copies under its own name unless Renamed or a      *)
(* switch says otherwise.                                                  *)
(***************************************************************************)
EXTENDS ArgsParser

CONSTANTS
    ShortModulus,   \* 2^16, the width of a uint16_t
    MiB             \* 1024 * 1024

VARIABLES
    phase,     \* "none", "parsing", "configuring", "opening", "replaying"
    env,
    options    \* what RocksDB is given, <<>> before configOptions

settingsVars == <<parserVars, phase, env, options>>

\* One record of the fields of several, which share none
Joined(parts) ==
    [field \in UNION {DOMAIN parts[i] : i \in DOMAIN parts} |->
        parts[CHOOSE i \in DOMAIN parts : field \in DOMAIN parts[i]][field]]

(***************************************************************************)
(* The flags of parse_arguments, named after the members they set.         *)
(***************************************************************************)
ValueFlag(flag, short, long, type) ==
    [flag |-> flag, short |-> short, long |-> long, type |-> type]

ParserFlags == <<
    ValueFlag("destroy_database_", {"d"}, {"destroy"}, "int"),
    ValueFlag("clear_system_cache", {}, {"cc"}, "int"),
    ValueFlag("size_ratio", {"T"}, {"size_ratio"}, "int"),
    ValueFlag("buffer_size_in_pages", {"P"}, {"buffer_size_in_pages"}, "int"),
    ValueFlag("entries_per_page", {"B"}, {"entries_per_page"}, "int"),
    ValueFlag("entry_size", {"E"}, {"entry_size"}, "int"),
    ValueFlag("buffer_size_", {"M"}, {"memory_size"}, "long"),
    ValueFlag("file_to_memtable_size_ratio", {"f"}, {"file_to_memtable_size_ratio"}, "int"),
    ValueFlag("file_size", {"F"}, {"file_size"}, "long"),
    ValueFlag("compaction_pri", {"c"}, {"compaction_pri"}, "int"),
    ValueFlag("compaction_style", {"C"}, {"compaction_style"}, "int"),
    ValueFlag("bits_per_key", {"b"}, {"bits_per_key"}, "int"),
    ValueFlag("block_cache", {}, {"bb"}, "int"),
    ValueFlag("perf_stats_", {}, {"perf"}, "int"),
    ValueFlag("iostat_stats_", {}, {"iostat"}, "int"),
    ValueFlag("rocksdb_stats_", {}, {"stat"}, "int"),
    ValueFlag("show_progress_bar_", {}, {"progress"}, "int"),
    ValueFlag("verbosity", {"V"}, {"verbosity"}, "int"),
    ValueFlag("is_per_op_timer", {}, {"peroptime"}, "int"),
    ValueFlag("is_total_timer", {}, {"totaltime"}, "int"),
    ValueFlag("low_pri", {}, {"lowpri"}, "int"),
    ValueFlag("num_levels", {}, {"num_levels"}, "int"),
    ValueFlag("files_in_l0", {}, {"files_in_l0"}, "int"),
    ValueFlag("fs_uri", {}, {"fs_uri"}, "string") >>

ASSUME SettingsAssumption ==
    /\ Children = ParserFlags
    /\ ShortModulus \in Nat /\ ShortModulus > 1
    /\ MiB \in Nat \ {0} /\ IntModulus = 4096 * MiB /\ LongModulus >= IntModulus

(***************************************************************************)
(* DBEnv: the members and their defaults, region by region.                *)
(***************************************************************************)
PrivateMembers ==
    [buffer_size_ |-> 0, rocksdb_stats_ |-> TRUE, perf_stats_ |-> TRUE,
     iostat_stats_ |-> TRUE, destroy_database_ |-> FALSE, show_progress_bar_ |-> TRUE,
     is_per_op_timer |-> FALSE, is_total_timer |-> FALSE]

DBOptions ==
    [create_if_missing |-> TRUE, clear_system_cache |-> TRUE, files_in_l0 |-> 4,
     max_open_files |-> 1000, max_file_opening_threads |-> 1000, bytes_per_sync |-> 0,
     enable_thread_tracking |-> FALSE, allow_concurrent_memtable_write |-> FALSE,
     stats_history_buffer_size |-> MiB, dump_malloc_stats |-> FALSE,
     avoid_flush_during_shutdown |-> FALSE, advise_random_on_open |-> TRUE,
     delete_obsolete_files_period_micros |-> "6 hours",
     allow_mmap_reads |-> FALSE, allow_mmap_writes |-> FALSE,
     verbosity |-> 0, fs_uri |-> Empty]

TreeMembers ==
    [entry_size |-> 64, entries_per_page |-> 64, buffer_size_in_pages |-> 128,
     size_ratio |-> 4, file_to_memtable_size_ratio |-> 1, max_write_buffer_number |-> 2,
     bits_per_key |-> 10, compaction_pri |-> 1, memtable_factory |-> 1,
     level_compaction_dynamic_level_bytes |-> FALSE, compaction_style |-> 1,
     disable_auto_compactions |-> FALSE, level0_file_num_compaction_trigger |-> 4,
     num_levels |-> 10, target_file_size_multiplier |-> 1, max_background_jobs |-> 1,
     soft_pending_compaction_bytes_limit |-> 0, hard_pending_compaction_bytes_limit |-> 0,
     periodic_compaction_seconds |-> 0,
     use_direct_io_for_flush_and_compaction |-> TRUE, use_direct_reads |-> TRUE]

TableMembers ==
    [no_block_cache |-> FALSE, block_cache |-> 0,
     block_cache_high_priority_ratio |-> "0.5", cache_index_and_filter_blocks |-> TRUE,
     read_amp_bytes_per_bit |-> 0, data_block_index_type |-> 1, index_type |-> 1,
     partition_filters |-> FALSE, metadata_block_size |-> 4096,
     pin_top_level_index_and_filter |-> FALSE, index_shortening |-> 1,
     block_size_deviation |-> 0, enable_index_compression |-> FALSE, compression |-> 1]

ReadWriteMembers ==
    [verify_checksums |-> TRUE, fill_cache |-> FALSE, ignore_range_deletions |-> FALSE,
     read_tier |-> 1, low_pri |-> FALSE, sync |-> FALSE, disableWAL |-> FALSE,
     no_slowdown |-> FALSE, ignore_missing_column_families |-> FALSE]

ColumnFamilyMembers ==
    [comparator |-> 1, max_sequential_skip_in_iterations |-> 8,
     memtable_prefix_bloom_size_ratio |-> 0, level0_slowdown_writes_trigger |-> 3,
     level0_stop_writes_trigger |-> 4, paranoid_file_checks |-> FALSE,
     optimize_filters_for_hits |-> FALSE, inplace_update_support |-> FALSE,
     inplace_update_num_locks |-> 10000, report_bg_io_stats |-> TRUE,
     wait |-> TRUE, allow_write_stall |-> TRUE]

NewDBEnv ==
    Joined(<<PrivateMembers, DBOptions, TreeMembers, TableMembers, ReadWriteMembers,
             ColumnFamilyMembers>>)

AsUnsigned(n) == n % IntModulus
AsSizeT(n) == n % LongModulus

GetBlockSize(e) == AsUnsigned(e.entries_per_page * e.entry_size)

\* Mutant: without buffer_size_
GetBufferSizeOfPages(e) ==
    AsUnsigned(AsUnsigned(e.buffer_size_in_pages * e.entries_per_page) * e.entry_size)

GetBufferSize(e) ==
    IF e.buffer_size_ # 0 THEN e.buffer_size_
    ELSE AsUnsigned(AsUnsigned(e.buffer_size_in_pages * e.entries_per_page) * e.entry_size)

\* The size as a long, then multiplied as a uint64_t
GetTargetFileSizeBase(e) ==
    LET size == GetBufferSize(e) IN
    IF size >= LongModulus \div 2 THEN size - LongModulus ELSE size

GetMaxBytesForLevelBase(e) == AsSizeT(e.files_in_l0 * GetTargetFileSizeBase(e))

(***************************************************************************)
(* parse_arguments: what was given, converted to the type of its member,   *)
(* else what the member holds; but --memory_size not given sets it to 0.   *)
(* file_size has no member: the flag is read and dropped.                  *)
(***************************************************************************)
BoolMembers ==
    {"destroy_database_", "clear_system_cache", "is_per_op_timer", "is_total_timer",
     "perf_stats_", "iostat_stats_", "rocksdb_stats_", "show_progress_bar_", "low_pri"}
UnsignedMembers ==
    {"buffer_size_in_pages", "entries_per_page", "entry_size", "file_to_memtable_size_ratio"}
WideMembers == {"buffer_size_", "compaction_style", "files_in_l0"}

Converted(member, n) ==
    CASE member \in BoolMembers       -> n # 0
      [] member \in UnsignedMembers   -> n % IntModulus
      [] member \in WideMembers       -> n % LongModulus
      [] member = "compaction_pri"    -> n % ShortModulus
      [] OTHER                        -> n

Assigned(member) ==
    CASE member \in matched  -> Converted(member, value[member])
      [] member = "buffer_size_" /\ member \notin matched -> 0
      [] OTHER               -> env[member]

CopyArguments ==
    [member \in DOMAIN env |->
        CASE member = "level0_slowdown_writes_trigger" -> Assigned("size_ratio") - 1
          [] member \in {"level0_stop_writes_trigger", "level0_file_num_compaction_trigger"} ->
                Assigned("size_ratio")
          [] member \in Flags -> Assigned(member)
          [] OTHER -> env[member]]

(***************************************************************************)
(* configOptions.  A switch leaves what RocksDB had when no case matches.  *)
(***************************************************************************)
CompactionPri ==
    [n \in 0 .. 4 |->
        <<"kByCompensatedSize", "kOldestLargestSeqFirst", "kOldestSmallestSeqFirst",
          "kMinOverlappingRatio", "kRoundRobin">>[n + 1]]

CompactionStyle ==
    <<"kCompactionStyleLevel", "kCompactionStyleUniversal", "kCompactionStyleFIFO",
      "kCompactionStyleNone">>

MemtableFactory ==
    <<"SkipListFactory", "VectorRepFactory", "HashSkipListRep", "HashLinkListRep">>

DataBlockIndexType == <<"kDataBlockBinarySearch", "kDataBlockBinaryAndHash">>

IndexType ==
    <<"kBinarySearch", "kHashSearch", "kTwoLevelIndexSearch", "kBinarySearchWithFirstKey">>

IndexShortening == <<"kNoShortening", "kShortenSeparators", "kShortenSeparatorsAndSuccessor">>

CompressionType ==
    [n \in (1 .. 8) \cup {10} |->
        IF n = 10 THEN "kDisableCompressionOption"
        ELSE <<"kNoCompression", "kSnappyCompression", "kZlibCompression",
               "kBZip2Compression", "kLZ4Compression", "kLZ4HCCompression",
               "kXpressCompression", "kZSTD">>[n]]

ReadTier == <<"kReadAllTier", "kBlockCacheTier", "kPersistedTier", "kMemtableTier">>

Comparator == <<"BytewiseComparator", "ReverseBytewiseComparator">>

\* What the Options of RocksDB hold by themselves where configOptions may leave it
RocksDBDefault ==
    [compaction_pri |-> "kMinOverlappingRatio", compaction_style |-> "kCompactionStyleLevel",
     level0_file_num_compaction_trigger |-> 4, num_levels |-> 7]

Switch(table, n, default) == IF n \in DOMAIN table THEN table[n] ELSE default

CopiedOptions ==
    {"create_if_missing", "max_open_files", "max_file_opening_threads", "bytes_per_sync",
     "enable_thread_tracking", "allow_concurrent_memtable_write",
     "stats_history_buffer_size", "dump_malloc_stats", "avoid_flush_during_shutdown",
     "advise_random_on_open", "delete_obsolete_files_period_micros", "allow_mmap_reads",
     "allow_mmap_writes", "max_write_buffer_number", "level_compaction_dynamic_level_bytes",
     "disable_auto_compactions", "target_file_size_multiplier", "max_background_jobs",
     "soft_pending_compaction_bytes_limit", "hard_pending_compaction_bytes_limit",
     "periodic_compaction_seconds", "use_direct_io_for_flush_and_compaction",
     "use_direct_reads", "max_sequential_skip_in_iterations",
     "memtable_prefix_bloom_size_ratio", "level0_slowdown_writes_trigger",
     "level0_stop_writes_trigger", "paranoid_file_checks", "optimize_filters_for_hits",
     "inplace_update_support", "inplace_update_num_locks", "report_bg_io_stats"}

CopiedTableOptions ==
    {"read_amp_bytes_per_bit", "partition_filters", "metadata_block_size",
     "pin_top_level_index_and_filter", "block_size_deviation", "enable_index_compression"}

CopiedCallOptions ==
    {"verify_checksums", "fill_cache", "ignore_range_deletions", "low_pri", "sync",
     "disableWAL", "no_slowdown", "ignore_missing_column_families", "wait",
     "allow_write_stall"}

SizeOptions(e) ==
    [max_bytes_for_level_multiplier |-> e.size_ratio,
     write_buffer_size |-> GetBufferSize(e),
     target_file_size_base |-> AsSizeT(GetTargetFileSizeBase(e)),
     max_bytes_for_level_base |-> GetMaxBytesForLevelBase(e),
     block_size |-> GetBlockSize(e), arena_block_size |-> GetBlockSize(e),
     bloom_bits_per_key |-> e.bits_per_key]   \* 0: no filter

SwitchedOptions(e) ==
    [compaction_pri |-> Switch(CompactionPri, e.compaction_pri, RocksDBDefault.compaction_pri),
     compaction_style |->
        Switch(CompactionStyle, e.compaction_style, RocksDBDefault.compaction_style),
     memtable_factory |-> Switch(MemtableFactory, e.memtable_factory, "SkipListFactory"),
     data_block_index_type |->
        Switch(DataBlockIndexType, e.data_block_index_type, "kDataBlockBinarySearch"),
     index_type |-> Switch(IndexType, e.index_type, "kBinarySearch"),
     index_shortening |-> Switch(IndexShortening, e.index_shortening, "kShortenSeparators"),
     compression |-> Switch(CompressionType, e.compression, "kSnappyCompression"),
     read_tier |-> Switch(ReadTier, e.read_tier, "kReadAllTier"),
     comparator |-> Switch(Comparator, e.comparator, "BytewiseComparator")]

\* Two options that RocksDB's universal compaction keeps to itself
LevelOptions(e) ==
    IF SwitchedOptions(e).compaction_style = "kCompactionStyleUniversal"
    THEN [level0_file_num_compaction_trigger |->
            RocksDBDefault.level0_file_num_compaction_trigger,
          num_levels |-> RocksDBDefault.num_levels]
    ELSE [level0_file_num_compaction_trigger |-> e.level0_file_num_compaction_trigger,
          num_levels |-> e.num_levels]

\* block_cache * 1024 * 1024 as an int: beyond 2 GiB the product is undefined, and
\* either wraps or is computed wide
AsInt(n) == ((n + IntModulus \div 2) % IntModulus) - (IntModulus \div 2)
BlockCacheSizes(mb) == {AsInt(mb * MiB) % LongModulus, (mb * MiB) % LongModulus}

CacheOptions(e, size) ==
    IF e.block_cache = 0
    THEN [no_block_cache |-> TRUE, cache_index_and_filter_blocks |-> FALSE, block_cache |-> 0]
    ELSE [no_block_cache |-> FALSE,
          cache_index_and_filter_blocks |-> e.cache_index_and_filter_blocks,
          block_cache |-> size]

StatsOptions(e) ==
    [stats_level |-> IF e.rocksdb_stats_ THEN "kAll" ELSE "kDisableAll",
     perf_level |->
        CASE e.perf_stats_ -> "kEnableTimeAndCPUTimeExceptForMutex"
          [] ~e.perf_stats_ /\ e.iostat_stats_ -> "kEnableCount"
          [] OTHER -> "kDisable",
     per_level_perf_context |-> e.perf_stats_,
     disable_iostats |-> ~e.iostat_stats_]

ConfigOptions(e, cache) ==
    Joined(<<
        [name \in CopiedOptions \cup CopiedTableOptions \cup CopiedCallOptions |-> e[name]],
        SizeOptions(e), SwitchedOptions(e), LevelOptions(e), CacheOptions(e, cache),
        StatsOptions(e), [fs |-> e.fs_uri]>>)

(***************************************************************************)
(* The process                                                             *)
(***************************************************************************)
NoProcess ==
    /\ ParserInit
    /\ phase = "none" /\ env = NewDBEnv /\ options = <<>>

\* The end of the process, by exit, a return from main or a signal
Exit ==
    /\ argv' = <<>> /\ it' = 1 /\ terminated' = FALSE /\ matched' = {} /\ value' = Default
    /\ status' = "idle" /\ phase' = "none" /\ env' = NewDBEnv /\ options' = <<>>

\* main: GetInstance, then parse_arguments up to ParseCLI
Main(words) ==
    /\ phase = "none"
    /\ phase' = "parsing" /\ ParseCLI(words)
    /\ env' = NewDBEnv /\ UNCHANGED options

ParseStep == phase = "parsing" /\ Parse /\ UNCHANGED <<phase, env, options>>

\* A ParseError is reported and main returns 1
RefuseArguments == phase = "parsing" /\ status = "error" /\ Exit

\* The parser, a local of parse_arguments, goes with its return
AcceptArguments ==
    /\ phase = "parsing" /\ status = "parsed"
    /\ env' = CopyArguments
    /\ phase' = "configuring"
    /\ it' = 1 /\ terminated' = FALSE /\ matched' = {} /\ value' = Default /\ status' = "idle"
    /\ UNCHANGED <<argv, options>>

configOptions ==
    /\ phase = "configuring"
    /\ \E cache \in BlockCacheSizes(env.block_cache) :
        options' = ConfigOptions(env, cache)
    /\ env' = [env EXCEPT !.no_block_cache = (env.block_cache = 0)]
    /\ phase' = "opening"
    /\ UNCHANGED parserVars

\* Env::CreateFromUri does not know or cannot open the file system: exit(1)
CreateFromUriFails == phase = "configuring" /\ env.fs_uri.is # "empty" /\ Exit

-----------------------------------------------------------------------------
\* From end to end: the options RocksDB gets are what the command line says, read by
\* its meaning and not by the parser, and for a flag it does not give the default of
\* DBEnv, which the help text has otherwise for some; a refused line gets to no options
\* at all.  The buffer is --memory_size, else P * B * E in 32 bits; the number of a
\* compaction_pri counts as the switch of configOptions does; universal compaction
\* keeps its own levels; a block cache of 2 GiB and more is left open
\* (parse_arguments.h 101-167, db_env.h 77-101, config_options.h 42-147, 314-349).
OptionsAsAsked ==
    phase = "opening" =>
    LET meaning == Meaning(argv)
        Asked(flag, default) ==
            IF flag \in DOMAIN meaning THEN meaning[flag] ELSE default
        T     == Asked("size_ratio", 4)
        bytes == Asked("buffer_size_in_pages", 128) * Asked("entries_per_page", 64)
                    * Asked("entry_size", 64)
        M     == Asked("buffer_size_", 0)
        pri   == Asked("compaction_pri", 1) % ShortModulus
        cache == Asked("block_cache", 0)
    IN  /\ WellFormed(argv)
        /\ options.max_bytes_for_level_multiplier = T
        /\ options.level0_slowdown_writes_trigger = T - 1
        /\ options.level0_stop_writes_trigger = T
        /\ options.write_buffer_size =
                IF M # 0 THEN M % LongModulus ELSE bytes % IntModulus
        /\ options.compaction_pri =
                IF pri <= 4 THEN CompactionPri[pri] ELSE "kMinOverlappingRatio"
        /\ Asked("compaction_style", 1) # 2 =>
                /\ options.num_levels = Asked("num_levels", 10)
                /\ options.level0_file_num_compaction_trigger = T
        /\ cache = 0 <=> options.no_block_cache
        /\ cache \in 1 .. 2047 => options.block_cache = cache * MiB
        /\ options.low_pri = (Asked("low_pri", 0) # 0)
        /\ options.per_level_perf_context = (Asked("perf_stats_", 1) # 0)
        /\ options.fs = Asked("fs_uri", Empty)

\* "[Compaction priority: 1 for kMinOverlappingRatio, 2 for kByCompensatedSize, 3 for
\* kOldestLargestSeqFirst, 4 for kOldestSmallestSeqFirst; def: 1]": RocksDB compacts by
\* the priority that the help text has for the number (parse_arguments.h 40-43).
DocumentedPri == <<"kMinOverlappingRatio", "kByCompensatedSize", "kOldestLargestSeqFirst",
                   "kOldestSmallestSeqFirst">>
PriorityAsDocumented ==
    phase = "opening" =>
    LET meaning == Meaning(argv)
        pri == IF "compaction_pri" \in DOMAIN meaning THEN meaning["compaction_pri"] ELSE 1
    IN  pri \in DOMAIN DocumentedPri => options.compaction_pri = DocumentedPri[pri]
=============================================================================
