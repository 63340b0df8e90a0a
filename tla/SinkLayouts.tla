---------------------------- MODULE SinkLayouts -----------------------------
(***************************************************************************)
(* The columns of the tables: for each sink (src/sinks/smf*_sink.h and the *)
(* sinks for records without a parser) the four lists its Builders struct  *)
(* keeps, each translated from its own part of the source:                 *)
(*                                                                         *)
(*   Builders  the members and their Arrow types, by type;                 *)
(*   Schema    schema(): the columns of the file, in order;                *)
(*   Append    append(): the values put into the builders, in order;       *)
(*   Finish    finish(): the builders finished into the arrays of a batch. *)
(*                                                                         *)
(* Nothing in C++ ties the four together: Arrow takes the arrays of a      *)
(* batch by position.  A builder is named for its column.                  *)
(***************************************************************************)
EXTENDS Routing, Functions, TLC

Ts(c)     == [name |-> c, type |-> "ts"]
Date(c)   == [name |-> c, type |-> "date"]
Utf8(c)   == [name |-> c, type |-> "utf8"]
U8(c)     == [name |-> c, type |-> "u8"]
U16(c)    == [name |-> c, type |-> "u16"]
U32(c)    == [name |-> c, type |-> "u32"]
U64(c)    == [name |-> c, type |-> "u64"]
F64(c)    == [name |-> c, type |-> "f64"]
Bool(c)   == [name |-> c, type |-> "bool"]
Binary(c) == [name |-> c, type |-> "binary"]
List(c)   == [name |-> c, type |-> "list"]

(* A value appended: to column c, the field f of the record or of its      *)
(* entry, converted.                                                       *)
Put(c, f, conversion) == [to |-> c, field |-> f, as |-> conversion]
Get(c)          == Put(c, c, "itself")
As(c, f)        == Put(c, f, "itself")
Hex(c, f)       == Put(c, f, "hex digits")
Char(c, f)      == Put(c, f, "string of one character")
Listed(c)       == Put(c, c, "list")
TenTimes(c, f)  == Put(c, f, "times 10")
Hundredth(c, f) == Put(c, f, "divided by 100")
Start == Put("interval_start_ts", "interval_start", "microseconds")
Gets(cs) == [i \in DOMAIN cs |-> Get(cs[i])]

(* How many rows append() adds: one, or one per entry of a vector of the   *)
(* parsed record.                                                          *)
OneRow(puts) == [entries |-> "one", puts |-> puts, only |-> {}]
PerEntry(vector, puts) == [entries |-> vector, puts |-> puts, only |-> {}]

(* A sink that takes nothing from a record of another subtype.             *)
ForSubtype(sub, append) == [append EXCEPT !.only = {sub}]

-----------------------------------------------------------------------------
(* common_columns.h: the columns every table begins with.  The type of a   *)
(* record is narrowed to the uint8 of its column.                          *)
CommonBuilders == [ts |-> {"smf_timestamp", "ingest_ts"},
     date |-> {"smf_date"},
     utf8 |-> {"system_id", "subsystem_id", "source_file"},
     u8 |-> {"record_type", "flags"}, u16 |-> {"subtype"}]
CommonSchema == << Ts("smf_timestamp"), Date("smf_date"), Utf8("system_id"),
     Utf8("subsystem_id"), U8("record_type"), U16("subtype"), U8("flags"),
     Utf8("source_file"), Ts("ingest_ts") >>
CommonAppend ==
  <<Put("smf_timestamp", "date and time", "microseconds or null"),
    Put("smf_date", "date", "days or null")>> \o
     Gets(<<"system_id", "subsystem_id">>) \o
     <<Put("record_type", "record_type", "narrowed")>> \o
     Gets(<<"subtype", "flags", "source_file", "ingest_ts">>)
CommonFinish == << "smf_timestamp", "smf_date", "system_id", "subsystem_id",
     "record_type", "subtype", "flags", "source_file", "ingest_ts" >>

(* header_only_sink.h: the common columns alone.                           *)
BuildersHeader == << >>
SchemaHeader == << >>
AppendHeader == OneRow(<< >>)
FinishHeader == << >>

(* smf30_parquet_sink.h: one row per record.                               *)
Builders30 == [utf8 |-> {"job_name", "step_name", "job_id", "program_name"},
     f64 |-> {"elapsed_sec", "cpu_sec", "tcb_sec", "srb_sec", "ziip_sec"},
     u32 |-> {"excp_count"}]
Schema30 == << Utf8("job_name"), Utf8("step_name"), Utf8("job_id"),
     Utf8("program_name"), F64("elapsed_sec"), F64("cpu_sec"), F64("tcb_sec"),
     F64("srb_sec"), F64("ziip_sec"), U32("excp_count") >>
Append30 ==
  OneRow(Gets(<<"job_name", "step_name", "job_id", "program_name">>) \o
     <<Hundredth("elapsed_sec", "elapsed_time_hund"),
     Hundredth("cpu_sec", "cpu_time_hund"),
     Hundredth("tcb_sec", "tcb_time_hund"),
     Hundredth("srb_sec", "srb_time_hund"),
     Hundredth("ziip_sec", "ziip_time_hund")>> \o Gets(<<"excp_count">>))
Finish30 == << "job_name", "step_name", "job_id", "program_name",
     "elapsed_sec", "cpu_sec", "tcb_sec", "srb_sec", "ziip_sec",
     "excp_count" >>

(* smf70_1_parquet_sink.h: one row per record.                             *)
Builders70_1 == [ts |-> {"interval_start_ts"}, u32 |-> {"interval_ms",
     "cp_count", "cp_wait_ms", "cp_parked_ms", "ziip_lp_count",
     "ziip_wait_ms", "ziip_parked_ms"}, u16 |-> {"sample_count",
     "zaap_online", "ziip_online"}, utf8 |-> {"sysplex_name", "cpc_model"}]
Schema70_1 == << Ts("interval_start_ts"), U32("interval_ms"),
     U16("sample_count"), Utf8("sysplex_name"), Utf8("cpc_model"),
     U16("zaap_online"), U16("ziip_online"), U32("cp_count"),
     U32("cp_wait_ms"), U32("cp_parked_ms"), U32("ziip_lp_count"),
     U32("ziip_wait_ms"), U32("ziip_parked_ms") >>
Append70_1 ==
  OneRow(<<Start, TenTimes("interval_ms", "interval_hund")>> \o
     Gets(<<"sample_count", "sysplex_name", "cpc_model", "zaap_online",
     "ziip_online", "cp_count">>) \o
     <<TenTimes("cp_wait_ms", "cp_wait_hund"),
     TenTimes("cp_parked_ms", "cp_parked_hund")>> \o
     Gets(<<"ziip_lp_count">>) \o
     <<TenTimes("ziip_wait_ms", "ziip_wait_hund"),
     TenTimes("ziip_parked_ms", "ziip_parked_hund")>>)
Finish70_1 == << "interval_start_ts", "interval_ms", "sample_count",
     "sysplex_name", "cpc_model", "zaap_online", "ziip_online", "cp_count",
     "cp_wait_ms", "cp_parked_ms", "ziip_lp_count", "ziip_wait_ms",
     "ziip_parked_ms" >>

(* smf70_2_parquet_sink.h: a row per entry of cards.                       *)
Builders70_2 == [ts |-> {"interval_start_ts"}, u32 |-> {"interval_ms"},
     utf8 |-> {"sysplex_name"}, u16 |-> {"card_index", "card_type"},
     f64 |-> {"ops_count", "exec_time"}]
Schema70_2 == << Ts("interval_start_ts"), U32("interval_ms"),
     Utf8("sysplex_name"), U16("card_index"), U16("card_type"),
     F64("ops_count"), F64("exec_time") >>
Append70_2 ==
  PerEntry("cards", <<Start, TenTimes("interval_ms", "interval_hund")>> \o
     Gets(<<"sysplex_name", "card_index", "card_type", "ops_count",
     "exec_time">>))
Finish70_2 == << "interval_start_ts", "interval_ms", "sysplex_name",
     "card_index", "card_type", "ops_count", "exec_time" >>

(* smf71_1_parquet_sink.h: one row per record.                             *)
Builders71_1 == [ts |-> {"interval_start_ts"}, u32 |-> {"interval_ms",
     "total_page_ins", "total_page_outs", "avg_avail_frames",
     "max_avail_frames", "min_avail_frames", "fixed_frames"},
     utf8 |-> {"sysplex_name"}]
Schema71_1 == << Ts("interval_start_ts"), U32("interval_ms"),
     Utf8("sysplex_name"), U32("total_page_ins"), U32("total_page_outs"),
     U32("avg_avail_frames"), U32("max_avail_frames"),
     U32("min_avail_frames"), U32("fixed_frames") >>
Append71_1 ==
  OneRow(<<Start, TenTimes("interval_ms", "interval_hund")>> \o
     Gets(<<"sysplex_name", "total_page_ins", "total_page_outs",
     "avg_avail_frames", "max_avail_frames", "min_avail_frames",
     "fixed_frames">>))
Finish71_1 == << "interval_start_ts", "interval_ms", "sysplex_name",
     "total_page_ins", "total_page_outs", "avg_avail_frames",
     "max_avail_frames", "min_avail_frames", "fixed_frames" >>

(* smf72_3_parquet_sink.h: a row per entry of periods.                     *)
Builders72_3 == [ts |-> {"interval_start_ts"}, u32 |-> {"interval_ms",
     "period_num", "importance", "trans_ended"}, utf8 |-> {"policy_name",
     "workload_name", "class_name"}, u64 |-> {"service_units", "cpu_units",
     "ioc_units", "mso_units", "srb_units"}, f64 |-> {"trans_elapsed_sec"}]
Schema72_3 == << Ts("interval_start_ts"), U32("interval_ms"),
     Utf8("policy_name"), Utf8("workload_name"), Utf8("class_name"),
     U32("period_num"), U32("importance"), U64("service_units"),
     U64("cpu_units"), U64("ioc_units"), U64("mso_units"), U64("srb_units"),
     U32("trans_ended"), F64("trans_elapsed_sec") >>
(* Mutant of Append72_3: two counters of one type cross.                   *)
Append72_3Crossed ==
  PerEntry("periods", <<Start, TenTimes("interval_ms", "interval_hund")>> \o
     Gets(<<"policy_name", "workload_name", "class_name", "period_num",
     "importance", "service_units">>) \o
     <<As("cpu_units", "ioc_units"), As("ioc_units", "cpu_units")>> \o
     Gets(<<"mso_units", "srb_units", "trans_ended">>) \o
     <<Hundredth("trans_elapsed_sec", "trans_elapsed_hund")>>)
Append72_3 ==
  PerEntry("periods", <<Start, TenTimes("interval_ms", "interval_hund")>> \o
     Gets(<<"policy_name", "workload_name", "class_name", "period_num",
     "importance", "service_units", "cpu_units", "ioc_units", "mso_units",
     "srb_units", "trans_ended">>) \o
     <<Hundredth("trans_elapsed_sec", "trans_elapsed_hund")>>)
Finish72_3 == << "interval_start_ts", "interval_ms", "policy_name",
     "workload_name", "class_name", "period_num", "importance",
     "service_units", "cpu_units", "ioc_units", "mso_units", "srb_units",
     "trans_ended", "trans_elapsed_sec" >>

(* smf73_1_parquet_sink.h: a row per entry of chpids.                      *)
Builders73_1 == [ts |-> {"interval_start_ts"}, u32 |-> {"interval_ms",
     "busy_count"}, utf8 |-> {"sysplex_name", "chpid", "chpid_acronym"},
     u8 |-> {"chpid_type"}]
Schema73_1 == << Ts("interval_start_ts"), U32("interval_ms"),
     Utf8("sysplex_name"), Utf8("chpid"), U8("chpid_type"),
     Utf8("chpid_acronym"), U32("busy_count") >>
Append73_1 ==
  PerEntry("chpids", <<Start, TenTimes("interval_ms", "interval_hund")>> \o
     Gets(<<"sysplex_name">>) \o <<Hex("chpid", "chpid")>> \o
     Gets(<<"chpid_type", "chpid_acronym", "busy_count">>))
Finish73_1 == << "interval_start_ts", "interval_ms", "sysplex_name", "chpid",
     "chpid_type", "chpid_acronym", "busy_count" >>

(* smf74_1_parquet_sink.h: a row per entry of devices.                     *)
Builders74_1 == [ts |-> {"interval_start_ts"}, u32 |-> {"interval_ms",
     "ssch_count", "connect_ms", "pending_ms", "active_ms", "disconnect_ms",
     "queue_depth"}, u16 |-> {"sample_count"}, utf8 |-> {"sysplex_name",
     "device_num", "volume_serial", "storage_group"}, u8 |-> {"device_flags"}]
Schema74_1 == << Ts("interval_start_ts"), U32("interval_ms"),
     U16("sample_count"), Utf8("sysplex_name"), Utf8("device_num"),
     Utf8("volume_serial"), Utf8("storage_group"), U8("device_flags"),
     U32("ssch_count"), U32("connect_ms"), U32("pending_ms"),
     U32("active_ms"), U32("disconnect_ms"), U32("queue_depth") >>
Append74_1 ==
  PerEntry("devices", <<Start, TenTimes("interval_ms", "interval_hund")>> \o
     Gets(<<"sample_count", "sysplex_name", "device_num", "volume_serial",
     "storage_group", "device_flags", "ssch_count">>) \o
     <<TenTimes("connect_ms", "connect_hund"),
     TenTimes("pending_ms", "pending_hund"),
     TenTimes("active_ms", "active_hund"),
     TenTimes("disconnect_ms", "disconnect_hund")>> \o
     Gets(<<"queue_depth">>))
Finish74_1 == << "interval_start_ts", "interval_ms", "sample_count",
     "sysplex_name", "device_num", "volume_serial", "storage_group",
     "device_flags", "ssch_count", "connect_ms", "pending_ms", "active_ms",
     "disconnect_ms", "queue_depth" >>

(* smf74_2_path_parquet_sink.h: a row per entry of paths.                  *)
Builders74_2p == [ts |-> {"interval_start_ts"}, utf8 |-> {"sysplex_name",
     "system_name", "other_system"}, u16 |-> {"device_num"},
     u8 |-> {"direction"}, u32 |-> {"signals_sent"}]
Schema74_2p == << Ts("interval_start_ts"), Utf8("sysplex_name"),
     Utf8("system_name"), U16("device_num"), U8("direction"),
     U32("signals_sent"), Utf8("other_system") >>
Append74_2p ==
  PerEntry("paths", <<Start>> \o Gets(<<"sysplex_name", "system_name",
     "device_num", "direction", "signals_sent", "other_system">>))
Finish74_2p == << "interval_start_ts", "sysplex_name", "system_name",
     "device_num", "direction", "signals_sent", "other_system" >>

(* smf74_2_member_parquet_sink.h: a row per entry of members.              *)
Builders74_2m == [ts |-> {"interval_start_ts"}, utf8 |-> {"sysplex_name",
     "system_name", "group_name", "member_name"}, u32 |-> {"signals_sent",
     "signals_rcvd"}]
Schema74_2m == << Ts("interval_start_ts"), Utf8("sysplex_name"),
     Utf8("system_name"), Utf8("group_name"), Utf8("member_name"),
     U32("signals_sent"), U32("signals_rcvd") >>
Append74_2m ==
  PerEntry("members", <<Start>> \o Gets(<<"sysplex_name", "system_name",
     "group_name", "member_name", "signals_sent", "signals_rcvd">>))
Finish74_2m == << "interval_start_ts", "sysplex_name", "system_name",
     "group_name", "member_name", "signals_sent", "signals_rcvd" >>

(* smf74_3_parquet_sink.h: one row per record.                             *)
Builders74_3 == [ts |-> {"interval_start_ts"}, u32 |-> {"interval_ms",
     "syscall_count", "syscall_cpu_ms", "max_processes", "max_users",
     "current_processes", "current_users"}, utf8 |-> {"sysplex_name"}]
Schema74_3 == << Ts("interval_start_ts"), U32("interval_ms"),
     Utf8("sysplex_name"), U32("syscall_count"), U32("syscall_cpu_ms"),
     U32("max_processes"), U32("max_users"), U32("current_processes"),
     U32("current_users") >>
Append74_3 ==
  OneRow(<<Start, TenTimes("interval_ms", "interval_hund")>> \o
     Gets(<<"sysplex_name", "syscall_count", "syscall_cpu_ms",
     "max_processes", "max_users", "current_processes", "current_users">>))
Finish74_3 == << "interval_start_ts", "interval_ms", "sysplex_name",
     "syscall_count", "syscall_cpu_ms", "max_processes", "max_users",
     "current_processes", "current_users" >>

(* smf74_4_parquet_sink.h: a row per entry of structures.                  *)
Builders74_4 == [ts |-> {"interval_start_ts"}, u32 |-> {"interval_ms",
     "total_req", "size_4k"}, utf8 |-> {"sysplex_name", "cf_name",
     "structure_name"}, u16 |-> {"cf_level"}]
Schema74_4 == << Ts("interval_start_ts"), U32("interval_ms"),
     Utf8("sysplex_name"), Utf8("cf_name"), U16("cf_level"), U32("total_req"),
     Utf8("structure_name"), U32("size_4k") >>
Append74_4 ==
  PerEntry("structures", <<Start,
     TenTimes("interval_ms", "interval_hund")>> \o Gets(<<"sysplex_name",
     "cf_name", "cf_level", "total_req", "structure_name", "size_4k">>))
Finish74_4 == << "interval_start_ts", "interval_ms", "sysplex_name",
     "cf_name", "cf_level", "total_req", "structure_name", "size_4k" >>

(* smf74_5_parquet_sink.h: a row per entry of devices.                     *)
Builders74_5 == [ts |-> {"interval_start_ts"}, u32 |-> {"interval_ms",
     "read_req", "read_hit", "write_req", "write_hit"},
     utf8 |-> {"sysplex_name", "volser"}, u16 |-> {"device_num"}]
Schema74_5 == << Ts("interval_start_ts"), U32("interval_ms"),
     Utf8("sysplex_name"), Utf8("volser"), U16("device_num"), U32("read_req"),
     U32("read_hit"), U32("write_req"), U32("write_hit") >>
Append74_5 ==
  PerEntry("devices", <<Start, TenTimes("interval_ms", "interval_hund")>> \o
     Gets(<<"sysplex_name", "volser", "device_num", "read_req", "read_hit",
     "write_req", "write_hit">>))
(* Mutant of Finish74_5: two arrays of one type change places.             *)
Finish74_5Swapped == << "interval_start_ts", "interval_ms", "sysplex_name",
     "volser", "device_num", "read_req", "write_req", "read_hit",
     "write_hit" >>
Finish74_5 == << "interval_start_ts", "interval_ms", "sysplex_name", "volser",
     "device_num", "read_req", "read_hit", "write_req", "write_hit" >>

(* smf74_6_parquet_sink.h: one row per record.                             *)
Builders74_6 == [ts |-> {"interval_start_ts"}, utf8 |-> {"sysplex_name"},
     u32 |-> {"max_virtual_mb", "inuse_virtual_pages", "min_fixed_mb",
     "inuse_fixed_pages"}, f64 |-> {"metadata_hits", "metadata_misses"}]
Schema74_6 == << Ts("interval_start_ts"), Utf8("sysplex_name"),
     U32("max_virtual_mb"), U32("inuse_virtual_pages"), U32("min_fixed_mb"),
     U32("inuse_fixed_pages"), F64("metadata_hits"), F64("metadata_misses") >>
Append74_6 ==
  OneRow(<<Start>> \o Gets(<<"sysplex_name", "max_virtual_mb",
     "inuse_virtual_pages", "min_fixed_mb", "inuse_fixed_pages",
     "metadata_hits", "metadata_misses">>))
Finish74_6 == << "interval_start_ts", "sysplex_name", "max_virtual_mb",
     "inuse_virtual_pages", "min_fixed_mb", "inuse_fixed_pages",
     "metadata_hits", "metadata_misses" >>

(* smf74_7_parquet_sink.h: a row per entry of ports.                       *)
Builders74_7 == [ts |-> {"interval_start_ts"}, utf8 |-> {"sysplex_name"},
     u16 |-> {"port_num", "port_addr"}, f64 |-> {"words_rcvd", "words_sent",
     "frames_rcvd", "frames_sent"}]
Schema74_7 == << Ts("interval_start_ts"), Utf8("sysplex_name"),
     U16("port_num"), U16("port_addr"), F64("words_rcvd"), F64("words_sent"),
     F64("frames_rcvd"), F64("frames_sent") >>
Append74_7 ==
  PerEntry("ports", <<Start>> \o Gets(<<"sysplex_name", "port_num",
     "port_addr", "words_rcvd", "words_sent", "frames_rcvd",
     "frames_sent">>))
Finish74_7 == << "interval_start_ts", "sysplex_name", "port_num", "port_addr",
     "words_rcvd", "words_sent", "frames_rcvd", "frames_sent" >>

(* smf74_8_parquet_sink.h: a row per entry of pools.                       *)
Builders74_8 == [ts |-> {"interval_start_ts"}, u32 |-> {"interval_ms",
     "pool_id", "pool_type", "real_cap_gb", "real_extents", "real_alloc"},
     utf8 |-> {"sysplex_name"}]
Schema74_8 == << Ts("interval_start_ts"), U32("interval_ms"),
     Utf8("sysplex_name"), U32("pool_id"), U32("pool_type"),
     U32("real_cap_gb"), U32("real_extents"), U32("real_alloc") >>
Append74_8 ==
  PerEntry("pools", <<Start, TenTimes("interval_ms", "interval_hund")>> \o
     Gets(<<"sysplex_name", "pool_id", "pool_type", "real_cap_gb",
     "real_extents", "real_alloc">>))
Finish74_8 == << "interval_start_ts", "interval_ms", "sysplex_name",
     "pool_id", "pool_type", "real_cap_gb", "real_extents", "real_alloc" >>

(* smf74_9_parquet_sink.h: a row per entry of functions.                   *)
Builders74_9 == [ts |-> {"interval_start_ts"}, u32 |-> {"interval_ms",
     "pfid"}, utf8 |-> {"sysplex_name", "job_name"}, u16 |-> {"asid"},
     u8 |-> {"func_type"}, u64 |-> {"load_ops", "store_ops"}]
Schema74_9 == << Ts("interval_start_ts"), U32("interval_ms"),
     Utf8("sysplex_name"), U32("pfid"), Utf8("job_name"), U16("asid"),
     U8("func_type"), U64("load_ops"), U64("store_ops") >>
Append74_9 ==
  PerEntry("functions", <<Start,
     TenTimes("interval_ms", "interval_hund")>> \o Gets(<<"sysplex_name",
     "pfid", "job_name", "asid", "func_type", "load_ops", "store_ops">>))
Finish74_9 == << "interval_start_ts", "interval_ms", "sysplex_name", "pfid",
     "job_name", "asid", "func_type", "load_ops", "store_ops" >>

(* smf75_1_parquet_sink.h: a row per entry of pagesets.                    *)
Builders75_1 == [ts |-> {"interval_start_ts"}, u32 |-> {"interval_ms",
     "total_slots", "max_slots_used", "min_slots_used", "avg_slots_used",
     "sio_count", "pages_transferred"}, u16 |-> {"sample_count"},
     utf8 |-> {"sysplex_name", "dsn", "volume_serial"}, u8 |-> {"pst_flags"}]
Schema75_1 == << Ts("interval_start_ts"), U32("interval_ms"),
     U16("sample_count"), Utf8("sysplex_name"), Utf8("dsn"),
     Utf8("volume_serial"), U8("pst_flags"), U32("total_slots"),
     U32("max_slots_used"), U32("min_slots_used"), U32("avg_slots_used"),
     U32("sio_count"), U32("pages_transferred") >>
Append75_1 ==
  PerEntry("pagesets", <<Start, TenTimes("interval_ms", "interval_hund")>> \o
     Gets(<<"sample_count", "sysplex_name", "dsn", "volume_serial",
     "pst_flags", "total_slots">>) \o <<As("max_slots_used", "max_used"),
     As("min_slots_used", "min_used"), As("avg_slots_used", "avg_used")>> \o
     Gets(<<"sio_count">>) \o <<As("pages_transferred", "pages_xfer")>>)
Finish75_1 == << "interval_start_ts", "interval_ms", "sample_count",
     "sysplex_name", "dsn", "volume_serial", "pst_flags", "total_slots",
     "max_slots_used", "min_slots_used", "avg_slots_used", "sio_count",
     "pages_transferred" >>

(* smf76_1_parquet_sink.h: one row per record.                             *)
Builders76_1 == [ts |-> {"interval_start_ts"}, u32 |-> {"interval_ms",
     "page_ins", "page_outs", "swap_ins", "swap_outs", "frame_count",
     "working_set"}, utf8 |-> {"sysplex_name"}]
Schema76_1 == << Ts("interval_start_ts"), U32("interval_ms"),
     Utf8("sysplex_name"), U32("page_ins"), U32("page_outs"), U32("swap_ins"),
     U32("swap_outs"), U32("frame_count"), U32("working_set") >>
Append76_1 ==
  OneRow(<<Start, TenTimes("interval_ms", "interval_hund")>> \o
     Gets(<<"sysplex_name", "page_ins", "page_outs", "swap_ins", "swap_outs",
     "frame_count", "working_set">>))
Finish76_1 == << "interval_start_ts", "interval_ms", "sysplex_name",
     "page_ins", "page_outs", "swap_ins", "swap_outs", "frame_count",
     "working_set" >>

(* smf77_1_parquet_sink.h: a row per entry of enqueues.                    *)
Builders77_1 == [ts |-> {"interval_start_ts"}, u32 |-> {"interval_ms",
     "total_wait_ms", "max_wait_ms"}, u16 |-> {"sample_count"},
     utf8 |-> {"sysplex_name", "major_name", "minor_name"}]
Schema77_1 == << Ts("interval_start_ts"), U32("interval_ms"),
     U16("sample_count"), Utf8("sysplex_name"), Utf8("major_name"),
     Utf8("minor_name"), U32("total_wait_ms"), U32("max_wait_ms") >>
Append77_1 ==
  PerEntry("enqueues", <<Start, TenTimes("interval_ms", "interval_hund")>> \o
     Gets(<<"sample_count", "sysplex_name", "major_name", "minor_name",
     "total_wait_ms", "max_wait_ms">>))
Finish77_1 == << "interval_start_ts", "interval_ms", "sample_count",
     "sysplex_name", "major_name", "minor_name", "total_wait_ms",
     "max_wait_ms" >>

(* smf78_3_parquet_sink.h: a row per entry of lcus.                        *)
Builders78_3 == [ts |-> {"interval_start_ts"}, u32 |-> {"interval_ms",
     "queue_len_sum", "queue_len_count"}, utf8 |-> {"sysplex_name", "lcu_id"},
     u8 |-> {"css_id"}]
Schema78_3 == << Ts("interval_start_ts"), U32("interval_ms"),
     Utf8("sysplex_name"), Utf8("lcu_id"), U8("css_id"), U32("queue_len_sum"),
     U32("queue_len_count") >>
Append78_3 ==
  PerEntry("lcus", <<Start, TenTimes("interval_ms", "interval_hund")>> \o
     Gets(<<"sysplex_name">>) \o <<Hex("lcu_id", "lcu_id")>> \o
     Gets(<<"css_id", "queue_len_sum", "queue_len_count">>))
Finish78_3 == << "interval_start_ts", "interval_ms", "sysplex_name", "lcu_id",
     "css_id", "queue_len_sum", "queue_len_count" >>

(* smf79_1_parquet_sink.h: a row per entry of as_states.                   *)
Builders79_1 == [ts |-> {"interval_start_ts"}, u32 |-> {"interval_ms",
     "total_cpu_ms", "real_frames", "ziip_ms"}, utf8 |-> {"sysplex_name",
     "job_name", "service_class"}, u16 |-> {"asid"}]
Schema79_1 == << Ts("interval_start_ts"), U32("interval_ms"),
     Utf8("sysplex_name"), U16("asid"), Utf8("job_name"), U32("total_cpu_ms"),
     U32("real_frames"), Utf8("service_class"), U32("ziip_ms") >>
Append79_1 ==
  PerEntry("as_states", <<Start,
     TenTimes("interval_ms", "interval_hund")>> \o Gets(<<"sysplex_name",
     "asid", "job_name", "total_cpu_ms", "real_frames", "service_class",
     "ziip_ms">>))
Finish79_1 == << "interval_start_ts", "interval_ms", "sysplex_name", "asid",
     "job_name", "total_cpu_ms", "real_frames", "service_class", "ziip_ms" >>

(* smf79_2_parquet_sink.h: a row per entry of as_resources.                *)
Builders79_2 == [ts |-> {"interval_start_ts"}, u32 |-> {"interval_ms",
     "total_cpu_ms", "fixed_frames"}, utf8 |-> {"sysplex_name", "job_name",
     "service_class"}, u16 |-> {"asid"}]
Schema79_2 == << Ts("interval_start_ts"), U32("interval_ms"),
     Utf8("sysplex_name"), U16("asid"), Utf8("job_name"), U32("total_cpu_ms"),
     U32("fixed_frames"), Utf8("service_class") >>
(* Mutant of Append79_2: the vector of the other subtype.                  *)
Append79_2States ==
  PerEntry("as_states", <<Start, TenTimes("interval_ms", "interval_hund")>> \o
     Gets(<<"sysplex_name", "asid", "job_name", "total_cpu_ms", "fixed_frames",
     "service_class">>))
Append79_2 ==
  PerEntry("as_resources", <<Start,
     TenTimes("interval_ms", "interval_hund")>> \o Gets(<<"sysplex_name",
     "asid", "job_name", "total_cpu_ms", "fixed_frames", "service_class">>))
Finish79_2 == << "interval_start_ts", "interval_ms", "sysplex_name", "asid",
     "job_name", "total_cpu_ms", "fixed_frames", "service_class" >>

(* smf79_13_parquet_sink.h: a row per entry of events.                     *)
Builders79_13 == [ts |-> {"interval_start_ts"}, utf8 |-> {"sysplex_name",
     "event_data"}, u16 |-> {"event_type"}]
Schema79_13 == << Ts("interval_start_ts"), Utf8("sysplex_name"),
     U16("event_type"), Utf8("event_data") >>
Append79_13 ==
  PerEntry("events", <<Start>> \o Gets(<<"sysplex_name", "event_type",
     "event_data">>))
Finish79_13 == << "interval_start_ts", "sysplex_name", "event_type",
     "event_data" >>

(* smf98_parquet_sink.h: a row per entry of as_consumption.                *)
Builders98 == [u16 |-> {"asid"}, utf8 |-> {"job_name"}]
Schema98 == << U16("asid"), Utf8("job_name") >>
Append98 ==
  PerEntry("as_consumption", Gets(<<"asid", "job_name">>))
Finish98 == << "asid", "job_name" >>

(* smf113_parquet_sink.h: one row per record.                              *)
Builders113 == [u16 |-> {"cpu_id"}, u8 |-> {"cpu_class"},
     list |-> {"counters"}]
Schema113 == << U16("cpu_id"), U8("cpu_class"), List("counters") >>
Append113 ==
  OneRow(Gets(<<"cpu_id", "cpu_class">>) \o <<Listed("counters")>>)
Finish113 == << "cpu_id", "cpu_class", "counters" >>

(* smf1154_1_parquet_sink.h: a row per entry of tcp_stacks.                *)
Builders1154_1 == [utf8 |-> {"system_name", "sysplex_name", "job_name",
     "request_id", "stack_name"}, u8 |-> {"ip_version"},
     u32 |-> {"up_time_sec"}]
Schema1154_1 == << Utf8("system_name"), Utf8("sysplex_name"),
     Utf8("job_name"), Utf8("request_id"), Utf8("stack_name"),
     U8("ip_version"), U32("up_time_sec") >>
Append1154_1 ==
  ForSubtype(1, PerEntry("tcp_stacks", Gets(<<"system_name", "sysplex_name",
     "job_name", "request_id", "stack_name", "ip_version", "up_time_sec">>)))
Finish1154_1 == << "system_name", "sysplex_name", "job_name", "request_id",
     "stack_name", "ip_version", "up_time_sec" >>

(* smf1154_2_parquet_sink.h: a row per entry of ftp_configs.               *)
Builders1154_2 == [utf8 |-> {"system_name", "sysplex_name", "job_name",
     "request_id", "sec_session_reuse"}, bool |-> {"anonymous_allowed"},
     u16 |-> {"inactivity_timeout", "port_min", "port_max"}]
Schema1154_2 == << Utf8("system_name"), Utf8("sysplex_name"),
     Utf8("job_name"), Utf8("request_id"), Bool("anonymous_allowed"),
     U16("inactivity_timeout"), U16("port_min"), U16("port_max"),
     Utf8("sec_session_reuse") >>
Append1154_2 ==
  ForSubtype(2, PerEntry("ftp_configs", Gets(<<"system_name", "sysplex_name",
     "job_name", "request_id", "anonymous_allowed", "inactivity_timeout",
     "port_min", "port_max">>) \o
     <<Char("sec_session_reuse", "sec_session_reuse")>>))
Finish1154_2 == << "system_name", "sysplex_name", "job_name", "request_id",
     "anonymous_allowed", "inactivity_timeout", "port_min", "port_max",
     "sec_session_reuse" >>

(* smf1154_83_parquet_sink.h: a row per entry of racf_summaries.           *)
Builders1154_83 == [utf8 |-> {"system_name", "sysplex_name", "job_name",
     "request_id"}, bool |-> {"racf_active"}, u16 |-> {"min_password_len",
     "password_history", "password_interval"}]
Schema1154_83 == << Utf8("system_name"), Utf8("sysplex_name"),
     Utf8("job_name"), Utf8("request_id"), Bool("racf_active"),
     U16("min_password_len"), U16("password_history"),
     U16("password_interval") >>
Append1154_83 ==
  ForSubtype(83, PerEntry("racf_summaries", Gets(<<"system_name",
     "sysplex_name", "job_name", "request_id">>) \o
     <<As("racf_active", "is_active")>> \o Gets(<<"min_password_len",
     "password_history", "password_interval">>)))
Finish1154_83 == << "system_name", "sysplex_name", "job_name", "request_id",
     "racf_active", "min_password_len", "password_history",
     "password_interval" >>

(* raw_parquet_sink.h: one row per record.                                 *)
BuildersRaw == [binary |-> {"body"}]
SchemaRaw == << Binary("body") >>
AppendRaw ==
  OneRow(Gets(<<"body">>))
FinishRaw == << "body" >>

(* write() of the raw sink passes 0 for the subtype of the record.         *)
CommonAppendRaw ==
  [i \in DOMAIN CommonAppend |->
     IF CommonAppend[i].to = "subtype" THEN Put("subtype", "none", "0")
                                       ELSE CommonAppend[i]]

-----------------------------------------------------------------------------
(* The vectors of a parsed record that its reader fills, for the readers   *)
(* that serve more than one subtype.                                       *)
Filled79(sub) ==
  CASE sub = 1  -> {"as_states"}
    [] sub = 2  -> {"as_resources"}
    [] sub = 13 -> {"events"}
    [] OTHER    -> {}
Filled1154(sub) ==
  CASE sub = 1  -> {"tcp_stacks"}
    [] sub = 2  -> {"ftp_configs"}
    [] sub = 83 -> {"racf_summaries"}
    [] OTHER    -> {}

Filled(t, vector) ==
  CASE t.type = 79   -> Filled79(t.sub)
    [] t.type = 1154 -> Filled1154(t.sub)
    [] OTHER         -> {vector}

(* The type of each builder.                                               *)
TypesOf(builders) ==
  [c \in UNION Range(builders) |->
     CHOOSE ty \in DOMAIN builders : c \in builders[ty]]

(* A sink: every list begins with that of the common columns, and append() *)
(* fills the common columns of all rows of a record before the others.     *)
Layout(t, builders, schema, append, finish) ==
  [table   |-> t,
   types   |-> TypesOf(builders) @@ TypesOf(CommonBuilders),
   schema  |-> CommonSchema \o schema,
   common  |-> IF t = Raw THEN CommonAppendRaw ELSE CommonAppend,
   own     |-> append.puts,
   entries |-> append.entries,
   only    |-> append.only,
   filled  |-> Filled(t, append.entries),
   finish  |-> CommonFinish \o finish]

(* The sinks of SinkSet.                                                   *)
SinkLayouts ==
  { Layout(Sink(30, 0), Builders30, Schema30, Append30, Finish30),
    Layout(Sink(70, 1), Builders70_1, Schema70_1, Append70_1, Finish70_1),
    Layout(Sink(70, 2), Builders70_2, Schema70_2, Append70_2, Finish70_2),
    Layout(Sink(71, 1), Builders71_1, Schema71_1, Append71_1, Finish71_1),
    Layout(Sink(72, 3), Builders72_3, Schema72_3, Append72_3, Finish72_3),
    Layout(Sink(73, 1), Builders73_1, Schema73_1, Append73_1, Finish73_1),
    Layout(Sink(74, 1), Builders74_1, Schema74_1, Append74_1, Finish74_1),
    Layout(Paths, Builders74_2p, Schema74_2p, Append74_2p, Finish74_2p),
    Layout(Members, Builders74_2m, Schema74_2m, Append74_2m, Finish74_2m),
    Layout(Sink(74, 3), Builders74_3, Schema74_3, Append74_3, Finish74_3),
    Layout(Sink(74, 4), Builders74_4, Schema74_4, Append74_4, Finish74_4),
    Layout(Sink(74, 5), Builders74_5, Schema74_5, Append74_5, Finish74_5),
    Layout(Sink(74, 6), Builders74_6, Schema74_6, Append74_6, Finish74_6),
    Layout(Sink(74, 7), Builders74_7, Schema74_7, Append74_7, Finish74_7),
    Layout(Sink(74, 8), Builders74_8, Schema74_8, Append74_8, Finish74_8),
    Layout(Sink(74, 9), Builders74_9, Schema74_9, Append74_9, Finish74_9),
    Layout(Sink(75, 1), Builders75_1, Schema75_1, Append75_1, Finish75_1),
    Layout(Sink(76, 1), Builders76_1, Schema76_1, Append76_1, Finish76_1),
    Layout(Sink(77, 1), Builders77_1, Schema77_1, Append77_1, Finish77_1),
    Layout(Sink(78, 3), Builders78_3, Schema78_3, Append78_3, Finish78_3),
    Layout(Sink(79, 1), Builders79_1, Schema79_1, Append79_1, Finish79_1),
    Layout(Sink(79, 2), Builders79_2, Schema79_2, Append79_2, Finish79_2),
    Layout(Sink(79, 13), Builders79_13,
           Schema79_13, Append79_13, Finish79_13),
    Layout(Sink(98, 0), Builders98, Schema98, Append98, Finish98),
    Layout(Sink(113, 0), Builders113, Schema113, Append113, Finish113),
    Layout(Sink(1154, 1), Builders1154_1,
           Schema1154_1, Append1154_1, Finish1154_1),
    Layout(Sink(1154, 2), Builders1154_2,
           Schema1154_2, Append1154_2, Finish1154_2),
    Layout(Sink(1154, 83), Builders1154_83,
           Schema1154_83, Append1154_83, Finish1154_83),
    Layout(Raw, BuildersRaw, SchemaRaw, AppendRaw, FinishRaw) }

(* A table of a router.                                                    *)
RouterLayout(t) ==
  Layout(t, BuildersHeader, SchemaHeader, AppendHeader, FinishHeader)

=============================================================================
