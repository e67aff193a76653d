------------------------------ MODULE ExtInfo ------------------------------
(****************************************************************************)
(* What the analysis knows of library functions (ExtInfo.cpp): for each     *)
(* name, the constraints a call adds, whether it allocates, and the memory  *)
(* it hands to or takes from the profiling runtimes.                        *)
(****************************************************************************)
EXTENDS ModInfo

NullV      == <<"special", "null", 0>>
IntV       == <<"special", "int", 0>>
UniversalV == <<"special", "universal", 0>>
AggregateV == <<"special", "aggregate", 0>>

ValueId(v)      == <<"val", v, 0>>      \* a value of pointer type
ObjectId(i, k)  == <<"obj", i, k>>      \* field k of the object allocated at i
PhonyId(i, k)   == <<"phony", i, k>>    \* ValueMap::createPhonyID
NamedId(n)      == <<"named", n, 0>>    \* ValueMap::getNamed
StaticObj(n)    == <<"static", n, 0>>   \* the object behind a named value

Plain(t, s, d)     == [type |-> t, src |-> s, dest |-> d, offs |-> 0]
CopyAt(s, d, k)    == [type |-> "Copy", src |-> s, dest |-> d, offs |-> k]

(***************************************************************************)
(* The table, in the order of the constructor: a name that is given twice  *)
(* keeps its first entry.                                                  *)
(***************************************************************************)
Kind(k, n, s) == [kind |-> k, arg |-> n, name |-> s]
NoopInfo == Kind("Noop", 0, "")

AllocNames == ("malloc" :> Kind("Alloc", 0, "")) @@ ("valloc" :> Kind("Alloc", 1, ""))
    @@ ("memalign" :> Kind("Alloc", 0, "")) @@ ("calloc" :> Kind("Alloc", 1, ""))
    @@ ("realloc" :> Kind("Realloc", 1, "")) @@ ("free" :> Kind("Free", 1, ""))
    @@ ("mmap64" :> Kind("Alloc", 0, "")) @@ ("strdup" :> Kind("Strdup", 0, ""))
FileNames ==
    [f \in {"fopen", "tmpfile", "fopen64", "popen", "fdopen"} |-> Kind("FileOpen", 0, "")]
    @@ [f \in {"fclose", "pclose", "closedir"} |-> Kind("Free", 1, "")]
    @@ [f \in {"opendir", "fdopendir"} |-> Kind("DirOpen", 0, "struct.__dirstream")]
StringNames ==
    [f \in {"strchr", "strrchr", "stpcpy", "strcat", "strstr", "strncat", "strcpy", "strncpy",
            "strpbrk", "getcwd", "getwd", "mkdtemp", "memchr", "bindtextdomain", "fgets"}
       |-> Kind("ReturnArg", 1, "")]
    @@ [f \in {"gcvt", "freopen"} |-> Kind("ReturnArg", 3, "")]
    @@ [f \in {"localtime_r", "realpath"} |-> Kind("ReturnArg", 2, "")]
    @@ [f \in {"strtol", "strtoul", "strtoll", "strtoull"} |-> Kind("StoreArgs", 1, "")]
    @@ ("strtok" :> Kind("Named", 0, "strtok")) @@ ("textdomain" :> Kind("Named", 0, "textdomain_static"))
    @@ [f \in {"localtime", "gmtime"} |-> Kind("Named", 0, "datetime_static")]
    @@ ("getpwnam" :> Kind("Named", 0, "pwnam")) @@ ("getgrnam" :> Kind("Named", 0, "grnam"))
    @@ ("gettext" :> Kind("ArgOrStatic", 1, "gettext_static"))
StaticNames ==
    [f \in {"tigetstr", "tparm"} |-> Kind("Named", 0, "terminfo")]
    @@ [f \in {"strerror", "gai_strerror"} |-> Kind("Named", 0, "clib")]
    @@ [f \in {"getlocale", "setlocale", "nl_langinfo"} |-> Kind("Named", 0, "locale")]
    @@ ("readdir" :> Kind("Named", 0, "dirent_static")) @@ ("__ctype_b_loc" :> Kind("Named", 0, "ctype"))
    @@ ("__errno_location" :> Kind("Named", 0, "errno")) @@ ("getenv" :> Kind("Named", 0, "env"))
    @@ ("pthread_create" :> Kind("PthreadCreate", 4, "")) @@ ("qsort" :> NoopInfo)
    @@ ("ioctl" :> NoopInfo)

Noops1 == {"llvm.va_end", "atoi", "atof", "atol", "atoll", "remove", "unlink", "unlinkat", "setenv",
    "sigaltstack", "sysinfo", "tputs", "tcgetattr", "tcsetattr", "tcflush", "tgetflag", "tgetnum",
    "tgetent", "rename", "memcmp", "llvm.memset", "llvm.va_copy", "system", "link", "setuid", "setgid",
    "seteuid", "setegid", "geteuid", "getegid", "getpid", "setvbuf", "setbuf", "ftruncate", "closedir",
    "putenv", "kill", "frexp", "__isnan", "strcmp", "strncmp", "execl", "execlp", "execle", "execv",
    "execvp", "chmod", "puts", "sethostname", "gethostname"}
Noops2 == {"listen", "socketpair", "sendmsg", "write", "open", "openat", "create", "open64", "lstat64",
    "truncate", "chdir", "mkdir", "rmdir", "pwrite64", "pread64", "read", "pipe", "wait", "time", "stat",
    "fstat", "stat64", "fstat64", "lstat", "strtod", "strtof", "strtold", "fflush", "feof", "fileno",
    "clearerr", "rewind", "ftell", "ferror", "fgetc", "_IO_getc", "fwrite", "fread", "ungetc",
    "fputc_unlocked", "fputc", "fputs", "fputs_unlocked", "putc", "fclose", "_IO_putc", "fseek"}
Noops3 == {"fgetpos", "fsetpos", "printf", "fprintf", "sprintf", "vprintf", "vfprintf", "vsprintf",
    "scanf", "fscanf", "sscanf", "__assert_fail", "modf", "exit", "_exit", "strlen", "close", "abort",
    "atexit", "error", "umask", "free", "setfscreatecon", "strspn", "strcspn", "bsearch", "clock",
    "getpagesize", "obstack_free", "_obstack_newchunk", "_obstack_begin", "_obstack_memory_used",
    "__ctype_get_mb_cur_max", "iswprint", "mbsinit", "mbrtowc", "fchdir", "fseeko", "ferror_unlocked",
    "fork", "waitpid", "raise", "__fpending", "fchown", "fchmod", "lchown", "chown", "getc_unlocked"}
Noops4 == {"snprintf", "__freading", "lseek", "fcntl", "feeko", "abs", "toupper", "__iso_c99sscanf",
    "iswupper", "tolower", "towupper", "towlower", "strncasecmp", "floor", "ceil", "fabs", "acos", "asin",
    "atan", "atan2", "cos", "cosh", "exp", "fmod", "strcasecmp", "log", "log10", "sin", "sinh", "tan",
    "tanh", "readlink", "sqrt", "strftime", "getuid", "getgid", "gettimeofday", "settimeofday", "iconv",
    "iconv_close", "access", "dup", "strncpy", "__isoc99_sscanf", "select", "ctime", "fsync", "utime",
    "utimes", "getchar"}
Noops5 == {"clock_gettime", "utimensat", "futimesat", "futimens", "mblen", "perror", "lseek64", "signal",
    "isatty", "stat64", "vsnprintf", "__isoc99_fscanf", "pclose", "getrusage", "getrlimit", "setrlimit",
    "cielf", "floorf", "sleep", "setupterm", "tigetnum", "times", "sysconf", "ceilf", "setlinebuf",
    "putchar", "htons", "htonl", "ntohs", "ntohl", "random", "inet_pton", "rand", "inet_ntop",
    "pthread_mutex_init", "pthread_cond_init", "srandom", "sigsuspend", "sigaction", "sigprocmask",
    "sigemptyset", "sigfillset", "sigaddset", "sigdelset", "sigismember", "epoll_create", "epoll_ctl",
    "epoll_wait"}
Noops6 == {"poll", "setsocketopt", "socket", "bind", "connect", "accept", "getpeername", "getsockname",
    "setsockopt", "getsockopt", "strcoll", "syslog", "uname", "wait3", "dup2", "setsid", "srand",
    "getrlimit64", "setrlimit64", "pthread_attr_setstacksize", "pthread_attr_getstacksize",
    "ftruncate64", "sync_file_range", "fdatasync", "truncate64", "ftello64", "ftello", "getitimer",
    "setitimer", "__isinf", "__isinfl", "__isnan", "__isnanl", "llvm.dbg.declare", "llvm.dbg.value",
    "getopt_long"}
NoopNames == Noops1 \cup Noops2 \cup Noops3 \cup Noops4 \cup Noops5 \cup Noops6

\* Intrinsics are found by a part of their name; one name stands for each.
MatchNames ==
    [f \in {"llvm.memset.p0i8", "llvm.bswap.i32", "llvm.expect.i64", "llvm.pow.f64"} |-> NoopInfo]
    @@ [f \in {"llvm.memcpy.p0i8", "llvm.memmove.p0i8", "memmove"} |-> Kind("Memcpy", 0, "")]

Table == AllocNames @@ FileNames @@ StringNames @@ StaticNames
         @@ [f \in NoopNames |-> NoopInfo] @@ MatchNames

getInfo(f) == IF f \in DOMAIN Table THEN Table[f] ELSE Kind("Unknown", 0, "")

(***************************************************************************)
(* A call is an instruction: id names it, type is what its result points   *)
(* to, dst its value (NoId-like when it has none), args the ids of its     *)
(* arguments, IntV for those that are no pointers.                         *)
(***************************************************************************)
IsPtr(v) == v[1] \notin {"int", "agg", "void"} /\ v # IntV

\* Looks for the casts of the result but meets the result itself instead.
findLargestType(t, conservative) ==
    IF ~IsStruct(t) /\ conservative
      THEN [base |-> getMaxStructInfo, array |-> FALSE] ELSE t

CanBeStruct(i) == findLargestType(i.type, TRUE)
FileType == IF "struct._IO_FILE" \in Struct THEN "struct._IO_FILE" ELSE "int"

AllocType(k, i) ==
    CASE k \in {"Strdup"}  -> [base |-> "int", array |-> TRUE]
      [] k = "FileOpen"    -> [base |-> FileType, array |-> FALSE]
      [] OTHER             -> CanBeStruct(i)

\* ExtInfo::getAllocInfo: calls that are taken to be allocations.
Allocates(info, i) ==
    \/ info.kind \in {"Alloc", "Realloc", "Strdup", "FileOpen", "DirOpen"}
    \/ info.kind = "Unknown" /\ IsPtr(i.dst)

AddressOfNew(i) == {Plain("AddressOf", ObjectId(i.id, 0), i.dst)}

MemcpyCons(i) ==
    LET t == findLargestType(i.argType, FALSE)
        Field(k) == {CopyAt(i.args[2], PhonyId(i.id, 3 * k), k),
                     Plain("Load", PhonyId(i.id, 3 * k), PhonyId(i.id, 3 * k + 1)),
                     CopyAt(i.args[1], PhonyId(i.id, 3 * k + 2), k),
                     Plain("Store", PhonyId(i.id, 3 * k + 1), PhonyId(i.id, 3 * k + 2))}
    IN IF IsStruct(t) THEN UNION {Field(k) : k \in 0 .. numSizes(t.base) - 1}
       ELSE {Plain("Load", i.args[2], PhonyId(i.id, 0)), Plain("Store", PhonyId(i.id, 0), i.args[1])}

UnknownCons(i) ==
    {Plain("Load", i.dst, UniversalV) : x \in {y \in {1} : IsPtr(i.dst)}}
    \cup {Plain("Load", i.args[n], UniversalV) : n \in DOMAIN i.args}

\* ExtInfo::insertCallCons.
insertCallCons(info, i) ==
    CASE info.kind \in {"Alloc", "Strdup", "FileOpen", "DirOpen"} -> AddressOfNew(i)
      [] info.kind \in {"Realloc", "ReturnArg"} -> {Plain("Copy", i.args[info.arg], i.dst)}
      [] info.kind = "Named"       -> {Plain("Copy", NamedId(info.name), i.dst)}
      [] info.kind = "ArgOrStatic" -> {Plain("Copy", NamedId(info.name), i.dst),
                                       Plain("Copy", i.args[info.arg], i.dst)}
      [] info.kind = "StoreArgs"   -> {Plain("Store", i.args[1], i.args[2])}
      [] info.kind = "Memcpy"      -> MemcpyCons(i)
      [] info.kind = "PthreadCreate" -> {Plain("Copy", i.args[info.arg], i.started)}
      [] info.kind = "Unknown"     -> UnknownCons(i)
      [] OTHER                     -> {}

(***************************************************************************)
(* The memory a call hands to the profilers (getAllocData): what its       *)
(* result points to, under the id of the call or of a name.                *)
(***************************************************************************)
AnnouncedNew(info)   == info.kind \in {"Alloc", "Realloc", "Strdup", "FileOpen"}
AnnouncedNamed(info) == info.kind \in {"DirOpen", "Named"}
\* The branch on "result # argument" has its two ends swapped: the length is
\* taken when the argument itself comes back, and no name is given.
AnnouncedArg(info, i, result, argument) == info.kind = "ArgOrStatic" /\ result = argument

\* getFreeData: the arguments whose memory is gone.
\* (wrong: only realloc gives memory back)
Freed_Realloc(info) == IF info.kind = "Realloc" THEN {1} ELSE {}
Freed(info) == IF info.kind \in {"Free", "Realloc"} THEN {1} ELSE {}

\* ExtLibInfo::addGlobalConstraints gives these names an object.
StaticObjects == {"env", "envp", "argv", "arg", "errno", "strtok", "gettext_static", "dir",
    "datetime_static", "ctype", "textdomain_static", "terminfo", "clib", "locale", "pwnam", "grnam",
    "stdio"}
StaticCons ==
    {Plain("AddressOf", StaticObj(n), NamedId(n)) : n \in StaticObjects}
    \cup {Plain("Store", NamedId("env"), NamedId("envp")), Plain("Store", NamedId("arg"), NamedId("argv"))}

\* ExtLibInfo::init gives these an id.
Names == StaticObjects \cup {"dirent_static", "struct.__dirstream"}
=============================================================================
