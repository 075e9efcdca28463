----------------------------- MODULE AppLoader -----------------------------
(***************************************************************************)
(* AppLoader.cpp: how the worker gets hold of the code of the app.  The    *)
(* CdlLoader opens a shared library and looks up four functions in it; in  *)
(* a build with SW_APP_LINK_STATIC the StaticLoader takes them from the    *)
(* program itself.  Only the main thread calls the loader.                 *)
(***************************************************************************)
EXTENDS Naturals

VARIABLES linked,     \* "dynamic" (CdlLoader) or "static" (StaticLoader)
          library,    \* what the file of the app offers
          m_pHandle,  \* "closed" or "open"; the static code is always there
          _creator, _destroyer, \* the function has been found
          rwlock      \* m_module_rwlock: "free" or "held" (by the main thread)

vars == <<linked, library, m_pHandle, _creator, _destroyer, rwlock>>

Symbol == {"CreateInterface", "DestroyInterface", "GetAppName", "GetAppVersion"}

\* Libraries of DEFINE_SW_APP define every symbol and return strings; others
\* may lack one of them, or return a nullptr.
Library ==
  [opens : BOOLEAN, symbols : {Symbol} \cup {Symbol \ {s} : s \in Symbol}, strings : BOOLEAN]

Init ==
  /\ linked \in {"dynamic", "static"}
  /\ library \in Library
  /\ linked = "static" => library.opens /\ library.symbols = Symbol
  /\ m_pHandle = "closed"
  /\ _creator = FALSE
  /\ _destroyer = FALSE
  /\ rwlock = "free"

-----------------------------------------------------------------------------
(* CdlLoader::load.  Its dlsym calls stop at the first symbol that is not  *)
(* there; the library stays open and the functions found so far are kept.  *)

Found(s) == s \in library.symbols

DynamicLoad(ok) ==
  /\ linked = "dynamic"
  /\ UNCHANGED <<linked, library>>
  /\ ok <=> /\ m_pHandle = "closed"
            /\ library.opens /\ library.symbols = Symbol /\ library.strings
  /\ IF m_pHandle = "closed" /\ library.opens
       THEN /\ m_pHandle' = "open"
            /\ _creator' = Found("CreateInterface")
            /\ _destroyer' = (_creator' /\ Found("DestroyInterface"))
            /\ rwlock' = IF library.symbols = Symbol /\ ~library.strings THEN "held" ELSE "free"
       ELSE UNCHANGED <<m_pHandle, _creator, _destroyer, rwlock>>

\* StaticLoader::load.
StaticLoad(ok) ==
  /\ linked = "static"
  /\ ok <=> library.strings
  /\ _creator' = TRUE
  /\ _destroyer' = TRUE
  /\ UNCHANGED <<linked, library, m_pHandle, rwlock>>

load(ok) == DynamicLoad(ok) \/ StaticLoad(ok)

\* create and destroy take the read lock around the call; where the thread
\* itself holds the write lock, they give up.
MayCall == rwlock = "free"

create(app) == (app => MayCall /\ _creator) /\ UNCHANGED vars

destroy(done) == (done <=> MayCall /\ _destroyer) /\ UNCHANGED vars

\* ~CdlLoader: a failure to lock is logged and the library closed all the same.
Close ==
  /\ m_pHandle' = "closed"
  /\ _creator' = (linked = "static" /\ _creator)
  /\ _destroyer' = (linked = "static" /\ _destroyer)
  /\ UNCHANGED <<linked, library, rwlock>>

\* The code of the app can be run.
CodeIsThere == linked = "static" \/ m_pHandle = "open"
=============================================================================
