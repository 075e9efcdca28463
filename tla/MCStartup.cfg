SPECIFICATION StartupSpec
CONSTANTS
  SyncFactory = {"sync"}
  Input <- MCInput
  Service = {"echo", "admin"}
  MethodsOf <- MCMethodsOf
  Method = {"get", "put"}
  Topology = {"default", "t1"}
  MaxServings = 3
  ConfService <- MCConfService
  StrItem = {"max_concurrency"}
  IntItem = {"PORT"}
  Raw = {"8082x", "word"}
  Flags <- AnyFlags
  Files <- AnyFile
  MaxSetenv = 1
  Name = {"echo", "rank", "none"}
  Registerer <- MCRegisterer
  MaxObjects = 3
  NULL = NULL
INVARIANTS EveryMethodServed AnswersAgreeWithItems EveryRegistrationKept TrueMeansAllAdded
  SortedIsTopological RejectsExactlyLoops ParallelHasPeer ShortFormsAreSequential ElementsAsDefined
CHECK_DEADLOCK FALSE
