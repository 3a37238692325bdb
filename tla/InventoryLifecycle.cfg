SPECIFICATION Spec
CONSTANTS
    foo = foo
    foobar = foobar
    bar = bar
    web = web
    wFoo = wFoo
    wBar = wBar
    wWeb = wWeb
    None = None
    Folders = {1}
    Services = {web, bar}
    Names = {foo, foobar}
    Project <- MCNames
    FolderName <- MCNames
    Named = {}
    RawReadable = {1}
    Words = {wFoo, wBar, wWeb}
    Spelling <- MCSpelling
    Faults = {"exec_fails", "poll_fails", "inspect_fails"}
    MaxEdits = 1
    MaxMissed = 1
INVARIANTS
    TypeOK
    
PROPERTIES
    
    
    NothingHidden
VIEW ButHistory
