SPECIFICATION Spec
CONSTANTS
    ThreadWorlds <- MCThreadWorlds
    ChannelWorlds <- MCChannelWorlds
    SelectWorlds <- MCSelectWorlds
    Grammars <- MCGrammars
    RegexpWorlds <- MCRegexpWorlds
    LexerWorlds <- MCLexerWorlds
    DebuggerWorlds <- MCDebuggerWorlds
    BacktraceWorlds <- MCBacktraceWorlds
    StartupWorlds <- MCStartupWorlds
    PrimitiveWorlds <- MCPrimitiveWorlds
INVARIANTS
    ThreadsRight ChannelsRight SelectRight ParserRight RegexpRight
    LexersRight DebuggerRight BacktraceRight StartupRight ArithmeticRight
CHECK_DEADLOCK FALSE
