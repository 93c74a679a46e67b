SPECIFICATION Spec
CONSTANTS
  Names = {"npm", "pypi", "crates", "maven", "nuget", "rubygems", "composer",
           "go", "swift", "spm", "vcpkg", "conan", "brew", "github_releases",
           "swiftpackageindex"}
  MaxChanges = 2
INVARIANTS
  TypeOK
  BlamedVariableWasUnset
  TokensGoHome
  UsableTokenIsUsed
